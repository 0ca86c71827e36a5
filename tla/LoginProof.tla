----------------------------- MODULE LoginProof -----------------------------
(***************************************************************************)
(* Who gets in: login_start and login_finish of                            *)
(* crates/api/src/auth/routes.rs with the SCRAM proof of scram.rs and the  *)
(* signed message of transcript.rs, over the accounts and challenges of    *)
(* AccountRegistry, so that registrations, clean-ups, retries and other    *)
(* logins come in between.                                                 *)
(*                                                                         *)
(* SHA-256 and HMAC-SHA-256 are terms: equal only if everything that went  *)
(* into them is equal.  The message is a record, because push_field writes *)
(* every field with its name and length.  The client and server nonces of  *)
(* a challenge are random and belong to it alone: the id stands for them.  *)
(* So does a registration's id for the salts it was given.  Iterations and *)
(* profiles have one value.                                                *)
(***************************************************************************)
EXTENDS AccountRegistry

CONSTANT Secrets   \* what clients derive from passwords and account secrets

VARIABLES
  credential,  \* the salt and auth_stored_key columns of accounts
  answers,     \* history: the salt login_start answered with
  verdicts     \* history: how many proofs were judged for a challenge

loginVars == <<vars, credential, answers, verdicts>>

Salts == ChallengeIds \cup Handles

LoginInit ==
  /\ Init
  /\ credential = [a \in Accounts |-> None]
  /\ answers = [c \in ChallengeIds |-> None]
  /\ verdicts = [c \in ChallengeIds |-> 0]

-----------------------------------------------------------------------------
(***************************************************************************)
(* SCRAM.                                                                  *)
(***************************************************************************)

\* client_key, from the salted password.
ClientKey(secret, salt) == [secret |-> secret, salt |-> salt]

\* derive_verifier, of which the server keeps H(client_key).
StoredKey(key) == [hash_of |-> key]

\* Slip: the message leaves out what tells one challenge from another.
AuthMessageOfHandle(c, nonces, handle) == [handle |-> handle]

\* login_auth_message
AuthMessage(c, nonces, handle) == [challenge |-> c, nonces |-> nonces, handle |-> handle]

\* What an account stores of a secret, and the salt it goes with.
Credential ==
  [salt : ChallengeIds,
   stored : { StoredKey(ClientKey(s, c)) : s \in Secrets, c \in ChallengeIds }]

ASSUME LoginAssumption == None \notin ChallengeIds \cup Handles \cup Credential

Signature(stored, message) == [key |-> stored, message |-> message]

\* client_proof: the client key XORed with the signature.
ClientProof(secret, salt, message) ==
  LET key == ClientKey(secret, salt) IN
  [xor |-> key, with |-> Signature(StoredKey(key), message)]

\* verify_client_proof: XORing with the right signature gives the key back,
\* with another one something that is no preimage of the stored key.
ProofOk(stored, message, proof) ==
  /\ proof.with = Signature(stored, message)
  /\ StoredKey(proof.xor) = stored

\* The proof a client makes for the answer it got to its own login_start.
ProofFor(c, secret) ==
  LET start == CHOOSE i \in issued : i.id = c IN
  ClientProof(secret, answers[c], AuthMessage(c, c, start.handle))

-----------------------------------------------------------------------------
(***************************************************************************)
(* What registration and clean-up do to the credentials.                   *)
(***************************************************************************)

\* register_finish stores the verifier of the secret under its own salts.
Register(h, a, secret) ==
  /\ FinishCommit(h, a)
  /\ credential' = [credential EXCEPT ![a] =
       LET salt == req[h].challenge IN
       [salt |-> salt, stored |-> StoredKey(ClientKey(secret, salt))]]
  /\ UNCHANGED <<answers, verdicts>>

CleanUp(h) ==
  /\ DeleteSynthetic(h)
  /\ credential' = [a \in Accounts |-> IF account'[a] = None THEN None ELSE credential[a]]
  /\ UNCHANGED <<answers, verdicts>>

\* load_login_metadata, or synthetic_login_metadata: a keyed hash of the handle.
AnsweredSalt(a, handle) == IF a = None THEN handle ELSE credential[a].salt

\* The end of register_start and of login_start.
Issue(h, c) ==
  /\ InsertChallenge(h, c)
  /\ answers' = IF req[h].type = "login"
                THEN [answers EXCEPT ![c] = AnsweredSalt(req[h].account, req[h].handle)]
                ELSE answers
  /\ UNCHANGED <<credential, verdicts>>

-----------------------------------------------------------------------------
(***************************************************************************)
(* login_finish, one transaction.                                          *)
(***************************************************************************)

\* SELECT ... FOR UPDATE of an unconsumed, unexpired login challenge.  The
\* request has the nonces of one login_start and the proof made for one.
LoginLock(h, c, nonces, own, secret) ==
  /\ req[h].phase = "idle"
  /\ c \in Rows /\ challenge[c].type = "login"
  /\ ~Locked(c)
  /\ ~challenge[c].consumed /\ challenge[c].expires >= clock
  /\ req' = [req EXCEPT ![h] =
       [phase |-> "proof", since |-> clock, challenge |-> c, nonces |-> nonces,
        own |-> own, secret |-> secret]]
  /\ UNCHANGED <<clock, challenge, account, vault, issued, registered,
                 credential, answers, verdicts>>

\* The account the challenge was issued for, if it is still there.
ChallengedAccount(c) ==
  { a \in AccountOf(challenge[c].handle) : a = challenge[c].account }

\* The request's nonces are the challenge's, and the proof fits the account.
Passes(h) ==
  LET c == req[h].challenge IN
  /\ req[h].nonces = c
  /\ \E a \in ChallengedAccount(c) :
       ProofOk(credential[a].stored,
               AuthMessage(c, req[h].nonces, challenge[c].handle),
               ProofFor(req[h].own, req[h].secret))

Judged(h) == verdicts' = [verdicts EXCEPT ![req[h].challenge] = @ + 1]

\* challenge_mismatch or proof_failed: the challenge is used up.
LoginFails(h) ==
  /\ req[h].phase = "proof"
  /\ ~Passes(h)
  /\ challenge' = Consumed(req[h].challenge)
  /\ req' = [req EXCEPT ![h] = Idle]
  /\ Judged(h)
  /\ UNCHANGED <<clock, account, vault, issued, registered, credential, answers>>

LoginPasses(h) ==
  /\ req[h].phase = "proof"
  /\ Passes(h)
  /\ req' = [req EXCEPT ![h].phase = "session"]
  /\ UNCHANGED <<clock, challenge, account, vault, issued, registered,
                 credential, answers, verdicts>>

\* The second-factor challenge or the session, the audit event, COMMIT.
LoginCommit(h) ==
  /\ req[h].phase = "session"
  /\ challenge' = Consumed(req[h].challenge)
  /\ req' = [req EXCEPT ![h] = Idle]
  /\ Judged(h)
  /\ UNCHANGED <<clock, account, vault, issued, registered, credential, answers>>

-----------------------------------------------------------------------------
Answered == { c \in ChallengeIds : answers[c] # None }

\* The steps of AccountRegistry that do not touch what is added here.
RegistryStep(h) ==
  /\ \/ \E type \in Types, handle \in Handles : Start(h, type, handle)
     \/ Permit(h) \/ RateLimited(h) \/ LoadMetadata(h)
     \/ \E c \in ChallengeIds, v \in VaultIds : FinishLock(h, c, v)
     \/ InsertAccount(h) \/ InsertVault(h) \/ Unavailable(h)
     \/ CountSynthetic(h) \/ Stop(h)
  /\ UNCHANGED <<credential, answers, verdicts>>

LoginNext ==
  \/ \E h \in Handlers :
       \/ RegistryStep(h)
       \/ \E c \in ChallengeIds : Issue(h, c)
       \/ \E a \in Accounts, secret \in Secrets : Register(h, a, secret)
       \/ CleanUp(h)
       \/ \E c, own \in Answered, secret \in Secrets :
            \E nonces \in {c, own} : LoginLock(h, c, nonces, own, secret)
       \/ LoginFails(h) \/ LoginPasses(h) \/ LoginCommit(h)
  \/ Tick /\ UNCHANGED <<credential, answers, verdicts>>

LoginSpec == LoginInit /\ [][LoginNext]_loginVars

-----------------------------------------------------------------------------
(***************************************************************************)
(* Properties.                                                             *)
(***************************************************************************)

(* Every account has its credentials, and a transaction keeps the challenge it
   has locked: it is there, open, of its type, and no other one's.          *)
LoginTypeOK ==
  /\ TypeOK
  /\ credential \in [Accounts -> Credential \cup {None}]
  /\ \A a \in Accounts : account[a] = None <=> credential[a] = None
  /\ answers \in [ChallengeIds -> Salts \cup {None}]
  /\ \A h \in Handlers : req[h].phase \in {"proof", "session"} =>
       /\ req[h].challenge \in Rows
       /\ challenge[req[h].challenge].type = "login"
       /\ ~challenge[req[h].challenge].consumed
       /\ \A o \in Others(h, Holding) : req[o].challenge # req[h].challenge

SecretOf(a) == credential[a].stored.hash_of.secret

(* A login passes only for the account its challenge was issued for, which is
   still there, with a proof made with that account's own secret for this very
   challenge: not with a proof for an earlier one, not for an account that has
   taken the handle since.  And the secret's owner, who answers what
   login_start said, passes as long as the challenge is open.               *)
ProofDecides ==
  /\ \A h \in Handlers : req[h].phase = "session" =>
       LET c == req[h].challenge
           a == challenge[c].account
       IN
       /\ a # None /\ account[a] # None
       /\ req[h].own = c
       /\ req[h].secret = SecretOf(a)
  /\ \A c \in Rows :
       LET a == challenge[c].account IN
       challenge[c].type = "login" /\ a # None =>
         ProofOk(credential[a].stored, AuthMessage(c, c, challenge[c].handle),
                 ProofFor(c, SecretOf(a)))

(* A challenge is answered once: a register challenge leads to one account,
   ever, and a login challenge to one verdict, however many requests for it
   arrive at once or again, and although rows and accounts are cleaned up in
   between.                                                                 *)
ChallengeAnsweredOnce ==
  /\ \A r, s \in registered : r.challenge = s.challenge => r = s
  /\ \A c \in ChallengeIds : verdicts[c] <= 1

=============================================================================
