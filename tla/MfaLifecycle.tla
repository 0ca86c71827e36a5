---------------------------- MODULE MfaLifecycle ----------------------------
(***************************************************************************)
(* Sign-in and second factor of one account: login_finish, totp_verify,    *)
(* recovery_code_verify, totp_enroll_start, totp_enroll_confirm and the    *)
(* end of sessions (crates/api/src/auth/routes.rs, auth/totp.rs), over the *)
(* tables auth_challenges, totp_factors, recovery_codes and sessions.      *)
(*                                                                         *)
(* A transaction that locks every row it decides on is one step.  What a   *)
(* handler reads before its transaction, or without a lock, is a step of   *)
(* its own, and so is the DELETE of totp_enroll_start, which leaves its    *)
(* INSERT to run against what others have committed since.  A handler's    *)
(* clock is read when the request arrives and may lag when it is used.     *)
(***************************************************************************)
EXTENDS Integers, FiniteSets

CONSTANTS
  Handlers,       \* requests that may run at the same time
  Logins,         \* login challenges
  Challenges,     \* pre_mfa challenges
  Sessions,       \* sessions rows
  Factors,        \* totp_factors ids, random
  RecoveryCodes,  \* random recovery codes
  CodeCount,      \* RECOVERY_CODE_COUNT
  MaxAttempts,    \* MFA_CHALLENGE_MAX_ATTEMPTS
  Hotp,           \* the code of a factor's seed at a time step
  TotpCodes,      \* codes a user may type
  MaxStep,        \* bound of the model: the last time step
  MaxLag,         \* bound of the model: time steps a request may take
  None

ASSUME MfaAssumption ==
  /\ CodeCount \in Nat /\ MaxAttempts \in Nat \ {0}
  /\ MaxStep \in Nat /\ MaxLag \in Nat
  /\ \A f \in Factors, n \in 0..(MaxStep + 1) : Hotp[<<f, n>>] \in TotpCodes
  /\ None \notin Factors \cup Sessions \cup Challenges \cup Logins \cup Nat
  /\ Sessions \cap Challenges = {}

VARIABLES
  clock,       \* the current TOTP time step
  login,       \* login challenges: not issued, open or consumed
  challenge,   \* pre_mfa challenges and their attempts
  factor,      \* the account's only totp_factors row
  drawn,       \* factor ids drawn so far
  codes,       \* recovery_codes rows: state, and the enrollment they are from
  session,     \* sessions: state, and the challenge they were created for
  tx,          \* requests under way
  acceptances, \* history: TOTP steps accepted, for which factor and by whom
  uses,        \* history: recovery codes accepted, and for which challenge
  replacedIn   \* history: states of sessions that replaced a verified factor

vars == <<clock, login, challenge, factor, drawn, codes, session, tx,
          acceptances, uses, replacedIn>>

EnrollStates  == {"mfa_enrollment_required", "mfa_recovery"}
SessionStates == EnrollStates \cup {"none", "mfa_verified", "ended"}

Idle == [phase |-> "idle"]

\* The account has just been registered: one session, which must enroll.
Init ==
  /\ clock = 0
  /\ login = [l \in Logins |-> "none"]
  /\ challenge = [c \in Challenges |-> [state |-> "none", attempts |-> 0]]
  /\ factor = None
  /\ drawn = {}
  /\ codes = [r \in RecoveryCodes |-> [state |-> "none", of |-> None]]
  /\ \E s \in Sessions :
       session = [x \in Sessions |->
                    [state |-> IF x = s THEN "mfa_enrollment_required" ELSE "none", of |-> None]]
  /\ tx = [h \in Handlers |-> Idle]
  /\ acceptances = {} /\ uses = {} /\ replacedIn = {}

history == <<acceptances, uses, replacedIn>>

-----------------------------------------------------------------------------
\* Slip: the previous step is accepted however often it was used.
CandidatesUnfiltered(now, last) == {now - 1, now, now + 1} \cap Nat

\* The steps totp::verify tries: one step either side, and past the last one.
Candidates(now, last) ==
  { n \in {now - 1, now, now + 1} \cap Nat : last # None => n > last }

Matching(f, code, now, last) == { n \in Candidates(now, last) : Hotp[<<f, n>>] = code }

\* The earliest match wins.
AcceptedStep(f, code, now, last) ==
  CHOOSE n \in Matching(f, code, now, last) :
    \A m \in Matching(f, code, now, last) : n <= m

Nows == { n \in 0..MaxStep : clock - MaxLag <= n /\ n <= clock }

\* create_session_with_device: a new row.
NewSession(s, state, c) ==
  /\ session[s].state = "none"
  /\ session' = [session EXCEPT ![s] = [state |-> state, of |-> c]]

\* insert_auth_challenge_tx: a new pre_mfa row.
NewChallenge(c) ==
  /\ challenge[c].state = "none"
  /\ challenge' = [challenge EXCEPT ![c].state = "open"]

\* increment_challenge_attempts
FailedAttempt(c) ==
  challenge' = [challenge EXCEPT ![c] =
    [state    |-> IF challenge[c].attempts + 1 >= MaxAttempts THEN "consumed" ELSE "open",
     attempts |-> challenge[c].attempts + 1]]

\* Slip: a spent challenge is left open.
ConsumeNothing(c) == UNCHANGED challenge

\* consume_auth_challenge
Consume(c) == challenge' = [challenge EXCEPT ![c].state = "consumed"]

\* A pre_mfa challenge is there, unconsumed, unexpired and has attempts left.
Usable(c) == challenge[c].state = "open" /\ challenge[c].attempts < MaxAttempts

Answered(h) == tx' = [tx EXCEPT ![h] = Idle]

-----------------------------------------------------------------------------
(***************************************************************************)
(* Sign-in.                                                                *)
(***************************************************************************)

LoginStart(l) ==
  /\ login[l] = "none"
  /\ login' = [login EXCEPT ![l] = "open"]
  /\ UNCHANGED <<clock, challenge, factor, drawn, codes, session, tx, history>>

\* A nonce does not match or the proof is wrong: the challenge is spent.
LoginProofFails(l) ==
  /\ login[l] = "open"
  /\ \A h \in Handlers : tx[h].phase = "login" => tx[h].login # l
  /\ login' = [login EXCEPT ![l] = "consumed"]
  /\ UNCHANGED <<clock, challenge, factor, drawn, codes, session, tx, history>>

\* Slip: a factor counts before it is confirmed.
ActiveFactorOrPending == factor # None

\* The account has a factor with verified_at set.
ActiveFactor == factor # None /\ factor.verified

\* The proof is right.  The challenge row is locked; the factor is only read.
LoginProofHolds(h, l) ==
  /\ tx[h] = Idle
  /\ login[l] = "open"
  /\ \A o \in Handlers : tx[o].phase = "login" => tx[o].login # l
  /\ tx' = [tx EXCEPT ![h] =
              [phase |-> "login", login |-> l, mfa |-> ActiveFactor]]
  /\ UNCHANGED <<clock, login, challenge, factor, drawn, codes, session, history>>

\* A verified factor was found: a pre_mfa challenge is issued.
LoginNeedsMfa(h, c) ==
  /\ tx[h].phase = "login" /\ tx[h].mfa
  /\ NewChallenge(c)
  /\ login' = [login EXCEPT ![tx[h].login] = "consumed"]
  /\ Answered(h)
  /\ UNCHANGED <<clock, factor, drawn, codes, session, history>>

\* None was found: a session that must enroll.
LoginNeedsEnrollment(h, s) ==
  /\ tx[h].phase = "login" /\ ~tx[h].mfa
  /\ NewSession(s, "mfa_enrollment_required", None)
  /\ login' = [login EXCEPT ![tx[h].login] = "consumed"]
  /\ Answered(h)
  /\ UNCHANGED <<clock, challenge, factor, drawn, codes, history>>

\* A transaction that has deleted the row keeps others from locking it.
FactorLocked(h) ==
  factor # None /\ \E o \in Handlers \ {h} : tx[o].phase = "insert" /\ tx[o].held = factor.id

FactorFree == \A h \in Handlers : ~FactorLocked(h)

\* totp_verify, right code: session, last accepted step, challenge, commit.
TotpVerify(c, code, now, s) ==
  LET step == AcceptedStep(factor.id, code, now, factor.last) IN
  /\ Usable(c)
  /\ ActiveFactor /\ FactorFree
  /\ Matching(factor.id, code, now, factor.last) # {}
  /\ NewSession(s, "mfa_verified", c)
  /\ factor' = [factor EXCEPT !.last = step]
  /\ acceptances' = acceptances \cup {[factor |-> factor.id, step |-> step, by |-> c]}
  /\ Consume(c)
  /\ UNCHANGED <<clock, login, drawn, codes, tx, uses, replacedIn>>

\* totp_verify, wrong code.
TotpVerifyFails(c, code, now) ==
  /\ Usable(c)
  /\ ActiveFactor /\ FactorFree
  /\ Matching(factor.id, code, now, factor.last) = {}
  /\ FailedAttempt(c)
  /\ UNCHANGED <<clock, login, factor, drawn, codes, session, tx, history>>

Match(r) == codes[r].state = "unused"

\* recovery_code_verify, an unused code: used, session, challenge, commit.
RecoveryVerify(c, r, s) ==
  /\ Usable(c)
  /\ Match(r)
  /\ codes' = [codes EXCEPT ![r].state = "used"]
  /\ uses' = uses \cup {[code |-> r, by |-> c]}
  /\ NewSession(s, "mfa_recovery", c)
  /\ Consume(c)
  /\ UNCHANGED <<clock, login, factor, drawn, tx, acceptances, replacedIn>>

\* recovery_code_verify: unknown, used or replaced.
RecoveryFails(c, r) ==
  /\ Usable(c)
  /\ ~Match(r)
  /\ FailedAttempt(c)
  /\ UNCHANGED <<clock, login, factor, drawn, codes, session, tx, history>>

-----------------------------------------------------------------------------
(***************************************************************************)
(* Enrollment.                                                             *)
(***************************************************************************)

\* Session, state and CSRF token are checked before the transaction begins.
EnrollStart(h, s) ==
  /\ tx[h] = Idle
  /\ session[s].state \in EnrollStates
  /\ tx' = [tx EXCEPT ![h] = [phase |-> "delete", session |-> s]]
  /\ UNCHANGED <<clock, login, challenge, factor, drawn, codes, session, history>>

\* DELETE takes its snapshot: the row it will try to lock.
EnrollDelete(h) ==
  /\ tx[h].phase = "delete"
  /\ tx' = [tx EXCEPT ![h] = [phase |-> "lock", session |-> tx[h].session,
                              seen |-> IF factor = None THEN None ELSE factor.id]]
  /\ UNCHANGED <<clock, login, challenge, factor, drawn, codes, session, history>>

\* DELETE has the row, or it is gone; a row inserted since is not in its snapshot.
EnrollLock(h) ==
  LET mine == factor # None /\ factor.id = tx[h].seen IN
  /\ tx[h].phase = "lock"
  /\ mine => ~FactorLocked(h)
  /\ tx' = [tx EXCEPT ![h] = [phase |-> "insert", session |-> tx[h].session,
                              held |-> IF mine THEN factor.id ELSE None]]
  /\ UNCHANGED <<clock, login, challenge, factor, drawn, codes, session, history>>

\* INSERT meets no other row of the account.
NoRowLeft(h) == factor # None => factor.id = tx[h].held

\* INSERT of the pending factor, and commit.
EnrollInsert(h, f) ==
  /\ tx[h].phase = "insert"
  /\ NoRowLeft(h)
  /\ f \notin drawn
  /\ factor' = [id |-> f, verified |-> FALSE, last |-> None]
  /\ drawn' = drawn \cup {f}
  /\ replacedIn' = replacedIn \cup
       (IF factor # None /\ factor.verified THEN {session[tx[h].session].state} ELSE {})
  /\ Answered(h)
  /\ UNCHANGED <<clock, login, challenge, codes, session, acceptances, uses>>

\* UNIQUE (account_id): 503, and the DELETE is undone.
EnrollRefused(h) ==
  /\ tx[h].phase = "insert"
  /\ ~NoRowLeft(h)
  /\ Answered(h)
  /\ UNCHANGED <<clock, login, challenge, factor, drawn, codes, session, history>>

\* totp_enroll_confirm: the same checks, before its transaction.
ConfirmStart(h, s, f) ==
  /\ tx[h] = Idle
  /\ session[s].state \in EnrollStates
  /\ f \in drawn
  /\ tx' = [tx EXCEPT ![h] = [phase |-> "confirm", session |-> s, factor |-> f]]
  /\ UNCHANGED <<clock, login, challenge, factor, drawn, codes, session, history>>

PendingFactor(f) == factor # None /\ factor.id = f /\ ~factor.verified

\* No such factor, or it is verified already.
ConfirmUnavailable(h) ==
  /\ tx[h].phase = "confirm"
  /\ FactorFree
  /\ ~PendingFactor(tx[h].factor)
  /\ Answered(h)
  /\ UNCHANGED <<clock, login, challenge, factor, drawn, codes, session, history>>

\* A wrong or malformed code deletes the pending factor.
ConfirmFails(h, code, now) ==
  LET f == tx[h].factor IN
  /\ tx[h].phase = "confirm"
  /\ FactorFree
  /\ PendingFactor(f)
  /\ Matching(f, code, now, factor.last) = {}
  /\ factor' = None
  /\ Answered(h)
  /\ UNCHANGED <<clock, login, challenge, drawn, codes, session, history>>

\* generate_recovery_codes draws codes that were never used before.
Generated(new) == Cardinality(new) = CodeCount /\ \A r \in new : codes[r].state = "none"

\* Slip: the codes of an earlier enrollment stay valid.
ReissuedAdding(new, f) ==
  [r \in RecoveryCodes |-> IF r \in new THEN [state |-> "unused", of |-> f] ELSE codes[r]]

\* All recovery codes of the account are deleted, then new ones inserted.
Reissued(new, f) ==
  [r \in RecoveryCodes |->
     IF r \in new THEN [state |-> "unused", of |-> f]
     ELSE IF codes[r].state = "none" THEN codes[r]
     ELSE [state |-> "deleted", of |-> codes[r].of]]

\* UPDATE sessions ... WHERE id: no row after a logout, no effect once revoked.
Upgraded(s) ==
  [session EXCEPT ![s].state = IF session[s].state = "ended" THEN "ended" ELSE "mfa_verified"]

\* Slip: the confirmed step is not recorded.
ActivatedOnly(step) == [factor EXCEPT !.verified = TRUE]

Activated(step) == [factor EXCEPT !.verified = TRUE, !.last = step]

\* The right code: recovery codes, factor, session, commit.
Confirm(h, code, now, new) ==
  LET f    == tx[h].factor
      s    == tx[h].session
      step == AcceptedStep(f, code, now, factor.last)
  IN
  /\ tx[h].phase = "confirm"
  /\ FactorFree
  /\ PendingFactor(f)
  /\ Matching(f, code, now, factor.last) # {}
  /\ Generated(new)
  /\ codes' = Reissued(new, f)
  /\ factor' = Activated(step)
  /\ session' = Upgraded(s)
  /\ acceptances' = acceptances \cup {[factor |-> f, step |-> step, by |-> s]}
  /\ Answered(h)
  /\ UNCHANGED <<clock, login, challenge, drawn, uses, replacedIn>>

-----------------------------------------------------------------------------
\* A statement fails or the process dies: the transaction rolls back.
Rollback(h) ==
  /\ tx[h] # Idle
  /\ Answered(h)
  /\ UNCHANGED <<clock, login, challenge, factor, drawn, codes, session, history>>

\* logout deletes the row, or a request finds it expired and revokes it.
SessionEnds(s) ==
  /\ session[s].state \in EnrollStates \cup {"mfa_verified"}
  /\ session' = [session EXCEPT ![s].state = "ended"]
  /\ UNCHANGED <<clock, login, challenge, factor, drawn, codes, tx, history>>

\* expires_at passes; the row may be cleaned up.
ChallengeExpires(c) ==
  /\ challenge[c].state = "open"
  /\ challenge' = [challenge EXCEPT ![c].state = "expired"]
  /\ UNCHANGED <<clock, login, factor, drawn, codes, session, tx, history>>

Tick ==
  /\ clock < MaxStep
  /\ clock' = clock + 1
  /\ UNCHANGED <<login, challenge, factor, drawn, codes, session, tx, history>>

SignIn ==
  \/ \E l \in Logins :
       \/ LoginStart(l) \/ LoginProofFails(l)
       \/ \E h \in Handlers : LoginProofHolds(h, l)
  \/ \E h \in Handlers :
       \/ \E c \in Challenges : LoginNeedsMfa(h, c)
       \/ \E s \in Sessions : LoginNeedsEnrollment(h, s)

SecondFactor ==
  \E c \in Challenges :
    \/ \E code \in TotpCodes, now \in Nows :
         \/ \E s \in Sessions : TotpVerify(c, code, now, s)
         \/ TotpVerifyFails(c, code, now)
    \/ \E r \in RecoveryCodes :
         \/ \E s \in Sessions : RecoveryVerify(c, r, s)
         \/ RecoveryFails(c, r)

Enrollment ==
  \E h \in Handlers :
    \/ \E s \in Sessions : EnrollStart(h, s)
    \/ EnrollDelete(h) \/ EnrollLock(h)
    \/ \E f \in Factors : EnrollInsert(h, f)
    \/ EnrollRefused(h)
    \/ \E s \in Sessions, f \in Factors : ConfirmStart(h, s, f)
    \/ ConfirmUnavailable(h)
    \/ \E code \in TotpCodes, now \in Nows :
         \/ ConfirmFails(h, code, now)
         \/ \E new \in SUBSET RecoveryCodes : Confirm(h, code, now, new)

Next ==
  \/ SignIn \/ SecondFactor \/ Enrollment
  \/ \E h \in Handlers : Rollback(h)
  \/ \E s \in Sessions : SessionEnds(s)
  \/ \E c \in Challenges : ChallengeExpires(c)
  \/ Tick

Spec == Init /\ [][Next]_vars

-----------------------------------------------------------------------------
(***************************************************************************)
(* Properties.                                                             *)
(***************************************************************************)

FactorRow ==
  [id : Factors, verified : BOOLEAN, last : (0..(MaxStep + 1)) \cup {None}]

Request ==
  [phase : {"idle"}]
  \cup [phase : {"login"}, login : Logins, mfa : BOOLEAN]
  \cup [phase : {"delete"}, session : Sessions]
  \cup [phase : {"lock"}, session : Sessions, seen : Factors \cup {None}]
  \cup [phase : {"insert"}, session : Sessions, held : Factors \cup {None}]
  \cup [phase : {"confirm"}, session : Sessions, factor : Factors]

(* Every table and every request under way has the columns and the values the
   schema and the handlers give it; a factor is verified exactly when a step
   of it has been accepted.                                                 *)
TypeOK ==
  /\ clock \in 0..MaxStep
  /\ login \in [Logins -> {"none", "open", "consumed"}]
  /\ challenge \in [Challenges -> [state : {"none", "open", "consumed", "expired"},
                                   attempts : 0..MaxAttempts]]
  /\ factor \in FactorRow \cup {None}
  /\ factor # None => (factor.id \in drawn /\ (factor.verified <=> factor.last # None))
  /\ drawn \subseteq Factors
  /\ codes \in [RecoveryCodes -> [state : {"none", "unused", "used", "deleted"},
                                  of : Factors \cup {None}]]
  /\ session \in [Sessions -> [state : SessionStates, of : Challenges \cup {None}]]
  /\ tx \in [Handlers -> Request]

(* A TOTP step of a factor is accepted at most once, by whichever of any
   number of concurrent logins and confirmations comes first, even if codes
   of different steps coincide and the request's clock lags.                *)
NoTotpReplay ==
  \A a, b \in acceptances : a.factor = b.factor /\ a.step = b.step => a = b

(* A recovery code gives one session at most, and only the codes of the most
   recent enrollment can give any: a code the account may still use belongs
   to the enrollment confirmed last.                                        *)
RecoveryCodesSpent ==
  /\ \A u, v \in uses : u.code = v.code => u = v
  /\ \A u \in uses : codes[u.code].state \in {"used", "deleted"}
  /\ \A q, r \in RecoveryCodes :
       codes[q].state = "unused" /\ codes[r].state \in {"unused", "used"}
         => codes[q].of = codes[r].of

(* A pre_mfa challenge is good for one session, and for no more than the
   permitted number of wrong codes, TOTP and recovery counted together.     *)
ChallengeSpentOnce ==
  /\ \A s, t \in Sessions : session[s].of # None /\ session[s].of = session[t].of => s = t
  /\ \A s \in Sessions : session[s].of # None => challenge[session[s].of].state = "consumed"
  /\ \A c \in Challenges : challenge[c].state = "open" => challenge[c].attempts < MaxAttempts

(* A pending factor never signs anyone in: a factor accepted at a login was
   confirmed before, with an earlier step.                                  *)
LoginOnlyAfterConfirmation ==
  \A a \in acceptances : a.by \in Challenges =>
    \E e \in acceptances : e.factor = a.factor /\ e.by \in Sessions /\ e.step < a.step

(* A verified factor goes away only at the hand of a session that, at that
   moment, has to enroll or is recovering.                                  *)
OnlyEnrollingSessionsReplace == replacedIn \subseteq EnrollStates

=============================================================================
