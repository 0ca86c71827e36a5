------------------------- MODULE MfaLifecycleProofs -------------------------
(***************************************************************************)
(* Type correctness and the safety of the second factor: no time step is   *)
(* accepted twice, no recovery code is used twice, no challenge signs in   *)
(* twice and no unconfirmed factor signs anyone in, for any number of      *)
(* requests, challenges, sessions, factors and codes, and whatever codes a *)
(* seed generates.                                                         *)
(***************************************************************************)
EXTENDS MfaLifecycle, TLAPS

(* What the histories hold. *)
AcceptancesTyped ==
  acceptances \subseteq [factor : drawn, step : Nat, by : Sessions \cup Challenges]

UsesTyped == uses \subseteq [code : RecoveryCodes, by : Challenges]

(* last_accepted_step is at least every accepted step of the row it is in,
   and a row that was verified was so by the confirmation of a session.  A
   row that was deleted never returns: its id is not drawn again.           *)
FactorAhead ==
  factor # None =>
    /\ \A a \in acceptances :
         a.factor = factor.id => factor.last # None /\ a.step <= factor.last
    /\ factor.verified =>
         \E e \in acceptances :
           e.factor = factor.id /\ e.by \in Sessions /\ e.step <= factor.last

(* A challenge that may still be issued or answered has attempts left. *)
AttemptsLeft ==
  \A c \in Challenges :
    challenge[c].state \in {"none", "open"} => challenge[c].attempts < MaxAttempts

(* A session that does not exist yet was created for no challenge. *)
UnusedSessions == \A s \in Sessions : session[s].state = "none" => session[s].of = None

AcceptanceInv ==
  AcceptancesTyped /\ FactorAhead /\ NoTotpReplay /\ LoginOnlyAfterConfirmation

MfaInv ==
  /\ TypeOK
  /\ AcceptanceInv
  /\ UsesTyped /\ RecoveryCodesSpent
  /\ AttemptsLeft /\ UnusedSessions /\ ChallengeSpentOnce

-----------------------------------------------------------------------------
(***************************************************************************)
(* Operators.                                                              *)
(***************************************************************************)

\* Of three steps that may match, one is the earliest.
LEMMA EarliestMatch ==
  ASSUME NEW f, NEW code, NEW now \in Nat, NEW last, Matching(f, code, now, last) # {}
  PROVE  \E n \in Matching(f, code, now, last) :
           \A m \in Matching(f, code, now, last) : n <= m
<1> DEFINE M == Matching(f, code, now, last)
<1>1. M \subseteq {now - 1, now, now + 1} /\ M \subseteq Nat /\ M # {}
  BY DEF Matching, Candidates
<1> SUFFICES \E n \in M : \A m \in M : n <= m
  OBVIOUS
<1> HIDE DEF M
<1>2. CASE now - 1 \in M
  <2>1. \A m \in M : now - 1 <= m
    BY <1>1
  <2> QED
    BY <1>2, <2>1
<1>3. CASE now - 1 \notin M /\ now \in M
  <2>1. \A m \in M : now <= m
    BY <1>1, <1>3
  <2> QED
    BY <1>3, <2>1
<1>4. CASE now - 1 \notin M /\ now \notin M
  <2>1. M = {now + 1}
    BY <1>1, <1>4
  <2> QED
    BY <2>1
<1> QED
  BY <1>2, <1>3, <1>4

\* totp::verify returns a step of the window, after the last accepted one.
LEMMA AcceptedStepIsNew ==
  ASSUME NEW f, NEW code, NEW now \in 0..MaxStep, NEW last,
         Matching(f, code, now, last) # {}
  PROVE  /\ AcceptedStep(f, code, now, last) \in 0..(MaxStep + 1)
         /\ last # None => AcceptedStep(f, code, now, last) > last
<1>1. AcceptedStep(f, code, now, last) \in Matching(f, code, now, last)
  BY EarliestMatch, MfaAssumption DEF AcceptedStep
<1> QED
  BY <1>1, MfaAssumption DEF Matching, Candidates

-----------------------------------------------------------------------------
(***************************************************************************)
(* Which actions change what.                                              *)
(***************************************************************************)

\* The actions that insert, change or delete the totp_factors row.
FactorSteps ==
  \/ \E h \in Handlers, f \in Factors : EnrollInsert(h, f)
  \/ \E c \in Challenges, code \in TotpCodes, now \in Nows, s \in Sessions :
       TotpVerify(c, code, now, s)
  \/ \E h \in Handlers, code \in TotpCodes, now \in Nows : ConfirmFails(h, code, now)
  \/ \E h \in Handlers, code \in TotpCodes, now \in Nows, new \in SUBSET RecoveryCodes :
       Confirm(h, code, now, new)

LEMMA OnlyFactorSteps ==
  ASSUME [Next]_vars
  PROVE  FactorSteps \/ UNCHANGED <<factor, drawn, acceptances>>
BY DEF Next, SignIn, SecondFactor, Enrollment, vars, history, FactorSteps, LoginStart,
  LoginProofFails, LoginProofHolds, LoginNeedsMfa, LoginNeedsEnrollment, TotpVerifyFails,
  RecoveryVerify, RecoveryFails, EnrollStart, EnrollDelete, EnrollLock, EnrollRefused,
  ConfirmStart, ConfirmUnavailable, Rollback, SessionEnds, ChallengeExpires, Tick

\* The actions that change recovery codes.
CodeSteps ==
  \/ \E c \in Challenges, r \in RecoveryCodes, s \in Sessions : RecoveryVerify(c, r, s)
  \/ \E h \in Handlers, code \in TotpCodes, now \in Nows, new \in SUBSET RecoveryCodes :
       Confirm(h, code, now, new)

LEMMA OnlyCodeSteps ==
  ASSUME [Next]_vars
  PROVE  CodeSteps \/ UNCHANGED <<codes, uses>>
BY DEF Next, SignIn, SecondFactor, Enrollment, vars, history, CodeSteps, LoginStart,
  LoginProofFails, LoginProofHolds, LoginNeedsMfa, LoginNeedsEnrollment, TotpVerify,
  TotpVerifyFails, RecoveryFails, EnrollStart, EnrollDelete, EnrollLock, EnrollInsert,
  EnrollRefused, ConfirmStart, ConfirmUnavailable, ConfirmFails, Rollback, SessionEnds,
  ChallengeExpires, Tick

\* What a step does to the challenges and the sessions they gave.
Signed(c, s, state) == NewSession(s, state, c) /\ Consume(c) /\ Usable(c)

ChallengeSteps ==
  \/ \E c \in Challenges : NewChallenge(c) /\ UNCHANGED session
  \/ \E c \in Challenges, s \in Sessions, state \in {"mfa_verified", "mfa_recovery"} :
       Signed(c, s, state)
  \/ \E c \in Challenges : Usable(c) /\ FailedAttempt(c) /\ UNCHANGED session
  \/ \E c \in Challenges : ChallengeExpires(c)
  \/ \E s \in Sessions : NewSession(s, "mfa_enrollment_required", None) /\ UNCHANGED challenge
  \/ \E s \in Sessions : session' = Upgraded(s) /\ UNCHANGED challenge
  \/ \E s \in Sessions : SessionEnds(s)

LEMMA OnlyChallengeSteps ==
  ASSUME TypeOK, [Next]_vars
  PROVE  ChallengeSteps \/ UNCHANGED <<challenge, session>>
<1>1. CASE SignIn
  BY <1>1 DEF SignIn, LoginStart, LoginProofFails, LoginProofHolds, LoginNeedsMfa,
    LoginNeedsEnrollment, ChallengeSteps
<1>2. CASE SecondFactor
  BY <1>2 DEF SecondFactor, TotpVerify, TotpVerifyFails, RecoveryVerify, RecoveryFails,
    ChallengeSteps, Signed
<1>3. CASE Enrollment
  <2>1. ASSUME NEW h \in Handlers, NEW code, NEW now, NEW new, Confirm(h, code, now, new)
        PROVE  ChallengeSteps
    <3>1. tx[h].session \in Sessions
      BY <2>1 DEF Confirm, TypeOK, Request
    <3> QED
      BY <2>1, <3>1 DEF Confirm, ChallengeSteps
  <2> QED
    BY <1>3, <2>1 DEF Enrollment, EnrollStart, EnrollDelete, EnrollLock, EnrollInsert,
      EnrollRefused, ConfirmStart, ConfirmUnavailable, ConfirmFails
<1>4. CASE \/ \E h \in Handlers : Rollback(h)
           \/ \E s \in Sessions : SessionEnds(s)
           \/ \E c \in Challenges : ChallengeExpires(c)
           \/ Tick
  BY <1>4 DEF Rollback, Tick, ChallengeSteps
<1>5. CASE UNCHANGED vars
  BY <1>5 DEF vars
<1> QED
  BY <1>1, <1>2, <1>3, <1>4, <1>5 DEF Next

-----------------------------------------------------------------------------
(***************************************************************************)
(* Types.                                                                  *)
(***************************************************************************)

LEMMA InitTyped == Init => MfaInv
<1> SUFFICES ASSUME Init PROVE MfaInv
  OBVIOUS
<1>1. TypeOK
  BY MfaAssumption DEF Init, TypeOK, Idle, Request, SessionStates, EnrollStates
<1>2. AcceptanceInv /\ UsesTyped
  BY DEF Init, AcceptanceInv, AcceptancesTyped, UsesTyped, FactorAhead, NoTotpReplay,
    LoginOnlyAfterConfirmation
<1>3. AttemptsLeft /\ UnusedSessions /\ ChallengeSpentOnce
  BY MfaAssumption DEF Init, AttemptsLeft, UnusedSessions, ChallengeSpentOnce
<1>4. RecoveryCodesSpent
  BY DEF Init, RecoveryCodesSpent
<1> QED
  BY <1>1, <1>2, <1>3, <1>4 DEF MfaInv, AcceptanceInv

\* The columns of the row, and of the sessions and challenges.
LEMMA SessionTyped ==
  ASSUME TypeOK, NEW s \in Sessions, NEW state \in SessionStates, NEW c \in Challenges \cup {None},
         NewSession(s, state, c)
  PROVE  session' \in [Sessions -> [state : SessionStates, of : Challenges \cup {None}]]
BY DEF TypeOK, NewSession

LEMMA ChallengeTyped ==
  ASSUME TypeOK, NEW c \in Challenges,
         \/ NewChallenge(c)
         \/ Consume(c)
         \/ Usable(c) /\ FailedAttempt(c)
         \/ challenge' = [challenge EXCEPT ![c].state = "expired"]
  PROVE  challenge' \in [Challenges -> [state : {"none", "open", "consumed", "expired"},
                                        attempts : 0..MaxAttempts]]
BY MfaAssumption DEF TypeOK, NewChallenge, Consume, Usable, FailedAttempt

LEMMA AnsweredTyped ==
  ASSUME TypeOK, NEW h \in Handlers, Answered(h)
  PROVE  tx' \in [Handlers -> Request]
BY DEF TypeOK, Answered, Idle, Request

LEMMA SignInTyped ==
  ASSUME TypeOK, SignIn
  PROVE  TypeOK'
<1>1. ASSUME NEW l \in Logins, LoginStart(l) \/ LoginProofFails(l)
      PROVE  TypeOK'
  <2>1. login' \in [Logins -> {"none", "open", "consumed"}]
    BY <1>1 DEF LoginStart, LoginProofFails, TypeOK
  <2>2. UNCHANGED <<clock, challenge, factor, drawn, codes, session, tx>>
    BY <1>1 DEF LoginStart, LoginProofFails
  <2> QED
    BY <2>1, <2>2 DEF TypeOK
<1>2. ASSUME NEW l \in Logins, NEW h \in Handlers, LoginProofHolds(h, l)
      PROVE  TypeOK'
  <2>1. ActiveFactor \in BOOLEAN
    BY DEF ActiveFactor, TypeOK, FactorRow
  <2>2. [phase |-> "login", login |-> l, mfa |-> ActiveFactor] \in Request
    BY <2>1 DEF Request
  <2>3. tx' \in [Handlers -> Request]
    BY <1>2, <2>2 DEF LoginProofHolds, TypeOK
  <2>4. UNCHANGED <<clock, login, challenge, factor, drawn, codes, session>>
    BY <1>2 DEF LoginProofHolds
  <2> QED
    BY <2>3, <2>4 DEF TypeOK
<1>3. ASSUME NEW h \in Handlers, NEW c \in Challenges, LoginNeedsMfa(h, c)
      PROVE  TypeOK'
  <2>1. challenge' \in [Challenges -> [state : {"none", "open", "consumed", "expired"},
                                       attempts : 0..MaxAttempts]]
    <3>1. NewChallenge(c)
      BY <1>3 DEF LoginNeedsMfa
    <3> QED
      BY <3>1, ChallengeTyped
  <2>2. tx' \in [Handlers -> Request]
    BY <1>3, AnsweredTyped DEF LoginNeedsMfa
  <2>3. login' \in [Logins -> {"none", "open", "consumed"}]
    BY <1>3 DEF LoginNeedsMfa, TypeOK
  <2>4. UNCHANGED <<clock, factor, drawn, codes, session>>
    BY <1>3 DEF LoginNeedsMfa
  <2> QED
    BY <2>1, <2>2, <2>3, <2>4 DEF TypeOK
<1>4. ASSUME NEW h \in Handlers, NEW s \in Sessions, LoginNeedsEnrollment(h, s)
      PROVE  TypeOK'
  <2>1. session' \in [Sessions -> [state : SessionStates, of : Challenges \cup {None}]]
    BY <1>4, SessionTyped DEF LoginNeedsEnrollment, SessionStates, EnrollStates
  <2>2. tx' \in [Handlers -> Request]
    BY <1>4, AnsweredTyped DEF LoginNeedsEnrollment
  <2>3. login' \in [Logins -> {"none", "open", "consumed"}]
    BY <1>4 DEF LoginNeedsEnrollment, TypeOK
  <2>4. UNCHANGED <<clock, challenge, factor, drawn, codes>>
    BY <1>4 DEF LoginNeedsEnrollment
  <2> QED
    BY <2>1, <2>2, <2>3, <2>4 DEF TypeOK
<1> QED
  BY <1>1, <1>2, <1>3, <1>4 DEF SignIn

LEMMA SecondFactorTyped ==
  ASSUME TypeOK, SecondFactor
  PROVE  TypeOK'
<1>1. ASSUME NEW c \in Challenges, NEW code \in TotpCodes, NEW now \in Nows, NEW s \in Sessions,
             TotpVerify(c, code, now, s)
      PROVE  TypeOK'
  <2>1. AcceptedStep(factor.id, code, now, factor.last) \in 0..(MaxStep + 1)
    BY <1>1, AcceptedStepIsNew DEF TotpVerify, Nows
  <2>2. factor \in FactorRow /\ factor # None /\ factor.verified
    BY <1>1 DEF TotpVerify, ActiveFactor, TypeOK
  <2>3. factor' \in FactorRow /\ factor'.id = factor.id /\ factor'.verified /\ factor'.last # None
    BY <1>1, <2>1, <2>2, MfaAssumption DEF TotpVerify, FactorRow
  <2>4. session' \in [Sessions -> [state : SessionStates, of : Challenges \cup {None}]]
    BY <1>1, SessionTyped DEF TotpVerify, SessionStates, EnrollStates
  <2>5. challenge' \in [Challenges -> [state : {"none", "open", "consumed", "expired"},
                                       attempts : 0..MaxAttempts]]
    <3>1. Consume(c)
      BY <1>1 DEF TotpVerify
    <3> QED
      BY <3>1, ChallengeTyped
  <2>6. UNCHANGED <<clock, login, drawn, codes, tx>>
    BY <1>1 DEF TotpVerify
  <2> QED
    BY <2>2, <2>3, <2>4, <2>5, <2>6 DEF TypeOK
<1>2. ASSUME NEW c \in Challenges, NEW r \in RecoveryCodes, NEW s \in Sessions,
             RecoveryVerify(c, r, s)
      PROVE  TypeOK'
  <2>1. codes' \in [RecoveryCodes -> [state : {"none", "unused", "used", "deleted"},
                                      of : Factors \cup {None}]]
    BY <1>2 DEF RecoveryVerify, TypeOK
  <2>2. session' \in [Sessions -> [state : SessionStates, of : Challenges \cup {None}]]
    BY <1>2, SessionTyped DEF RecoveryVerify, SessionStates, EnrollStates
  <2>3. challenge' \in [Challenges -> [state : {"none", "open", "consumed", "expired"},
                                       attempts : 0..MaxAttempts]]
    <3>1. Consume(c)
      BY <1>2 DEF RecoveryVerify
    <3> QED
      BY <3>1, ChallengeTyped
  <2>4. UNCHANGED <<clock, login, factor, drawn, tx>>
    BY <1>2 DEF RecoveryVerify
  <2> QED
    BY <2>1, <2>2, <2>3, <2>4 DEF TypeOK
<1>3. ASSUME NEW c \in Challenges, Usable(c), FailedAttempt(c),
             UNCHANGED <<clock, login, factor, drawn, codes, session, tx, history>>
      PROVE  TypeOK'
  BY <1>3, ChallengeTyped DEF TypeOK
<1> QED
  BY <1>1, <1>2, <1>3 DEF SecondFactor, TotpVerifyFails, RecoveryFails

LEMMA EnrollmentTyped ==
  ASSUME TypeOK, Enrollment
  PROVE  TypeOK'
<1>1. ASSUME NEW h \in Handlers, tx' \in [Handlers -> Request],
             UNCHANGED <<clock, login, challenge, factor, drawn, codes, session>>
      PROVE  TypeOK'
  BY <1>1 DEF TypeOK
<1>2. ASSUME NEW h \in Handlers, NEW s \in Sessions, EnrollStart(h, s)
      PROVE  TypeOK'
  <2>1. [phase |-> "delete", session |-> s] \in Request
    BY DEF Request
  <2> QED
    BY <1>1, <1>2, <2>1 DEF EnrollStart, TypeOK
<1>3. ASSUME NEW h \in Handlers, EnrollDelete(h)
      PROVE  TypeOK'
  <2>1. tx[h].session \in Sessions
    BY <1>3 DEF EnrollDelete, TypeOK, Request
  <2>2. (IF factor = None THEN None ELSE factor.id) \in Factors \cup {None}
    BY DEF TypeOK, FactorRow
  <2>3. [phase |-> "lock", session |-> tx[h].session,
         seen |-> IF factor = None THEN None ELSE factor.id] \in Request
    BY <2>1, <2>2 DEF Request
  <2> QED
    BY <1>1, <1>3, <2>3 DEF EnrollDelete, TypeOK
<1>4. ASSUME NEW h \in Handlers, EnrollLock(h)
      PROVE  TypeOK'
  <2> DEFINE mine == factor # None /\ factor.id = tx[h].seen
  <2>1. tx[h].session \in Sessions
    BY <1>4 DEF EnrollLock, TypeOK, Request
  <2>2. (IF mine THEN factor.id ELSE None) \in Factors \cup {None}
    BY DEF TypeOK, FactorRow
  <2>3. [phase |-> "insert", session |-> tx[h].session,
         held |-> IF mine THEN factor.id ELSE None] \in Request
    BY <2>1, <2>2 DEF Request
  <2> QED
    BY <1>1, <1>4, <2>3 DEF EnrollLock, TypeOK
<1>5. ASSUME NEW h \in Handlers, NEW f \in Factors, EnrollInsert(h, f)
      PROVE  TypeOK'
  <2>1. tx' \in [Handlers -> Request]
    BY <1>5, AnsweredTyped DEF EnrollInsert
  <2>2. factor' \in FactorRow /\ factor'.id \in drawn' /\ ~factor'.verified /\ factor'.last = None
    BY <1>5 DEF EnrollInsert, FactorRow
  <2>3. drawn' \subseteq Factors
    BY <1>5 DEF EnrollInsert, TypeOK
  <2>4. UNCHANGED <<clock, login, challenge, codes, session>>
    BY <1>5 DEF EnrollInsert
  <2> QED
    BY <2>1, <2>2, <2>3, <2>4 DEF TypeOK
<1>6. ASSUME NEW h \in Handlers, EnrollRefused(h) \/ ConfirmUnavailable(h)
      PROVE  TypeOK'
  BY <1>1, <1>6, AnsweredTyped DEF EnrollRefused, ConfirmUnavailable
<1>7. ASSUME NEW h \in Handlers, NEW s \in Sessions, NEW f \in Factors, ConfirmStart(h, s, f)
      PROVE  TypeOK'
  <2>1. [phase |-> "confirm", session |-> s, factor |-> f] \in Request
    BY DEF Request
  <2> QED
    BY <1>1, <1>7, <2>1 DEF ConfirmStart, TypeOK
<1>8. ASSUME NEW h \in Handlers, NEW code, NEW now, ConfirmFails(h, code, now)
      PROVE  TypeOK'
  <2>1. tx' \in [Handlers -> Request]
    BY <1>8, AnsweredTyped DEF ConfirmFails
  <2>2. factor' = None /\ UNCHANGED <<clock, login, challenge, drawn, codes, session>>
    BY <1>8 DEF ConfirmFails
  <2> QED
    BY <2>1, <2>2 DEF TypeOK
<1>9. ASSUME NEW h \in Handlers, NEW code \in TotpCodes, NEW now \in Nows,
             NEW new \in SUBSET RecoveryCodes, Confirm(h, code, now, new)
      PROVE  TypeOK'
  <2> DEFINE f    == tx[h].factor
             step == AcceptedStep(f, code, now, factor.last)
  <2>1. tx' \in [Handlers -> Request]
    BY <1>9, AnsweredTyped DEF Confirm
  <2>2. step \in 0..(MaxStep + 1)
    BY <1>9, AcceptedStepIsNew DEF Confirm, Nows
  <2>3. factor \in FactorRow /\ factor # None
    BY <1>9 DEF Confirm, PendingFactor, TypeOK
  <2>4. /\ factor' = Activated(step)
        /\ codes' = Reissued(new, f)
        /\ session' = Upgraded(tx[h].session)
        /\ UNCHANGED <<clock, login, challenge, drawn>>
    BY <1>9 DEF Confirm
  <2> HIDE DEF step
  <2>5. factor' \in FactorRow /\ factor'.id = factor.id /\ factor'.verified /\ factor'.last # None
    <3>1. factor = [id |-> factor.id, verified |-> factor.verified, last |-> factor.last]
      BY <2>3 DEF FactorRow
    <3>2. factor' = [id |-> factor.id, verified |-> TRUE, last |-> step]
      BY <2>4, <3>1 DEF Activated
    <3>3. factor.id \in Factors /\ step # None
      BY <2>2, <2>3, MfaAssumption DEF FactorRow
    <3> QED
      BY <2>2, <3>2, <3>3 DEF FactorRow
  <2>6. f \in Factors /\ tx[h].session \in Sessions
    BY <1>9 DEF Confirm, TypeOK, Request
  <2>7. codes' \in [RecoveryCodes -> [state : {"none", "unused", "used", "deleted"},
                                      of : Factors \cup {None}]]
    BY <2>4, <2>6 DEF Reissued, TypeOK
  <2>8. session' \in [Sessions -> [state : SessionStates, of : Challenges \cup {None}]]
    BY <2>4, <2>6 DEF Upgraded, TypeOK, SessionStates
  <2> QED
    BY <2>1, <2>3, <2>4, <2>5, <2>7, <2>8 DEF TypeOK
<1> QED
  BY <1>2, <1>3, <1>4, <1>5, <1>6, <1>7, <1>8, <1>9 DEF Enrollment

LEMMA TypeStep ==
  ASSUME TypeOK, [Next]_vars
  PROVE  TypeOK'
<1>1. ASSUME NEW h \in Handlers, Rollback(h)
      PROVE  TypeOK'
  BY <1>1, AnsweredTyped DEF Rollback, TypeOK
<1>2. ASSUME NEW s \in Sessions, SessionEnds(s)
      PROVE  TypeOK'
  <2>1. session' \in [Sessions -> [state : SessionStates, of : Challenges \cup {None}]]
    BY <1>2 DEF SessionEnds, TypeOK, SessionStates
  <2> QED
    BY <1>2, <2>1 DEF SessionEnds, TypeOK
<1>3. ASSUME NEW c \in Challenges, ChallengeExpires(c)
      PROVE  TypeOK'
  BY <1>3, ChallengeTyped DEF ChallengeExpires, TypeOK
<1>4. CASE Tick
  BY <1>4, MfaAssumption DEF Tick, TypeOK
<1>5. CASE UNCHANGED vars
  BY <1>5 DEF vars, TypeOK
<1> QED
  BY <1>1, <1>2, <1>3, <1>4, <1>5, SignInTyped, SecondFactorTyped, EnrollmentTyped DEF Next

-----------------------------------------------------------------------------
(***************************************************************************)
(* Accepted TOTP steps.                                                    *)
(***************************************************************************)

\* A step is accepted under the row's lock, later than every earlier one.
AcceptsLater(step, by) ==
  /\ factor # None
  /\ step \in Nat
  /\ factor.last # None => step > factor.last
  /\ factor'.id = factor.id /\ factor'.last = step /\ factor'.last # None
  /\ acceptances' = acceptances \cup {[factor |-> factor.id, step |-> step, by |-> by]}
  /\ UNCHANGED drawn

LEMMA LaterIsNew ==
  ASSUME TypeOK, AcceptanceInv, NEW step, NEW by \in Sessions \cup Challenges,
         AcceptsLater(step, by)
  PROVE  /\ acceptances' \subseteq [factor : drawn', step : Nat, by : Sessions \cup Challenges]
         /\ \A a \in acceptances' : a.factor = factor'.id => a.step <= factor'.last
         /\ \A a \in acceptances : a.factor = factor.id => a.step < step
         /\ NoTotpReplay'
<1> USE DEF AcceptanceInv
<1>1. factor.id \in drawn
  BY DEF AcceptsLater, TypeOK
<1>2. acceptances' \subseteq [factor : drawn', step : Nat, by : Sessions \cup Challenges]
  BY <1>1 DEF AcceptsLater, AcceptancesTyped
<1>3. \A a \in acceptances : a.factor = factor.id => a.step < step
  <2> SUFFICES ASSUME NEW a \in acceptances, a.factor = factor.id
               PROVE  a.step < step
    OBVIOUS
  <2>1. factor.last # None /\ a.step <= factor.last /\ a.step \in Nat
    BY DEF FactorAhead, AcceptsLater, AcceptancesTyped
  <2>2. factor.last \in Nat
    BY <2>1, MfaAssumption DEF TypeOK, FactorRow, AcceptsLater
  <2> QED
    BY <2>1, <2>2 DEF AcceptsLater
<1>4. \A a \in acceptances' : a.factor = factor'.id => a.step <= factor'.last
  BY <1>3 DEF AcceptsLater, AcceptancesTyped
<1>5. NoTotpReplay'
  BY <1>3 DEF AcceptsLater, AcceptancesTyped, NoTotpReplay
<1> QED
  BY <1>2, <1>3, <1>4, <1>5

LEMMA VerifyAccepts ==
  ASSUME TypeOK, AcceptanceInv, NEW c \in Challenges, NEW code \in TotpCodes, NEW now \in Nows,
         NEW s \in Sessions, TotpVerify(c, code, now, s)
  PROVE  AcceptanceInv'
<1> USE DEF AcceptanceInv
<1>1. PICK step \in 0..(MaxStep + 1) :
        /\ step = AcceptedStep(factor.id, code, now, factor.last)
        /\ factor.last # None => step > factor.last
  BY AcceptedStepIsNew DEF TotpVerify, Nows
<1>2. /\ factor # None /\ factor \in FactorRow /\ factor.verified /\ factor.last # None
      /\ factor.last \in Nat
  BY MfaAssumption DEF TotpVerify, ActiveFactor, TypeOK, FactorRow
<1>3. /\ factor' = [factor EXCEPT !.last = step]
      /\ acceptances' = acceptances \cup {[factor |-> factor.id, step |-> step, by |-> c]}
      /\ UNCHANGED <<drawn, uses>>
  BY <1>1 DEF TotpVerify
<1>4. factor'.id = factor.id /\ factor'.last = step
  BY <1>2, <1>3 DEF FactorRow
<1>5. AcceptsLater(step, c)
  BY <1>1, <1>2, <1>3, <1>4, MfaAssumption DEF AcceptsLater
<1>6. PICK e \in acceptances :
        e.factor = factor.id /\ e.by \in Sessions /\ e.step <= factor.last
  BY <1>2 DEF FactorAhead
<1>7. e.step < step /\ e \in acceptances' /\ e.step <= step
  BY <1>3, <1>5, <1>6, LaterIsNew DEF AcceptancesTyped
<1>8. AcceptancesTyped' /\ NoTotpReplay'
  BY <1>3, <1>5, LaterIsNew DEF AcceptancesTyped
<1>9. FactorAhead'
  BY <1>4, <1>5, <1>6, <1>7, LaterIsNew DEF FactorAhead, AcceptsLater
<1>10. LoginOnlyAfterConfirmation'
  BY <1>3, <1>6, <1>7 DEF LoginOnlyAfterConfirmation
<1> QED
  BY <1>8, <1>9, <1>10

LEMMA ConfirmAccepts ==
  ASSUME TypeOK, AcceptanceInv, NEW h \in Handlers, NEW code \in TotpCodes, NEW now \in Nows,
         NEW new \in SUBSET RecoveryCodes, Confirm(h, code, now, new)
  PROVE  AcceptanceInv'
<1> USE DEF AcceptanceInv
<1>1. PICK s \in Sessions : s = tx[h].session
  BY DEF Confirm, TypeOK, Request
<1>2. PICK step \in 0..(MaxStep + 1) :
        /\ step = AcceptedStep(tx[h].factor, code, now, factor.last)
        /\ factor.last # None => step > factor.last
  BY AcceptedStepIsNew DEF Confirm, Nows
<1>3. factor # None /\ factor \in FactorRow /\ factor.id = tx[h].factor
  BY DEF Confirm, PendingFactor, TypeOK
<1>4. /\ factor' = Activated(step)
      /\ acceptances' = acceptances \cup {[factor |-> factor.id, step |-> step, by |-> s]}
      /\ UNCHANGED <<drawn, uses>>
  BY <1>1, <1>2, <1>3 DEF Confirm
<1>5. factor'.id = factor.id /\ factor'.last = step
  BY <1>3, <1>4 DEF Activated, FactorRow
<1>6. AcceptsLater(step, s)
  BY <1>2, <1>3, <1>4, <1>5, MfaAssumption DEF AcceptsLater
<1>7. PICK e \in acceptances' : e = [factor |-> factor.id, step |-> step, by |-> s]
  BY <1>4
<1>8. AcceptancesTyped' /\ NoTotpReplay'
  BY <1>4, <1>6, LaterIsNew DEF AcceptancesTyped
<1>9. FactorAhead'
  BY <1>5, <1>6, <1>7, LaterIsNew DEF FactorAhead, AcceptsLater
<1>10. LoginOnlyAfterConfirmation'
  BY <1>4, MfaAssumption DEF LoginOnlyAfterConfirmation
<1> QED
  BY <1>8, <1>9, <1>10

LEMMA AcceptanceStep ==
  ASSUME TypeOK, AcceptanceInv, [Next]_vars
  PROVE  AcceptanceInv'
<1> USE DEF AcceptanceInv
<1>1. ASSUME NEW h \in Handlers, NEW f \in Factors, EnrollInsert(h, f)
      PROVE  AcceptanceInv'
  <2>1. /\ f \notin drawn /\ drawn' = drawn \cup {f} /\ UNCHANGED acceptances
        /\ factor'.id = f /\ factor'.verified = FALSE
    BY <1>1 DEF EnrollInsert
  <2>2. FactorAhead'
    BY <2>1 DEF AcceptancesTyped, FactorAhead
  <2> QED
    BY <1>1, <2>1, <2>2 DEF EnrollInsert, AcceptancesTyped, NoTotpReplay, LoginOnlyAfterConfirmation
<1>2. ASSUME NEW h \in Handlers, NEW code, NEW now, ConfirmFails(h, code, now)
      PROVE  AcceptanceInv'
  BY <1>2 DEF ConfirmFails, history, AcceptancesTyped, FactorAhead, NoTotpReplay,
    LoginOnlyAfterConfirmation
<1>3. CASE UNCHANGED <<factor, drawn, acceptances>>
  BY <1>3 DEF AcceptancesTyped, FactorAhead, NoTotpReplay, LoginOnlyAfterConfirmation
<1> QED
  BY <1>1, <1>2, <1>3, VerifyAccepts, ConfirmAccepts, OnlyFactorSteps DEF FactorSteps

-----------------------------------------------------------------------------
(***************************************************************************)
(* Recovery codes.                                                         *)
(***************************************************************************)

LEMMA CodesStep ==
  ASSUME TypeOK, UsesTyped, RecoveryCodesSpent, [Next]_vars
  PROVE  UsesTyped' /\ RecoveryCodesSpent'
<1>1. ASSUME NEW c \in Challenges, NEW r \in RecoveryCodes, NEW s \in Sessions,
             RecoveryVerify(c, r, s)
      PROVE  UsesTyped' /\ RecoveryCodesSpent'
  <2>1. /\ codes[r].state = "unused"
        /\ codes' = [codes EXCEPT ![r].state = "used"]
        /\ uses' = uses \cup {[code |-> r, by |-> c]}
    BY <1>1 DEF RecoveryVerify, Match
  <2>2. \A q \in RecoveryCodes :
          /\ codes'[q].of = codes[q].of
          /\ codes'[q].state = IF q = r THEN "used" ELSE codes[q].state
    BY <2>1 DEF TypeOK
  <2>3. UsesTyped'
    BY <2>1 DEF UsesTyped
  <2>4. \A u \in uses : u.code # r
    BY <2>1 DEF RecoveryCodesSpent
  <2>5. (\A u, v \in uses : u.code = v.code => u = v)'
    BY <2>1, <2>4 DEF RecoveryCodesSpent
  <2>6. (\A u \in uses : codes[u.code].state \in {"used", "deleted"})'
    BY <2>1, <2>2, <2>3 DEF RecoveryCodesSpent, UsesTyped
  <2>7. (\A p, q \in RecoveryCodes :
           codes[p].state = "unused" /\ codes[q].state \in {"unused", "used"}
             => codes[p].of = codes[q].of)'
    <3> SUFFICES ASSUME NEW p \in RecoveryCodes, NEW q \in RecoveryCodes,
                        codes'[p].state = "unused", codes'[q].state \in {"unused", "used"}
                 PROVE  codes'[p].of = codes'[q].of
      OBVIOUS
    <3>1. codes[p].state = "unused" /\ codes[q].state \in {"unused", "used"}
      BY <2>1, <2>2
    <3> QED
      BY <2>2, <3>1 DEF RecoveryCodesSpent
  <2> QED
    BY <2>3, <2>5, <2>6, <2>7 DEF RecoveryCodesSpent
<1>2. ASSUME NEW h \in Handlers, NEW code, NEW now, NEW new \in SUBSET RecoveryCodes,
             Confirm(h, code, now, new)
      PROVE  UsesTyped' /\ RecoveryCodesSpent'
  <2>1. PICK f : f = tx[h].factor
    OBVIOUS
  <2>2. codes' = Reissued(new, f) /\ uses' = uses /\ \A r \in new : codes[r].state = "none"
    BY <1>2, <2>1 DEF Confirm, Generated
  <2>3. \A q \in RecoveryCodes :
          /\ q \in new => codes'[q].state = "unused" /\ codes'[q].of = f
          /\ q \notin new => codes'[q].state \in {"none", "deleted"}
          /\ q \notin new /\ codes[q].state # "none" => codes'[q].state = "deleted"
    BY <2>2 DEF Reissued
  <2>4. UsesTyped'
    BY <2>2 DEF UsesTyped
  <2>5. (\A u \in uses : codes[u.code].state \in {"used", "deleted"})'
    <3> SUFFICES ASSUME NEW u \in uses PROVE codes'[u.code].state \in {"used", "deleted"}
      BY <2>2
    <3>1. u.code \in RecoveryCodes /\ codes[u.code].state \in {"used", "deleted"}
      BY DEF UsesTyped, RecoveryCodesSpent
    <3> QED
      BY <2>2, <2>3, <3>1
  <2> QED
    BY <2>2, <2>3, <2>4, <2>5 DEF RecoveryCodesSpent
<1>3. CASE UNCHANGED <<codes, uses>>
  BY <1>3 DEF UsesTyped, RecoveryCodesSpent
<1> QED
  BY <1>1, <1>2, <1>3, OnlyCodeSteps DEF CodeSteps

-----------------------------------------------------------------------------
(***************************************************************************)
(* Challenges.                                                             *)
(***************************************************************************)

LEMMA ChallengesStep ==
  ASSUME TypeOK, AttemptsLeft, UnusedSessions, ChallengeSpentOnce, [Next]_vars
  PROVE  AttemptsLeft' /\ UnusedSessions' /\ ChallengeSpentOnce'
<1>1. ASSUME NEW c \in Challenges, NewChallenge(c), UNCHANGED session
      PROVE  AttemptsLeft' /\ UnusedSessions' /\ ChallengeSpentOnce'
  <2>1. \A d \in Challenges :
          /\ challenge'[d].attempts = challenge[d].attempts
          /\ challenge'[d].state = IF d = c THEN "open" ELSE challenge[d].state
    BY <1>1 DEF NewChallenge, TypeOK
  <2>2. challenge[c].state = "none"
    BY <1>1 DEF NewChallenge
  <2>3. AttemptsLeft'
    BY <2>1, <2>2 DEF AttemptsLeft
  <2>4. \A s \in Sessions : session[s].of # None => session[s].of \in Challenges
    BY DEF TypeOK
  <2>5. ChallengeSpentOnce'
    BY <1>1, <2>1, <2>2, <2>3, <2>4 DEF ChallengeSpentOnce, AttemptsLeft
  <2> QED
    BY <1>1, <2>3, <2>5 DEF UnusedSessions
<1>2. ASSUME NEW c \in Challenges, NEW s \in Sessions,
             NEW state \in {"mfa_verified", "mfa_recovery"}, Signed(c, s, state)
      PROVE  AttemptsLeft' /\ UnusedSessions' /\ ChallengeSpentOnce'
  <2>1. \A d \in Challenges :
          /\ challenge'[d].attempts = challenge[d].attempts
          /\ challenge'[d].state = IF d = c THEN "consumed" ELSE challenge[d].state
    BY <1>2 DEF Signed, Consume, TypeOK
  <2>2. \A t \in Sessions :
          session'[t] = IF t = s THEN [state |-> state, of |-> c] ELSE session[t]
    BY <1>2 DEF Signed, NewSession, TypeOK
  <2>3. challenge[c].state = "open"
    BY <1>2 DEF Signed, Usable
  <2>4. \A t \in Sessions : session[t].of # None =>
          session[t].of \in Challenges /\ session[t].of # c
    BY <2>3 DEF TypeOK, ChallengeSpentOnce
  <2>5. AttemptsLeft'
    BY <2>1 DEF AttemptsLeft
  <2>6. UnusedSessions'
    BY <2>2 DEF UnusedSessions
  <2>7. (\A t, u \in Sessions : session[t].of # None /\ session[t].of = session[u].of => t = u)'
    BY <2>2, <2>4 DEF ChallengeSpentOnce
  <2>8. (\A t \in Sessions : session[t].of # None => challenge[session[t].of].state = "consumed")'
    BY <2>1, <2>2, <2>4 DEF ChallengeSpentOnce
  <2> QED
    BY <2>5, <2>6, <2>7, <2>8 DEF ChallengeSpentOnce, AttemptsLeft
<1>3. ASSUME NEW c \in Challenges, Usable(c), FailedAttempt(c), UNCHANGED session
      PROVE  AttemptsLeft' /\ UnusedSessions' /\ ChallengeSpentOnce'
  <2>1. challenge[c].attempts \in Nat /\ MaxAttempts \in Nat
    BY MfaAssumption DEF TypeOK
  <2>2. \A d \in Challenges \ {c} : challenge'[d] = challenge[d]
    BY <1>3 DEF FailedAttempt, TypeOK
  <2>3. challenge'[c].state = "open" => challenge'[c].attempts < MaxAttempts
    BY <1>3, <2>1 DEF FailedAttempt, TypeOK
  <2>4. challenge'[c].state # "none" /\ challenge[c].state = "open"
    BY <1>3 DEF FailedAttempt, TypeOK, Usable
  <2>5. AttemptsLeft'
    BY <2>2, <2>3, <2>4 DEF AttemptsLeft
  <2>6. \A s \in Sessions : session[s].of # None =>
          session[s].of \in Challenges /\ session[s].of # c
    BY <2>4 DEF TypeOK, ChallengeSpentOnce
  <2>7. ChallengeSpentOnce'
    BY <1>3, <2>2, <2>5, <2>6 DEF ChallengeSpentOnce, AttemptsLeft
  <2> QED
    BY <1>3, <2>5, <2>7 DEF UnusedSessions
<1>4. ASSUME NEW c \in Challenges, ChallengeExpires(c)
      PROVE  AttemptsLeft' /\ UnusedSessions' /\ ChallengeSpentOnce'
  <2>1. challenge[c].state = "open" /\ UNCHANGED session
    BY <1>4 DEF ChallengeExpires
  <2>2. \A d \in Challenges :
          /\ challenge'[d].attempts = challenge[d].attempts
          /\ challenge'[d].state = IF d = c THEN "expired" ELSE challenge[d].state
    BY <1>4 DEF ChallengeExpires, TypeOK
  <2>3. AttemptsLeft'
    BY <2>2 DEF AttemptsLeft
  <2>4. \A s \in Sessions : session[s].of # None =>
          session[s].of \in Challenges /\ session[s].of # c
    BY <2>1 DEF TypeOK, ChallengeSpentOnce
  <2>5. ChallengeSpentOnce'
    BY <2>1, <2>2, <2>3, <2>4 DEF ChallengeSpentOnce, AttemptsLeft
  <2> QED
    BY <2>1, <2>3, <2>5 DEF UnusedSessions
<1>5. ASSUME UNCHANGED challenge,
             \A s \in Sessions : /\ session'[s].of = session[s].of
                                 /\ session'[s].state = "none" => session[s].state = "none"
      PROVE  AttemptsLeft' /\ UnusedSessions' /\ ChallengeSpentOnce'
  BY <1>5 DEF AttemptsLeft, UnusedSessions, ChallengeSpentOnce
<1>6. ASSUME NEW s \in Sessions, NewSession(s, "mfa_enrollment_required", None), UNCHANGED challenge
      PROVE  AttemptsLeft' /\ UnusedSessions' /\ ChallengeSpentOnce'
  <2>1. session[s].of = None
    BY <1>6 DEF NewSession, UnusedSessions
  <2> QED
    BY <1>5, <1>6, <2>1 DEF NewSession, TypeOK
<1>7. ASSUME NEW s \in Sessions, session' = Upgraded(s), UNCHANGED challenge
      PROVE  AttemptsLeft' /\ UnusedSessions' /\ ChallengeSpentOnce'
  BY <1>5, <1>7 DEF Upgraded, TypeOK
<1>8. ASSUME NEW s \in Sessions, SessionEnds(s)
      PROVE  AttemptsLeft' /\ UnusedSessions' /\ ChallengeSpentOnce'
  BY <1>5, <1>8 DEF SessionEnds, TypeOK
<1>9. CASE UNCHANGED <<challenge, session>>
  BY <1>5, <1>9
<1> QED
  BY <1>1, <1>2, <1>3, <1>4, <1>6, <1>7, <1>8, <1>9, OnlyChallengeSteps DEF ChallengeSteps

-----------------------------------------------------------------------------
LEMMA MfaStep ==
  ASSUME MfaInv, [Next]_vars
  PROVE  MfaInv'
<1> USE DEF MfaInv
<1>1. TypeOK'
  BY TypeStep
<1>2. UsesTyped' /\ RecoveryCodesSpent'
  BY CodesStep
<1>3. AcceptanceInv'
  BY AcceptanceStep
<1>4. AttemptsLeft' /\ UnusedSessions' /\ ChallengeSpentOnce'
  BY ChallengesStep
<1> QED
  BY <1>1, <1>2, <1>3, <1>4

LEMMA MfaInvariant == Spec => []MfaInv
BY InitTyped, MfaStep, PTL DEF Spec

(* The rows of the account and the requests under way have the columns and
   values the schema gives them; a factor is verified exactly when a step of
   it has been accepted.                                                    *)
THEOREM TypeCorrect == Spec => []TypeOK
BY MfaInvariant, PTL DEF MfaInv

(* totp_verify and totp_enroll_confirm accept a time step of a factor once,
   for any number of requests whose clocks lag by any amount.               *)
THEOREM ReplaySafe == Spec => []NoTotpReplay
BY MfaInvariant, PTL DEF MfaInv, AcceptanceInv

(* A pre_mfa challenge gives one session and takes MaxAttempts wrong codes
   at most, TOTP and recovery codes counted together.                       *)
THEOREM ChallengesSafe == Spec => []ChallengeSpentOnce
BY MfaInvariant, PTL DEF MfaInv

(* recovery_code_verify accepts a code once, and a confirmed enrollment
   leaves only its own codes valid.                                         *)
THEOREM RecoverySafe == Spec => []RecoveryCodesSpent
BY MfaInvariant, PTL DEF MfaInv

(* totp_verify accepts only a factor that totp_enroll_confirm has verified,
   at a later time step than that confirmation.                             *)
THEOREM ConfirmedFirst == Spec => []LoginOnlyAfterConfirmation
BY MfaInvariant, PTL DEF MfaInv, AcceptanceInv

=============================================================================
