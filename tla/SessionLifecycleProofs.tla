----------------------- MODULE SessionLifecycleProofs -----------------------
(***************************************************************************)
(* Proofs about SessionLifecycle, for any number of requests and CSRF      *)
(* tokens and any lifetimes.                                               *)
(***************************************************************************)
EXTENDS SessionLifecycle, SequenceTheorems, TLAPS

(***************************************************************************)
(* The inductive invariant.  Every date in the row and in a request that   *)
(* has loaded it goes back to the one creation of the session, and the     *)
(* clocks of requests and refreshes trail the real one by what a request   *)
(* may take.                                                               *)
(***************************************************************************)

\* The limits of the row, revoked or not.
RowInLimits ==
  row # None =>
    /\ row.absolute = born + AbsoluteTtl
    /\ row.idle <= Earlier(lastSeen + IdleTtl, born + AbsoluteTtl)
    /\ row.idle >= Earlier(lastSeen + IdleTtl - MaxLag, row.absolute)

\* The limits of the requests that were let in.
RequestsInLimits ==
  \A q \in Requests : req[q].phase = "act" =>
    /\ born \in Times
    /\ req[q].absolute = born + AbsoluteTtl
    /\ req[q].now < born + AbsoluteTtl
    /\ req[q].now < req[q].seen + IdleTtl

ClocksTrail ==
  /\ lastSeen # None => lastSeen <= clock
  /\ \A q \in Requests : req[q].phase \in {"load", "act"} =>
       req[q].now <= clock /\ clock <= req[q].now + MaxLag

SessionInv == TypeOK /\ RowInLimits /\ RequestsInLimits /\ ClocksTrail

LEMMA InvInit == Init => SessionInv
  BY SessionAssumption
     DEF Init, SessionInv, TypeOK, Times, Request, Idle, RowInLimits, RequestsInLimits, ClocksTrail

-----------------------------------------------------------------------------
LEMMA EarlierLater ==
  ASSUME NEW s \in Int, NEW t \in Int
  PROVE  /\ Earlier(s, t) \in {s, t} /\ Earlier(s, t) <= s /\ Earlier(s, t) <= t
         /\ Later(s, t) \in {s, t} /\ s <= Later(s, t) /\ t <= Later(s, t)
  BY DEF Earlier, Later

(* What a request that has loaded the session holds. *)
LEMMA ActFields ==
  ASSUME TypeOK, NEW q \in Requests, req[q].phase = "act"
  PROVE  req[q] \in [phase : {"act"}, now : Times, token : {1, 2},
                     csrf : CsrfTokens \cup {None},
                     todo : Seq(Statements) \ {<<>>}, absolute : Nat, seen : Times]
  BY DEF TypeOK, Request, Idle

LEMMA LoadFields ==
  ASSUME TypeOK, NEW q \in Requests, req[q].phase = "load"
  PROVE  req[q] \in [phase : {"load"}, endpoint : Endpoints, now : Times, token : {1, 2},
                     csrf : CsrfTokens \cup {None}]
  BY DEF TypeOK, Request, Idle

(* The statements of an endpoint are never none at all. *)
LEMMA StepsNotEmpty ==
  ASSUME NEW endpoint \in Endpoints
  PROVE  Steps[endpoint] \in Seq(Statements) \ {<<>>}
<1> DEFINE all == {<<"refresh">>, <<"refresh", "set_csrf">>, <<"check_csrf", "delete">>,
                   <<"check_csrf", "refresh">>, <<"check_csrf", "upgrade">>,
                   <<"refresh", "check_csrf">>}
<1>1. Steps[endpoint] \in all
  BY DEF Endpoints, Steps
<1>2. all \subseteq Seq(Statements)
  BY DEF Statements
<1>3. <<>> \notin all
  OBVIOUS
<1> QED
  BY <1>1, <1>2, <1>3

LEMMA TailNotEmpty ==
  ASSUME NEW S, NEW s \in Seq(S), s # <<>>, Len(s) # 1
  PROVE  Tail(s) \in Seq(S) \ {<<>>}
<1>1. Tail(s) \in Seq(S) /\ Len(Tail(s)) = Len(s) - 1
  BY HeadTailProperties, Zenon
<1>2. Len(s) \in Nat \ {0}
  BY EmptySeq, Zenon
<1>3. Len(Tail(s)) # 0
  BY <1>1, <1>2
<1>4. Tail(s) # <<>>
  BY <1>3, EmptySeq, Zenon
<1> QED
  BY <1>1, <1>4

(* After a statement a request is answered, or goes on with what it holds. *)
LEMMA ProceedKeeps ==
  ASSUME TypeOK, NEW q \in Requests, req[q].phase = "act", Proceed(q)
  PROVE  \E r \in Request :
           /\ req' = [req EXCEPT ![q] = r]
           /\ r.phase \in {"idle", "act"}
           /\ r.phase = "act" => /\ r.now = req[q].now /\ r.absolute = req[q].absolute
                                 /\ r.seen = req[q].seen
<1> DEFINE todo == req[q].todo
           next == IF Len(todo) = 1 THEN Idle ELSE [req[q] EXCEPT !.todo = Tail(todo)]
<1>1. req' = [req EXCEPT ![q] = next]
  BY DEF Proceed, TypeOK
<1>2. CASE Len(todo) = 1
  <2>1. Idle \in Request /\ Idle.phase = "idle"
    BY DEF Idle, Request
  <2>2. next = Idle
    BY <1>2
  <2> QED
    BY <1>1, <2>1, <2>2
<1>3. CASE Len(todo) # 1
  <2>1. Tail(todo) \in Seq(Statements) \ {<<>>}
    BY <1>3, ActFields, TailNotEmpty
  <2>2. next = [req[q] EXCEPT !.todo = Tail(todo)]
    BY <1>3
  <2>3. /\ next \in Request /\ next.phase = "act" /\ next.now = req[q].now
        /\ next.absolute = req[q].absolute /\ next.seen = req[q].seen
    BY <2>1, <2>2, ActFields DEF Request
  <2> QED
    BY <1>1, <2>3
<1> QED
  BY <1>2, <1>3

(* A step that changes one request, and only lets it hold what is in order,
   keeps what the invariant says of requests. *)
LEMMA RequestMoves ==
  ASSUME SessionInv, NEW q \in Requests, NEW r \in Request,
         req' = [req EXCEPT ![q] = r], UNCHANGED <<clock, born>>,
         r.phase = "act" =>
           /\ born \in Times /\ r.absolute = born + AbsoluteTtl
           /\ r.now < born + AbsoluteTtl /\ r.now < r.seen + IdleTtl,
         r.phase \in {"load", "act"} => r.now <= clock /\ clock <= r.now + MaxLag
  PROVE  /\ req' \in [Requests -> Request]
         /\ RequestsInLimits'
         /\ \A p \in Requests : req'[p].phase \in {"load", "act"} =>
              req'[p].now <= clock' /\ clock' <= req'[p].now + MaxLag
<1>1. req' \in [Requests -> Request]
      /\ \A p \in Requests : req'[p] = IF p = q THEN r ELSE req[p]
  BY DEF SessionInv, TypeOK
<1> QED
  BY <1>1 DEF SessionInv, RequestsInLimits, ClocksTrail

(* So does a request that has finished a statement. *)
LEMMA ProceedInLimits ==
  ASSUME SessionInv, NEW q \in Requests, req[q].phase = "act", Proceed(q),
         UNCHANGED <<clock, born>>
  PROVE  /\ req' \in [Requests -> Request]
         /\ RequestsInLimits'
         /\ \A p \in Requests : req'[p].phase \in {"load", "act"} =>
              req'[p].now <= clock' /\ clock' <= req'[p].now + MaxLag
<1>1. PICK r \in Request :
        /\ req' = [req EXCEPT ![q] = r]
        /\ r.phase \in {"idle", "act"}
        /\ r.phase = "act" => /\ r.now = req[q].now /\ r.absolute = req[q].absolute
                              /\ r.seen = req[q].seen
  BY ProceedKeeps DEF SessionInv
<1> QED
  BY <1>1, RequestMoves DEF SessionInv, RequestsInLimits, ClocksTrail

(* An answer ends the request, whatever else it was to do. *)
LEMMA AnswerInLimits ==
  ASSUME SessionInv, NEW q \in Requests, Answer(q), UNCHANGED <<clock, born>>
  PROVE  /\ req' \in [Requests -> Request]
         /\ RequestsInLimits'
         /\ \A p \in Requests : req'[p].phase \in {"load", "act"} =>
              req'[p].now <= clock' /\ clock' <= req'[p].now + MaxLag
  BY RequestMoves DEF Answer, Idle, Request

(* A refresh with the clock of the request that loaded the row. *)
LEMMA ExtendedInLimits ==
  ASSUME SessionInv, NEW q \in Requests, req[q].phase = "act", row # None
  PROVE  LET idle == Extended(req[q].now, req[q].absolute)
             seen == Later(lastSeen, req[q].now)
         IN /\ idle \in Nat /\ seen \in Times /\ seen <= clock
            /\ idle <= Earlier(seen + IdleTtl, born + AbsoluteTtl)
            /\ idle >= Earlier(seen + IdleTtl - MaxLag, row.absolute)
            /\ idle <= row.absolute
<1>1. /\ req[q].now \in Times /\ req[q].absolute \in Nat
      /\ born \in Times /\ lastSeen \in Times /\ clock \in Times
  BY ActFields DEF SessionInv, TypeOK
<1>2. /\ req[q].absolute = born + AbsoluteTtl /\ row.absolute = born + AbsoluteTtl
      /\ req[q].now <= clock /\ clock <= req[q].now + MaxLag /\ lastSeen <= clock
  BY <1>1, SessionAssumption DEF SessionInv, RowInLimits, RequestsInLimits, ClocksTrail, Times
<1> QED
  BY <1>1, <1>2, SessionAssumption DEF Extended, Earlier, Later, Times

-----------------------------------------------------------------------------
(* Every step keeps the invariant: one step of the proof per action. *)
LEMMA InvStep == SessionInv /\ [Next]_vars => SessionInv'
<1> SUFFICES ASSUME SessionInv, [Next]_vars PROVE SessionInv'
  OBVIOUS
<1> USE SessionAssumption
<1>1. ASSUME NEW state \in States, Create(state) PROVE SessionInv'
  <2>1. born = None /\ clock \in Nat
    BY <1>1 DEF Create, SessionInv, TypeOK, Times
  <2>2. \A q \in Requests : req[q].phase # "act"
    BY <2>1 DEF SessionInv, RequestsInLimits, Times
  <2>3. /\ row' \in Row /\ row'.idle = clock + IdleTtl
        /\ row'.absolute = clock + AbsoluteTtl
    BY <1>1, <2>1 DEF Create, Row
  <2>4. born' = clock /\ lastSeen' = clock /\ UNCHANGED <<clock, req, issued>>
    BY <1>1 DEF Create
  <2>5. TypeOK'
    BY <2>1, <2>3, <2>4 DEF SessionInv, TypeOK
  <2>6. RowInLimits'
    BY <2>1, <2>3, <2>4 DEF RowInLimits, Earlier
  <2>7. RequestsInLimits' /\ ClocksTrail'
    BY <2>1, <2>2, <2>4 DEF RequestsInLimits, ClocksTrail, SessionInv
  <2> QED
    BY <2>5, <2>6, <2>7 DEF SessionInv
<1>2. ASSUME NEW q \in Requests, NEW endpoint \in Endpoints, NEW token \in Cookies,
             NEW csrf \in Sends(endpoint), Arrive(q, endpoint, token, csrf)
      PROVE  SessionInv'
  <2> DEFINE r == [phase |-> "load", endpoint |-> endpoint, now |-> clock,
                   token |-> token, csrf |-> csrf]
  <2>1. token \in {1, 2} /\ csrf \in CsrfTokens \cup {None} /\ clock \in Times
    BY DEF Cookies, Sends, SessionInv, TypeOK, Row
  <2>2. r \in Request
    BY <2>1 DEF Request
  <2>3. clock <= clock + MaxLag
    BY <2>1 DEF Times
  <2>4. req' = [req EXCEPT ![q] = r] /\ UNCHANGED <<clock, row, born, lastSeen, issued>>
    BY <1>2 DEF Arrive, hist
  <2>5. r.phase = "load" /\ r.now = clock
    OBVIOUS
  <2> HIDE DEF r
  <2>6. UNCHANGED clock /\ UNCHANGED row /\ UNCHANGED born
        /\ UNCHANGED lastSeen /\ UNCHANGED issued /\ req' = [req EXCEPT ![q] = r]
    BY <2>4
  <2>7. /\ req' \in [Requests -> Request] /\ RequestsInLimits'
        /\ \A p \in Requests : req'[p].phase \in {"load", "act"} =>
             req'[p].now <= clock' /\ clock' <= req'[p].now + MaxLag
    <3>1. r.phase # "act"
      BY <2>5
    <3>2. r.now <= clock /\ clock <= r.now + MaxLag
      BY <2>1, <2>3, <2>5 DEF Times
    <3>3. UNCHANGED <<clock, born>>
      BY <2>6
    <3> QED
      BY <2>2, <2>6, <3>1, <3>2, <3>3, RequestMoves
  <2>8. TypeOK'
    BY <2>6, <2>7 DEF SessionInv, TypeOK
  <2>9. RowInLimits'
    BY <2>6 DEF SessionInv, RowInLimits
  <2>10. ClocksTrail'
    BY <2>6, <2>7 DEF SessionInv, ClocksTrail
  <2> QED
    BY <2>7, <2>8, <2>9, <2>10 DEF SessionInv
<1>3. ASSUME NEW q \in Requests, Load(q) PROVE SessionInv'
  <2> DEFINE r == [phase |-> "act", now |-> req[q].now, token |-> req[q].token,
                   csrf |-> req[q].csrf, todo |-> Steps[req[q].endpoint],
                   absolute |-> row.absolute, seen |-> lastSeen]
  <2>1. row \in Row /\ born \in Times /\ lastSeen \in Times
    BY <1>3 DEF Load, Found, SessionInv, TypeOK
  <2>2. r \in Request
    BY <1>3, <2>1, LoadFields, StepsNotEmpty DEF Load, SessionInv, Request, Row
  <2>3. /\ r.absolute = born + AbsoluteTtl /\ r.now < born + AbsoluteTtl
        /\ r.now < r.seen + IdleTtl
    <3>1. req[q].now \in Nat
      BY <1>3, LoadFields DEF Load, SessionInv, Times
    <3>2. row.idle > req[q].now /\ row.absolute > req[q].now
      BY <1>3, <2>1, <3>1 DEF Load, Expired, Row
    <3> QED
      BY <1>3, <2>1, <3>1, <3>2 DEF Load, Found, SessionInv, RowInLimits, Earlier, Row, Times
  <2>4. r.now <= clock /\ clock <= r.now + MaxLag
    BY <1>3 DEF Load, SessionInv, ClocksTrail
  <2> QED
    BY <1>3, <2>1, <2>2, <2>3, <2>4, RequestMoves
       DEF Load, hist, SessionInv, TypeOK, RowInLimits, ClocksTrail
<1>4. ASSUME NEW q \in Requests, Refuse(q) \/ Fail(q) PROVE SessionInv'
  BY <1>4, AnswerInLimits
     DEF Refuse, Fail, hist, SessionInv, TypeOK, RowInLimits, ClocksTrail
<1>5. ASSUME NEW q \in Requests, FindExpired(q) PROVE SessionInv'
  BY <1>5, RequestMoves
     DEF FindExpired, hist, Request, SessionInv, TypeOK, RowInLimits, ClocksTrail
<1>6. ASSUME NEW q \in Requests, Revoke(q) PROVE SessionInv'
  <2>1. row # None => row' \in Row /\ row'.idle = row.idle /\ row'.absolute = row.absolute
    BY <1>6 DEF Revoke, SessionInv, TypeOK, Row
  <2> QED
    BY <1>6, <2>1, AnswerInLimits DEF Revoke, hist, SessionInv, TypeOK, RowInLimits, ClocksTrail
<1>7. ASSUME NEW q \in Requests, Refresh(q) PROVE SessionInv'
  <2>1. req[q].phase = "act" /\ Proceed(q) /\ UNCHANGED <<clock, born, issued>>
    BY <1>7 DEF Refresh, Does
  <2>2. CASE row = None
    BY <1>7, <2>1, <2>2, ProceedInLimits DEF Refresh, SessionInv, TypeOK, RowInLimits, ClocksTrail
  <2>3. CASE row # None
    <3>1. row' = Refreshed(req[q]) /\ lastSeen' = Later(lastSeen, req[q].now)
      BY <1>7, <2>3 DEF Refresh
    <3>2. row \in Row /\ born \in Times
      BY <2>3 DEF SessionInv, TypeOK
    <3>3. /\ row' \in Row /\ row'.absolute = row.absolute
          /\ row'.idle = Extended(req[q].now, req[q].absolute)
      BY <2>1, <2>3, <3>1, <3>2, ExtendedInLimits DEF Refreshed, Row
    <3> QED
      BY <2>1, <2>3, <3>1, <3>2, <3>3, ExtendedInLimits, ProceedInLimits
         DEF SessionInv, TypeOK, RowInLimits, ClocksTrail
  <2> QED
    BY <2>2, <2>3
<1>8. ASSUME NEW q \in Requests, CheckCsrf(q) PROVE SessionInv'
  <2>1. req[q].phase = "act" /\ (Proceed(q) \/ Answer(q)) /\ UNCHANGED <<clock, row, hist>>
    BY <1>8 DEF CheckCsrf, Does
  <2> QED
    BY <2>1, ProceedInLimits, AnswerInLimits
       DEF hist, SessionInv, TypeOK, RowInLimits, ClocksTrail
<1>9. ASSUME NEW q \in Requests, NEW c \in CsrfTokens, SetCsrf(q, c) PROVE SessionInv'
  <2>1. req[q].phase = "act" /\ Proceed(q) /\ UNCHANGED <<clock, born, lastSeen>>
        /\ issued' = issued \cup {c}
    BY <1>9 DEF SetCsrf, Does
  <2>2. row # None => row' \in Row /\ row'.idle = row.idle /\ row'.absolute = row.absolute
    BY <1>9 DEF SetCsrf, SessionInv, TypeOK, Row
  <2>3. row = None => row' = None
    BY <1>9 DEF SetCsrf
  <2> QED
    BY <2>1, <2>2, <2>3, ProceedInLimits DEF SessionInv, TypeOK, RowInLimits, ClocksTrail
<1>10. ASSUME NEW q \in Requests, Delete(q) PROVE SessionInv'
  <2>1. req[q].phase = "act" /\ Proceed(q) /\ UNCHANGED <<clock, hist>> /\ row' = None
    BY <1>10 DEF Delete, Does
  <2> QED
    BY <2>1, ProceedInLimits DEF hist, SessionInv, TypeOK, RowInLimits, ClocksTrail
<1>11. ASSUME NEW q \in Requests, Upgrade(q) PROVE SessionInv'
  <2>1. req[q].phase = "act" /\ Proceed(q) /\ UNCHANGED <<clock, born, issued>>
    BY <1>11 DEF Upgrade, Does
  <2>2. CASE row = None
    BY <1>11, <2>1, <2>2, ProceedInLimits DEF Upgrade, SessionInv, TypeOK, RowInLimits, ClocksTrail
  <2>3. CASE row # None
    <3>1. /\ row' = [row EXCEPT !.token = 2, !.csrf = None, !.state = "mfa_verified",
                                !.idle = Extended(req[q].now, req[q].absolute)]
          /\ lastSeen' = Later(lastSeen, req[q].now)
      BY <1>11, <2>3 DEF Upgrade
    <3>2. row \in Row /\ born \in Times
      BY <2>3 DEF SessionInv, TypeOK
    <3>3. /\ row' \in Row /\ row'.absolute = row.absolute
          /\ row'.idle = Extended(req[q].now, req[q].absolute)
      BY <2>1, <2>3, <3>1, <3>2, ExtendedInLimits DEF Row, States
    <3> QED
      BY <2>1, <2>3, <3>1, <3>2, <3>3, ExtendedInLimits, ProceedInLimits
         DEF SessionInv, TypeOK, RowInLimits, ClocksTrail
  <2> QED
    BY <2>2, <2>3
<1>12. CASE Tick
  <2>1. clock \in Nat /\ clock' = clock + 1 /\ clock' \in Times
    BY <1>12 DEF Tick, SessionInv, TypeOK, Times
  <2>2. \A q \in Requests : req[q].phase \in {"load", "act"} =>
          req[q].now <= clock' /\ clock' <= req[q].now + MaxLag
    <3> SUFFICES ASSUME NEW q \in Requests, req[q].phase \in {"load", "act"}
                 PROVE  req[q].now <= clock' /\ clock' <= req[q].now + MaxLag
      OBVIOUS
    <3>1. req[q].now \in Nat
      BY ActFields, LoadFields DEF SessionInv, Times
    <3> QED
      BY <1>12, <2>1, <3>1 DEF Tick, SessionInv, ClocksTrail
  <2>3. lastSeen # None => lastSeen <= clock'
    BY <2>1 DEF SessionInv, TypeOK, ClocksTrail, Times
  <2> QED
    BY <1>12, <2>1, <2>2, <2>3
       DEF Tick, hist, SessionInv, TypeOK, RowInLimits, RequestsInLimits, ClocksTrail
<1>13. CASE UNCHANGED vars
  BY <1>13 DEF vars, SessionInv, TypeOK, RowInLimits, RequestsInLimits, ClocksTrail
<1> QED
  BY <1>1, <1>2, <1>3, <1>4, <1>5, <1>6, <1>7, <1>8, <1>9, <1>10, <1>11, <1>12, <1>13 DEF Next

LEMMA InvHolds == Spec => []SessionInv
  BY InvInit, InvStep, PTL DEF Spec

(* Rows keep the schema's CHECK on their limits, and requests the values they
   have read, for any number of requests. *)
THEOREM TypeCorrect == Spec => []TypeOK
<1>1. SessionInv => TypeOK
  BY DEF SessionInv
<1> QED
  BY <1>1, InvHolds, PTL

(* No request is let in past either limit, however refreshes overtake one
   another. *)
THEOREM LimitsSafe == Spec => []LimitsHold
<1>1. SessionInv => LimitsHold
  BY DEF SessionInv, RowInLimits, RequestsInLimits, LimitsHold, Live
<1> QED
  BY <1>1, InvHolds, PTL

(* A slow refresh takes back no more than its own delay. *)
THEOREM RefreshSafe == Spec => []RefreshLosesOnlyLag
<1>1. SessionInv => RefreshLosesOnlyLag
  BY DEF SessionInv, RowInLimits, RefreshLosesOnlyLag, Live
<1> QED
  BY <1>1, InvHolds, PTL

(* Whatever a request that had loaded the session does, a session that has
   ended stays ended. *)
LEMMA EndedStep == SessionInv /\ [Next]_vars => (born # None /\ ~Live => ~Live')
<1> SUFFICES ASSUME SessionInv, [Next]_vars, born # None, ~Live PROVE ~Live'
  OBVIOUS
<1>1. row # None => row \in Row /\ row.revoked
  BY DEF SessionInv, TypeOK, Live
<1>2. ASSUME NEW q \in Requests, Revoke(q) \/ Refresh(q) \/ Delete(q) \/ Upgrade(q)
      PROVE  ~Live'
  BY <1>1, <1>2 DEF Revoke, Refresh, Refreshed, Delete, Upgrade, Live, Row
<1>3. ASSUME NEW q \in Requests, NEW c \in CsrfTokens, SetCsrf(q, c) PROVE ~Live'
  BY <1>1, <1>3 DEF SetCsrf, Live, Row
<1>4. CASE UNCHANGED row
  BY <1>4 DEF Live
<1> QED
  BY <1>2, <1>3, <1>4
     DEF Next, Create, Arrive, Load, Refuse, FindExpired, CheckCsrf, Fail, Tick, vars

THEOREM EndedSafe == Spec => EndedForGood
<1>1. SessionInv /\ [Next]_vars => [born # None /\ ~Live => ~Live']_vars
  BY EndedStep
<1> QED
  BY <1>1, InvHolds, PTL DEF Spec, EndedForGood
=============================================================================
