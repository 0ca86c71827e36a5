-------------------------- MODULE SessionLifecycle --------------------------
(***************************************************************************)
(* The life of one row of sessions under concurrent requests: how it is    *)
(* loaded, refreshed, given CSRF tokens, upgraded after TOTP enrollment,   *)
(* revoked once it has expired, and deleted by logout                      *)
(* (crates/api/src/auth/routes.rs, and require_vault_session of vault.rs). *)
(*                                                                         *)
(* A request authenticates with one SELECT and acts on the row later, by   *)
(* its id, in statements of their own.  Its clock is read when it arrives. *)
(***************************************************************************)
EXTENDS Integers, Sequences

CONSTANTS
  Requests,     \* requests that may be under way at the same time
  CsrfTokens,   \* random CSRF tokens
  IdleTtl,      \* SESSION_IDLE_TTL
  AbsoluteTtl,  \* SESSION_ABSOLUTE_TTL
  MaxTime,      \* bound of the model: the end of time
  MaxLag,       \* bound of the model: how long a request may take
  None

ASSUME SessionAssumption ==
  /\ IdleTtl \in Nat \ {0} /\ AbsoluteTtl \in Nat /\ IdleTtl <= AbsoluteTtl
  /\ MaxTime \in Nat /\ MaxLag \in Nat
  /\ None \notin Nat

VARIABLES
  clock,
  row,        \* the sessions row; None before its creation and after a logout
  req,        \* requests under way
  born,       \* history: when the session was created
  lastSeen,   \* history: the latest arrival among the requests it was kept alive by
  issued      \* CSRF tokens given out so far

vars == <<clock, row, req, born, lastSeen, issued>>
hist == <<born, lastSeen, issued>>

EnrollStates == {"mfa_enrollment_required", "mfa_recovery"}
States       == EnrollStates \cup {"mfa_verified"}

\* What each endpoint does after it has loaded the session, in order.
Steps ==
  [session |-> <<"refresh">>,
   csrf    |-> <<"refresh", "set_csrf">>,
   logout  |-> <<"check_csrf", "delete">>,
   enroll  |-> <<"check_csrf", "refresh">>,
   confirm |-> <<"check_csrf", "upgrade">>,
   read    |-> <<"refresh">>,
   write   |-> <<"refresh", "check_csrf">>]

\* The session states each endpoint accepts.
Allowed ==
  [session |-> States, csrf |-> States, logout |-> States,
   enroll |-> EnrollStates, confirm |-> EnrollStates,
   read |-> {"mfa_verified"}, write |-> {"mfa_verified"}]

Endpoints == DOMAIN Steps

Idle == [phase |-> "idle"]

Earlier(s, t) == IF s <= t THEN s ELSE t
Later(s, t)   == IF s <= t THEN t ELSE s

Init ==
  /\ clock = 0
  /\ row = None
  /\ req = [q \in Requests |-> Idle]
  /\ born = None
  /\ lastSeen = None
  /\ issued = {}

-----------------------------------------------------------------------------
\* create_session_with_device, and its twin in register_finish.
Create(state) ==
  /\ born = None
  /\ row' = [token |-> 1, csrf |-> None, state |-> state, revoked |-> FALSE,
             idle |-> clock + IdleTtl, absolute |-> clock + AbsoluteTtl]
  /\ born' = clock
  /\ lastSeen' = clock
  /\ UNCHANGED <<clock, req, issued>>

\* A request with a session cookie and, where needed, the CSRF token of its tab.
Arrive(q, endpoint, token, csrf) ==
  /\ req[q] = Idle
  /\ req' = [req EXCEPT ![q] = [phase |-> "load", endpoint |-> endpoint, now |-> clock,
                                token |-> token, csrf |-> csrf]]
  /\ UNCHANGED <<clock, row, hist>>

Answer(q) == req' = [req EXCEPT ![q] = Idle]

\* The row load_current_session selects.
Found(q) == row # None /\ row.token = req[q].token /\ ~row.revoked

Expired(q) == row.idle <= req[q].now \/ row.absolute <= req[q].now

\* Authenticated, and in a state the endpoint accepts.
Load(q) ==
  /\ req[q].phase = "load"
  /\ Found(q) /\ ~Expired(q)
  /\ row.state \in Allowed[req[q].endpoint]
  /\ req' = [req EXCEPT ![q] =
               [phase |-> "act", now |-> req[q].now, token |-> req[q].token, csrf |-> req[q].csrf,
                todo |-> Steps[req[q].endpoint], absolute |-> row.absolute, seen |-> lastSeen]]
  /\ UNCHANGED <<clock, row, hist>>

\* No such session, or in the wrong state.
Refuse(q) ==
  /\ req[q].phase = "load"
  /\ Found(q) => ~Expired(q) /\ row.state \notin Allowed[req[q].endpoint]
  /\ Answer(q)
  /\ UNCHANGED <<clock, row, hist>>

\* The row has expired: revoke_session comes next.
FindExpired(q) ==
  /\ req[q].phase = "load"
  /\ Found(q) /\ Expired(q)
  /\ req' = [req EXCEPT ![q] = [phase |-> "revoke"]]
  /\ UNCHANGED <<clock, row, hist>>

\* UPDATE by id, whatever has happened to the row since.
Revoke(q) ==
  /\ req[q].phase = "revoke"
  /\ row' = IF row = None THEN None ELSE [row EXCEPT !.revoked = TRUE]
  /\ Answer(q)
  /\ UNCHANGED <<clock, hist>>

-----------------------------------------------------------------------------
Does(q, step) == req[q].phase = "act" /\ Head(req[q].todo) = step

\* The next statement, or the answer.
Proceed(q) ==
  req' = [req EXCEPT ![q] =
            IF Len(req[q].todo) = 1 THEN Idle
            ELSE [req[q] EXCEPT !.todo = Tail(req[q].todo)]]

\* Slip: the idle limit may pass the absolute one.
ExtendedUncapped(now, absolute) == now + IdleTtl

\* Slip: only last_seen_at is updated.
NotExtended(now, absolute) == row.idle

\* min_time(now + SESSION_IDLE_TTL, absolute_expires_at)
Extended(now, absolute) == Earlier(now + IdleTtl, absolute)

\* Slip: the refresh writes the whole row back.
RefreshedWhole(r) ==
  [row EXCEPT !.idle = Extended(r.now, r.absolute), !.revoked = FALSE]

\* Slip: a refresh extends the absolute limit, too.
RefreshedSliding(r) ==
  [row EXCEPT !.idle = r.now + IdleTtl, !.absolute = Later(@, r.now + IdleTtl)]

\* What refresh_session_activity sets.
Refreshed(r) == [row EXCEPT !.idle = Extended(r.now, r.absolute)]

Refresh(q) ==
  /\ Does(q, "refresh")
  /\ row' = IF row = None THEN None ELSE Refreshed(req[q])
  /\ lastSeen' = IF row = None THEN lastSeen ELSE Later(lastSeen, req[q].now)
  /\ Proceed(q)
  /\ UNCHANGED <<clock, born, issued>>

\* The token in the row, if there is one, is the one the request carries.
CsrfMatches(q) ==
  row # None /\ ~row.revoked /\ row.csrf # None /\ row.csrf = req[q].csrf

\* ensure_csrf_token
CheckCsrf(q) ==
  /\ Does(q, "check_csrf")
  /\ IF CsrfMatches(q) THEN Proceed(q) ELSE Answer(q)
  /\ UNCHANGED <<clock, row, hist>>

\* GET /v1/csrf stores the verifier of a fresh token.
SetCsrf(q, c) ==
  /\ Does(q, "set_csrf")
  /\ c \notin issued
  /\ row' = IF row = None THEN None ELSE [row EXCEPT !.csrf = c]
  /\ issued' = issued \cup {c}
  /\ Proceed(q)
  /\ UNCHANGED <<clock, born, lastSeen>>

\* logout
Delete(q) ==
  /\ Does(q, "delete")
  /\ row' = None
  /\ Proceed(q)
  /\ UNCHANGED <<clock, hist>>

\* totp_enroll_confirm: new session token, no CSRF token, full access.  The
\* pending factor is confirmed once, so a second confirmation fails before it.
Upgrade(q) ==
  /\ Does(q, "upgrade")
  /\ row # None => row.token = 1
  /\ row' = IF row = None THEN None
            ELSE [row EXCEPT !.token = 2, !.csrf = None, !.state = "mfa_verified",
                             !.idle = Extended(req[q].now, req[q].absolute)]
  /\ lastSeen' = IF row = None THEN lastSeen ELSE Later(lastSeen, req[q].now)
  /\ Proceed(q)
  /\ UNCHANGED <<clock, born, issued>>

\* A statement fails, the client goes away, the process dies.
Fail(q) ==
  /\ req[q] # Idle
  /\ Answer(q)
  /\ UNCHANGED <<clock, row, hist>>

Tick ==
  /\ clock < MaxTime
  /\ \A q \in Requests :
       req[q].phase \in {"load", "act"} => clock < req[q].now + MaxLag
  /\ clock' = clock + 1
  /\ UNCHANGED <<row, req, hist>>

\* The session tokens given out, old ones included.
Cookies == 1..(IF row = None THEN 1 ELSE row.token)

\* What a tab sends: an endpoint that checks no CSRF token needs none.
Sends(endpoint) ==
  IF endpoint \in {"session", "csrf", "read"} THEN {None} ELSE issued \cup {None}

Next ==
  \/ \E state \in States : Create(state)
  \/ \E q \in Requests :
       \/ \E endpoint \in Endpoints, token \in Cookies :
            \E csrf \in Sends(endpoint) : Arrive(q, endpoint, token, csrf)
       \/ Load(q) \/ Refuse(q) \/ FindExpired(q) \/ Revoke(q)
       \/ Refresh(q) \/ CheckCsrf(q) \/ Delete(q) \/ Upgrade(q) \/ Fail(q)
       \/ \E c \in CsrfTokens : SetCsrf(q, c)
  \/ Tick

Spec == Init /\ [][Next]_vars

-----------------------------------------------------------------------------
(***************************************************************************)
(* Properties.                                                             *)
(***************************************************************************)

Row ==
  [token : {1, 2}, csrf : CsrfTokens \cup {None}, state : States, revoked : BOOLEAN,
   idle : Nat, absolute : Nat]

Times == 0..MaxTime

Statements == {"refresh", "check_csrf", "set_csrf", "upgrade", "delete"}

Request ==
  {Idle, [phase |-> "revoke"]}
  \cup [phase : {"load"}, endpoint : Endpoints, now : Times, token : {1, 2},
        csrf : CsrfTokens \cup {None}]
  \cup [phase : {"act"}, now : Times, token : {1, 2}, csrf : CsrfTokens \cup {None},
        todo : Seq(Statements) \ {<<>>}, absolute : Nat, seen : Times]

(* The row keeps the schema's CHECK that the idle limit is not after the
   absolute one, so that no refresh is ever refused by the database; a request
   under way has statements left, and the token it has loaded the row with.  *)
TypeOK ==
  /\ clock \in Times
  /\ row # None => row \in Row /\ row.idle <= row.absolute
  /\ born \in Times \cup {None} /\ lastSeen \in Times \cup {None}
  /\ row # None => born \in Times /\ lastSeen \in Times
  /\ issued \subseteq CsrfTokens
  /\ req \in [Requests -> Request]

Live == row # None /\ ~row.revoked

(* No request is let in beyond twelve hours after the session was created, or
   after thirty minutes without a request that refreshed it, however refreshes
   of slow and fast requests overtake one another.                          *)
LimitsHold ==
  /\ \A q \in Requests : req[q].phase = "act" =>
       req[q].now < born + AbsoluteTtl /\ req[q].now < req[q].seen + IdleTtl
  /\ Live => row.idle <= Earlier(lastSeen + IdleTtl, born + AbsoluteTtl)

(* A slow request that refreshes last, with its old clock, takes back at most
   its own delay from what a faster request has added.                      *)
RefreshLosesOnlyLag ==
  Live => row.idle >= Earlier(lastSeen + IdleTtl - MaxLag, row.absolute)

(* A session that was logged out, or was found expired, never comes back, not
   by the refresh, upgrade or CSRF token of a request that had loaded it.    *)
EndedForGood == [][born # None /\ ~Live => ~Live']_vars

=============================================================================
