--------------------------- MODULE EnrollmentFlow ---------------------------
(***************************************************************************)
(* The registration, sign-in and enrollment pages of the browser client    *)
(* (crates/api/static/app.js): the account secret that must be saved       *)
(* before the account is created, the second factor, the unlock key that   *)
(* waits for it, and the buttons that are disabled meanwhile.              *)
(*                                                                         *)
(* Every event handler is an async function: it runs up to an await, where *)
(* it is at a request, and goes on when the answer comes.  Meanwhile other *)
(* handlers run.  The mode buttons are never disabled, so any function can *)
(* be overtaken by a reset of the page and goes on afterwards.  A request  *)
(* that changes the server takes effect there (Serve) before its answer    *)
(* arrives (Resume); any request can fail, before or after (Fail).         *)
(*                                                                         *)
(* The cookie jar belongs to the browser: other tabs of the origin send    *)
(* the same session and may replace it between any two requests of the     *)
(* page.                                                                   *)
(***************************************************************************)
EXTENDS Naturals, Sequences, FiniteSets

CONSTANTS
  Accounts,     \* one for each registration that may be started
  Slots,        \* async functions that may be under way at a time
  MaxSessions,  \* bound of the model: sessions the server creates
  MaxFactors,   \* bound of the model: enrollments started per account
  None

Factor == [account : Accounts, n : 1..MaxFactors]

ASSUME FlowAssumption ==
  /\ MaxSessions \in Nat
  /\ MaxFactors \in Nat
  /\ None \notin Accounts \cup Nat \cup Factor

VARIABLES
  page,      \* state and elements of app.js
  task,      \* async functions: the await they are at and what they hold
  cookie,    \* the session in the browser's cookie jar, or None
  server,    \* accounts, sessions and factors
  started,   \* history: registrations started
  saved,     \* history: accounts whose secret the user has ticked as saved
  confirmed, \* history: this page has completed a TOTP confirmation
  overtaken, \* history: the last reset found an async function under way
  displaced  \* history: since the last reset another tab has changed the cookie

vars == <<page, task, cookie, server, started, saved, confirmed, overtaken, displaced>>

Session == [account : Accounts, verified : BOOLEAN]

Idle == [fn |-> "idle", at |-> "none", arg |-> None, sent |-> None, answer |-> None]

FreshPage ==
  [mode |-> "register", registerOn |-> TRUE, loginOn |-> TRUE,
   shown |-> None, ticked |-> FALSE, continueOn |-> FALSE,
   payload |-> None, finished |-> FALSE, key |-> None,
   challenge |-> None, mfaPanel |-> FALSE, mfaOn |-> TRUE,
   csrf |-> None, factor |-> None, totpPanel |-> FALSE, totpOn |-> TRUE,
   vault |-> None]

Init ==
  /\ page = FreshPage
  /\ task = [w \in Slots |-> Idle]
  /\ cookie = None
  /\ server = [accounts |-> {}, sessions |-> <<>>,
               factors |-> [a \in Accounts |-> [n |-> 0, active |-> FALSE]]]
  /\ started = {}
  /\ saved = {}
  /\ confirmed = FALSE
  /\ overtaken = FALSE
  /\ displaced = FALSE

Running(fns) == \E w \in Slots : task[w].fn \in fns

-----------------------------------------------------------------------------
(***************************************************************************)
(* What the user does.                                                     *)
(***************************************************************************)

\* Slip: the login form's second-factor controls are not given back.
ResetKeepingMfaBusy(p) ==
  [FreshPage EXCEPT !.mode = p.mode, !.registerOn = p.registerOn, !.loginOn = p.loginOn,
                    !.totpOn = p.totpOn, !.mfaOn = p.mfaOn]

\* Slip: the outputs are reset, the state is not.
ResetOutputsOnly(p) ==
  [p EXCEPT !.shown = None, !.ticked = FALSE, !.continueOn = FALSE, !.mfaPanel = FALSE,
            !.mfaOn = TRUE, !.totpPanel = FALSE, !.vault = None, !.key = None]

\* resetFlow and resetOutputs.  The submit buttons belong to the functions that
\* disabled them; the TOTP form keeps what the last confirmation left.
Reset(p) ==
  [FreshPage EXCEPT !.mode = p.mode, !.registerOn = p.registerOn, !.loginOn = p.loginOn,
                    !.totpOn = p.totpOn]

\* The function goes to the request "at" with the cookie of the moment.
Send(w, fn, at, arg, jar) ==
  task' = [task EXCEPT ![w] =
             [fn |-> fn, at |-> at, arg |-> arg, sent |-> jar, answer |-> None]]

NotesReset ==
  /\ overtaken' = (\E w \in Slots : task[w] # Idle)
  /\ displaced' = FALSE

SetMode(mode) ==
  /\ page' = [Reset(page) EXCEPT !.mode = mode]
  /\ NotesReset
  /\ UNCHANGED <<task, cookie, server, started, saved, confirmed>>

SubmitRegistration(w, a) ==
  /\ page.mode = "register" /\ page.registerOn
  /\ task[w] = Idle
  /\ a \notin started
  /\ started' = started \cup {a}
  /\ page' = [Reset(page) EXCEPT !.registerOn = FALSE]
  /\ NotesReset
  /\ Send(w, "register", "build", a, cookie)
  /\ UNCHANGED <<cookie, server, saved, confirmed>>

\* The user knows the secrets that were saved.
SubmitLogin(w, a) ==
  /\ page.mode = "login" /\ page.loginOn
  /\ task[w] = Idle
  /\ a \in saved
  /\ page' = [Reset(page) EXCEPT !.loginOn = FALSE]
  /\ NotesReset
  /\ Send(w, "login", "prove", a, cookie)
  /\ UNCHANGED <<cookie, server, started, saved, confirmed>>

\* updateSecretSavedState; the panel is visible while there is a secret to show.
TickSaved ==
  /\ page.shown # None
  /\ page' = [page EXCEPT !.ticked = ~page.ticked, !.continueOn = ~page.ticked]
  /\ saved' = IF page.ticked THEN saved ELSE saved \cup {page.shown}
  /\ UNCHANGED <<task, cookie, server, started, confirmed, overtaken, displaced>>

\* Slip: the button and the check of the box left out.
ContinueUnticked(w) ==
  /\ page.shown # None
  /\ task[w] = Idle
  /\ page.payload # None \/ page.finished
  /\ page' = [page EXCEPT !.continueOn = FALSE]
  /\ IF page.finished THEN Send(w, "continue", "csrf", None, cookie)
                      ELSE Send(w, "continue", "register_finish", page.payload, cookie)
  /\ UNCHANGED <<cookie, server, started, saved, confirmed, overtaken, displaced>>

Continue(w) ==
  /\ page.continueOn /\ page.ticked
  /\ task[w] = Idle
  /\ page.payload # None \/ page.finished
  /\ page' = [page EXCEPT !.continueOn = FALSE]
  /\ IF page.finished THEN Send(w, "continue", "csrf", None, cookie)
                      ELSE Send(w, "continue", "register_finish", page.payload, cookie)
  /\ UNCHANGED <<cookie, server, started, saved, confirmed, overtaken, displaced>>

\* submitLoginTotp and submitLoginRecoveryCode
SubmitSecondFactor(w) ==
  /\ page.mfaPanel /\ page.mfaOn /\ page.challenge # None
  /\ task[w] = Idle
  /\ page' = [page EXCEPT !.mfaOn = FALSE]
  /\ \/ Send(w, "verify", "verify", page.challenge, cookie)
     \/ Send(w, "recover", "recover", page.challenge, cookie)
  /\ UNCHANGED <<cookie, server, started, saved, confirmed, overtaken, displaced>>

SubmitTotp(w) ==
  /\ page.totpPanel /\ page.totpOn
  /\ page.factor # None /\ page.csrf # None
  /\ task[w] = Idle
  /\ page' = [page EXCEPT !.totpOn = FALSE]
  /\ Send(w, "confirm", "confirm", [factor |-> page.factor, csrf |-> page.csrf], cookie)
  /\ UNCHANGED <<cookie, server, started, saved, confirmed, overtaken, displaced>>

\* The lock button is disabled without a vault.  A sync disables it too, but a
\* function left over from an earlier vault enables it again when it ends.
Lock ==
  /\ page.vault # None
  /\ page' = [page EXCEPT !.vault = None, !.key = None]
  /\ UNCHANGED <<task, cookie, server, started, saved, confirmed, overtaken, displaced>>

\* A reload ends the page's functions; the cookie and what the server did stay.
Reload ==
  /\ page # FreshPage
  /\ page' = FreshPage
  /\ task' = [w \in Slots |-> Idle]
  /\ confirmed' = FALSE
  /\ overtaken' = FALSE
  /\ displaced' = FALSE
  /\ UNCHANGED <<cookie, server, started, saved>>

-----------------------------------------------------------------------------
(***************************************************************************)
(* What the server does with a request.                                    *)
(***************************************************************************)

Answer(w, answer) == task' = [task EXCEPT ![w].answer = answer]

AddSession(s, a, verified) ==
  /\ Len(s.sessions) < MaxSessions
  /\ server' = [s EXCEPT !.sessions = Append(@, [account |-> a, verified |-> verified])]

NewSession(w, s, a, verified) ==
  /\ AddSession(s, a, verified)
  /\ Answer(w, [session |-> Len(s.sessions) + 1])

SessionOf(t) == server.sessions[t.sent]

ServeRegisterFinish(w) ==
  LET a == task[w].arg IN
  /\ task[w].at = "register_finish"
  /\ a \notin server.accounts
  /\ NewSession(w, [server EXCEPT !.accounts = @ \cup {a}], a, FALSE)

\* login_finish: a confirmed factor is asked for, without one a session is made.
ServeLoginFinish(w) ==
  LET a == task[w].arg IN
  /\ task[w].at = "login_finish"
  /\ a \in server.accounts
  /\ IF server.factors[a].active
       THEN Answer(w, [challenge |-> a]) /\ UNCHANGED server
       ELSE NewSession(w, server, a, FALSE)

ServeSecondFactor(w) ==
  LET a == task[w].arg IN
  /\ task[w].at \in {"verify", "recover"}
  /\ server.factors[a].active
  /\ NewSession(w, server, a, task[w].at = "verify")

ServeEnrollStart(w) ==
  LET a == SessionOf(task[w]).account
      n == server.factors[a].n + 1
  IN
  /\ task[w].at = "enroll_start"
  /\ task[w].sent # None
  /\ task[w].arg = task[w].sent
  /\ ~SessionOf(task[w]).verified
  /\ n <= MaxFactors
  /\ server' = [server EXCEPT !.factors[a] = [n |-> n, active |-> FALSE]]
  /\ Answer(w, [factor |-> [account |-> a, n |-> n]])

ServeConfirm(w) ==
  LET f == task[w].arg.factor IN
  /\ task[w].at = "confirm"
  /\ task[w].sent # None
  /\ task[w].arg.csrf = task[w].sent
  /\ SessionOf(task[w]) = [account |-> f.account, verified |-> FALSE]
  /\ server.factors[f.account] = [n |-> f.n, active |-> FALSE]
  /\ server' = [server EXCEPT !.factors[f.account].active = TRUE,
                              !.sessions[task[w].sent].verified = TRUE]
  /\ Answer(w, [session |-> task[w].sent])

Serve(w) ==
  /\ task[w].answer = None
  /\ \/ ServeRegisterFinish(w) \/ ServeLoginFinish(w) \/ ServeSecondFactor(w)
     \/ ServeEnrollStart(w) \/ ServeConfirm(w)
  /\ UNCHANGED <<page, cookie, started, saved, confirmed, overtaken, displaced>>

-----------------------------------------------------------------------------
(***************************************************************************)
(* How a function goes on.                                                 *)
(***************************************************************************)

\* What the answer holds; nothing before it has come.
Answered(w) == IF task[w].answer = None THEN {} ELSE DOMAIN task[w].answer

Stop(w) == task' = [task EXCEPT ![w] = Idle]

\* submitRegistration: renderAccountSecret, then what Continue will send.
ResumeRegister(w) ==
  LET a == task[w].arg IN
  /\ task[w].at = "build"
  /\ page' = [page EXCEPT !.shown = a, !.ticked = FALSE, !.continueOn = FALSE,
                          !.key = a, !.payload = a, !.registerOn = TRUE]
  /\ Stop(w)
  /\ UNCHANGED <<cookie, confirmed>>

ResumeProof(w) ==
  /\ task[w].at = "prove"
  /\ page' = [page EXCEPT !.key = task[w].arg]
  /\ Send(w, "login", "login_finish", task[w].arg, cookie)
  /\ UNCHANGED <<cookie, confirmed>>

ResumeMfaRequired(w) ==
  /\ task[w].at = "login_finish"
  /\ "challenge" \in Answered(w)
  /\ page' = [page EXCEPT !.challenge = task[w].answer.challenge, !.mfaPanel = TRUE,
                          !.loginOn = TRUE]
  /\ Stop(w)
  /\ UNCHANGED <<cookie, confirmed>>

\* The answer sets the session cookie; what the page notes of it differs.
ResumeSession(w) ==
  LET at == task[w].at
      jar == task[w].answer.session
  IN
  /\ at \in {"register_finish", "login_finish", "verify", "recover", "confirm"}
  /\ "session" \in Answered(w)
  /\ cookie' = jar
  /\ page' = CASE at = "register_finish" -> [page EXCEPT !.finished = TRUE, !.payload = None]
               [] at = "verify"  -> [page EXCEPT !.challenge = None]
               [] at = "recover" -> [page EXCEPT !.challenge = None, !.mfaPanel = FALSE]
               [] OTHER -> page
  /\ IF at \in {"verify", "confirm"} THEN Send(w, task[w].fn, "session", None, jar)
                                     ELSE Send(w, task[w].fn, "csrf", None, jar)
  /\ UNCHANGED confirmed

\* startTotpEnrollment: the token of the session whose cookie was sent.
ResumeCsrf(w) ==
  /\ task[w].at = "csrf"
  /\ task[w].sent # None
  /\ page' = [page EXCEPT !.csrf = task[w].sent]
  /\ Send(w, task[w].fn, "enroll_start", task[w].sent, cookie)
  /\ UNCHANGED <<cookie, confirmed>>

\* renderTotpEnrollment, and the end of the function that started it.
ResumeEnrollStart(w) ==
  LET shown == [page EXCEPT !.factor = task[w].answer.factor, !.totpPanel = TRUE] IN
  /\ task[w].at = "enroll_start"
  /\ task[w].answer # None
  /\ page' = CASE task[w].fn = "login"    -> [shown EXCEPT !.loginOn = TRUE]
               [] task[w].fn = "continue" -> [shown EXCEPT !.continueOn = FALSE]
               [] OTHER -> shown
  /\ Stop(w)
  /\ UNCHANGED <<cookie, confirmed>>

\* The end of submitLoginTotp or submitTotp.  The latter leaves its form disabled.
Completed(w, p) ==
  /\ page' = IF task[w].fn = "verify" THEN [p EXCEPT !.mfaPanel = FALSE]
                                      ELSE [p EXCEPT !.totpOn = FALSE]
  /\ confirmed' = (confirmed \/ task[w].fn = "confirm")
  /\ Stop(w)

\* unlockVaultFromPendingKey takes the key, if one is there.
ResumeUnlock(w) ==
  /\ task[w].at = "session"
  /\ \/ /\ page.key # None
        /\ page' = [page EXCEPT !.key = None]
        /\ Send(w, task[w].fn, "unlock", page.key, cookie)
        /\ UNCHANGED confirmed
     \/ page.key = None /\ Completed(w, page)
  /\ UNCHANGED cookie

\* GET /v1/vaults of the session that was sent: the unlock key of its account
\* opens the wrapped vault key, and no other does.
ResumeVaults(w) ==
  /\ task[w].at = "unlock"
  /\ task[w].sent # None
  /\ SessionOf(task[w]) = [account |-> task[w].arg, verified |-> TRUE]
  /\ page' = [page EXCEPT !.vault = task[w].arg, !.key = None]
  /\ Send(w, task[w].fn, "sync", None, cookie)
  /\ UNCHANGED <<cookie, confirmed>>

ResumeSync(w) ==
  /\ task[w].at = "sync"
  /\ Completed(w, page)
  /\ UNCHANGED cookie

Resume(w) ==
  /\ \/ ResumeRegister(w) \/ ResumeProof(w) \/ ResumeMfaRequired(w) \/ ResumeSession(w)
     \/ ResumeCsrf(w) \/ ResumeEnrollStart(w)
     \/ ResumeUnlock(w) \/ ResumeVaults(w) \/ ResumeSync(w)
  /\ UNCHANGED <<server, started, saved, overtaken, displaced>>

\* Slip: the button given back whether or not the box is ticked.
FailedPageUnticked(t) ==
  CASE t.fn = "register" -> [page EXCEPT !.registerOn = TRUE]
    [] t.fn = "login"    -> [page EXCEPT !.key = None, !.loginOn = TRUE]
    [] t.fn = "continue" -> [page EXCEPT !.continueOn = TRUE]
    [] t.fn = "confirm"  -> [page EXCEPT !.totpOn = TRUE]
    [] OTHER -> [page EXCEPT !.mfaOn = TRUE]

\* The catch and finally blocks; a failed first sync also locks the vault.
FailedPage(t) ==
  LET locked == IF t.at = "sync" THEN [page EXCEPT !.vault = None, !.key = None] ELSE page
  IN
  CASE t.fn = "register" -> [page EXCEPT !.registerOn = TRUE]
    [] t.fn = "login"    -> [page EXCEPT !.key = None, !.loginOn = TRUE]
    [] t.fn = "continue" ->
         [page EXCEPT !.continueOn = IF page.factor = None THEN page.ticked ELSE @]
    [] t.fn \in {"verify", "recover"} -> [locked EXCEPT !.mfaOn = TRUE]
    [] t.fn = "confirm"  -> [locked EXCEPT !.totpOn = TRUE]

\* The request is refused, or it or its answer is lost; GET /v1/session has a
\* catch of its own.
Fail(w) ==
  /\ task[w] # Idle
  /\ task[w].at # "session"
  /\ page' = FailedPage(task[w])
  /\ Stop(w)
  /\ UNCHANGED <<cookie, server, started, saved, confirmed, overtaken, displaced>>

-----------------------------------------------------------------------------
(***************************************************************************)
(* The other tabs of the origin: what their handlers, which are the same,  *)
(* have done to the server and to the cookie jar once they have ended.     *)
(***************************************************************************)

\* The last answer of another tab has set its session in the jar.
Displaced ==
  /\ cookie' = Len(server.sessions) + 1
  /\ displaced' = TRUE
  /\ UNCHANGED <<page, task, confirmed, overtaken>>

OtherTabRegisters(a) ==
  /\ a \notin started
  /\ started' = started \cup {a}
  /\ saved' = saved \cup {a}
  /\ AddSession([server EXCEPT !.accounts = @ \cup {a}], a, FALSE)
  /\ Displaced

\* A confirmed factor is asked for; a recovery code gives an enrolling session.
OtherTabSignsIn(a) ==
  /\ a \in saved \cap server.accounts
  /\ \E verified \in {FALSE, server.factors[a].active} : AddSession(server, a, verified)
  /\ Displaced
  /\ UNCHANGED <<started, saved>>

\* It starts an enrollment with the session in the jar, and may confirm it.
OtherTabEnrolls ==
  /\ cookie # None
  /\ ~server.sessions[cookie].verified
  /\ LET a == server.sessions[cookie].account
         n == server.factors[a].n + 1
     IN
     /\ n <= MaxFactors
     /\ \E active \in BOOLEAN :
          server' = [server EXCEPT !.factors[a] = [n |-> n, active |-> active],
                                   !.sessions[cookie].verified = active]
  /\ UNCHANGED <<page, task, cookie, started, saved, confirmed, overtaken, displaced>>

OtherTab ==
  \/ \E a \in Accounts : OtherTabRegisters(a) \/ OtherTabSignsIn(a)
  \/ OtherTabEnrolls

-----------------------------------------------------------------------------
User ==
  \/ \E mode \in {"register", "login"} : SetMode(mode)
  \/ \E w \in Slots, a \in Accounts : SubmitRegistration(w, a) \/ SubmitLogin(w, a)
  \/ TickSaved
  \/ \E w \in Slots : Continue(w) \/ SubmitSecondFactor(w) \/ SubmitTotp(w)
  \/ Lock
  \/ Reload

GoesOn(w) == Serve(w) \/ Resume(w) \/ Fail(w)

Next == User \/ OtherTab \/ \E w \in Slots : GoesOn(w)

Spec == Init /\ [][Next]_vars

-----------------------------------------------------------------------------
(***************************************************************************)
(* Properties.                                                             *)
(***************************************************************************)

Page ==
  [mode : {"register", "login"}, registerOn : BOOLEAN, loginOn : BOOLEAN,
   shown : Accounts \cup {None}, ticked : BOOLEAN, continueOn : BOOLEAN,
   payload : Accounts \cup {None}, finished : BOOLEAN, key : Accounts \cup {None},
   challenge : Accounts \cup {None}, mfaPanel : BOOLEAN, mfaOn : BOOLEAN,
   csrf : 1..MaxSessions \cup {None}, factor : Factor \cup {None},
   totpPanel : BOOLEAN, totpOn : BOOLEAN, vault : Accounts \cup {None}]

(* The page's fields hold what the code puts there; nothing is on display
   before it exists: a visible panel has the value its form sends.          *)
TypeOK ==
  /\ page \in Page
  /\ cookie \in 1..Len(server.sessions) \cup {None}
  /\ server.sessions \in Seq(Session)
  /\ server.accounts \subseteq started
  /\ page.continueOn => page.ticked
  /\ page.ticked => page.shown # None
  /\ page.totpPanel => page.factor # None
  /\ page.finished => page.payload = None \/ overtaken

(* An account is created only after the user has been shown its secret and has
   ticked that it is saved: without it the vault could never be opened.  It
   holds although a function overtaken by a reset goes on, a lost answer makes
   the user try again, and the form can be sent twice (app.js 1922).          *)
SecretSavedFirst ==
  /\ server.accounts \subseteq saved
  /\ \A w \in Slots : task[w].at = "register_finish" => task[w].arg \in saved

(* A control that is disabled has an owner: a function under way that gives it
   back when it ends, whichever way.  Only the TOTP form stays disabled, and
   only after this page has completed a confirmation (app.js 2101).           *)
DisabledHasOwner ==
  /\ ~page.registerOn <=> Running({"register"})
  /\ ~page.loginOn <=> Running({"login"})
  /\ page.mfaPanel /\ ~page.mfaOn => Running({"verify", "recover"})
  /\ page.totpPanel /\ ~page.totpOn => Running({"confirm"}) \/ confirmed
  /\ page.ticked /\ ~page.continueOn => Running({"continue"}) \/ page.factor # None

Held == {page.shown, page.payload, page.key, page.challenge, page.vault} \ {None}

Enrolling == {f.account : f \in {page.factor} \ {None}}

(* Unless a function was overtaken by a reset, the secret on display, what the
   page will send for it, the unlock key, the challenge and the open vault
   belong to one account, and a registration the page calls finished is that
   of the secret on display.  Other tabs that sign in to other accounts in
   between do not change that.  The factor that is enrolled on the page is
   that account's too, as long as no other tab has changed the cookie: after
   one has, "Retry enrollment" enrolls the account of the other tab beside
   this page's secret (app.js 1759-1765, 1951).                             *)
OneAccountUnlessOvertaken ==
  ~overtaken =>
    /\ Cardinality(Held) <= 1
    /\ page.finished => page.shown \in server.accounts
    /\ ~displaced => Cardinality(Held \cup Enrolling) <= 1

=============================================================================
