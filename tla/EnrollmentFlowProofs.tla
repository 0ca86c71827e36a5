----------------------- MODULE EnrollmentFlowProofs -----------------------
(***************************************************************************)
(* The forms of app.js before the vault are safe for any number of         *)
(* functions under way, accounts, sessions and enrollments.                *)
(***************************************************************************)
EXTENDS EnrollmentFlow, FiniteSetTheorems, TLAPS

-----------------------------------------------------------------------------
(***************************************************************************)
(* The inductive invariant.                                                *)
(***************************************************************************)

\* The awaits of each function, and those at which it holds an account.
Steps ==
  [idle |-> {"none"}, register |-> {"build"},
   login |-> {"prove", "login_finish", "csrf", "enroll_start"},
   continue |-> {"register_finish", "csrf", "enroll_start"},
   verify |-> {"verify", "session", "unlock", "sync"},
   recover |-> {"recover", "csrf", "enroll_start"},
   confirm |-> {"confirm", "session", "unlock", "sync"}]

OfAccount ==
  {"build", "prove", "login_finish", "register_finish", "verify", "recover", "unlock"}

Sessions(s) == 1..Len(s.sessions)

\* The answer the server s has given to the request.
AnswerOK(t, s) ==
  \/ t.answer = None
  \/ /\ t.at \in {"register_finish", "login_finish", "verify", "recover", "confirm"}
     /\ \E i \in Sessions(s) : t.answer = [session |-> i]
     /\ t.at = "register_finish" => t.arg \in s.accounts
  \/ t.at = "login_finish" /\ t.answer = [challenge |-> t.arg]
  \/ t.at = "enroll_start" /\ \E f \in Factor : t.answer = [factor |-> f]

(* What a function holds at its await, the server being s: the session its
   request was sent with, and what the request carries.                     *)
TaskOK(t, s) ==
  /\ t = [fn |-> t.fn, at |-> t.at, arg |-> t.arg, sent |-> t.sent, answer |-> t.answer]
  /\ t.fn \in DOMAIN Steps
  /\ t.at \in Steps[t.fn]
  /\ t.fn = "idle" => t = Idle
  /\ t.sent \in Sessions(s) \cup {None}
  /\ t.at \in OfAccount => t.arg \in Accounts
  /\ t.at = "enroll_start" => t.arg \in Sessions(s)
  /\ t.at = "confirm" => t.arg.factor \in Factor
  /\ AnswerOK(t, s)

\* Sessions are only added, at most MaxSessions of them.
ServerOK ==
  /\ server \in [accounts : SUBSET Accounts, sessions : Seq(Session),
                 factors : [Accounts -> [n : 0..MaxFactors, active : BOOLEAN]]]
  /\ Len(server.sessions) <= MaxSessions

TasksOK ==
  /\ task = [w \in Slots |-> task[w]]
  /\ \A w \in Slots : TaskOK(task[w], server)

\* Secrets: what the page would send is what it shows.
SavedInv ==
  /\ SecretSavedFirst
  /\ saved \subseteq started /\ started \subseteq Accounts
  /\ page.shown \in started \cup {None}
  /\ page.payload \in {None, page.shown}
  /\ page.ticked => page.shown \in saved
  /\ \A w \in Slots : task[w].at \in {"build", "prove"} => task[w].arg \in started

(* Controls: the submit buttons are disabled exactly while their function is
   under way, of which there is one; the second factor form stays away until
   the proof is accepted, and is then disabled by who verifies a code.       *)
ControlsInv ==
  /\ ~page.registerOn <=> Running({"register"})
  /\ ~page.loginOn <=> Running({"login"})
  /\ \A v, w \in Slots : task[v].fn = task[w].fn /\ task[v].fn \in {"register", "login"} => v = w
  /\ (\E w \in Slots : task[w].at \in {"prove", "login_finish"}) => ~page.mfaPanel /\ page.mfaOn
  /\ page.mfaPanel /\ ~page.mfaOn =>
       \E w \in Slots : task[w].fn = "verify" \/ task[w].at = "recover"
  /\ ~page.totpOn => Running({"confirm"}) \/ confirmed
  /\ page.ticked /\ ~page.continueOn => Running({"continue"}) \/ page.factor # None

(* One account: everything the page displays and remembers and every request
   that carries data of an account belong to it, a finished registration
   included; unless another tab has changed the cookie, so do the sessions of
   the requests and answers under way, and the factor that is enrolled.     *)
OnPage == Held \cup (IF displaced THEN {} ELSE Enrolling)

PageOf(a) ==
  /\ OnPage \subseteq {a}
  /\ page.finished => page.shown = a /\ a \in server.accounts
  /\ page.finished /\ ~displaced => cookie # None /\ server.sessions[cookie].account = a

TaskOf(t, a, s, d) ==
  /\ t.at \in OfAccount => t.arg = a
  /\ ~d =>
       /\ t.at = "csrf" /\ t.sent # None => s.sessions[t.sent].account = a
       /\ t.at = "enroll_start" => s.sessions[t.arg].account = a
       /\ t.at = "confirm" => t.arg.factor.account = a
       /\ \A i \in Sessions(s) :
            t.answer # None /\ t.answer = [session |-> i] => s.sessions[i].account = a
       /\ \A f \in Factor :
            t.answer # None /\ t.answer = [factor |-> f] => f.account = a

\* A registration is built on a blank page with nothing else under way.
Alone(w) ==
  /\ Held \cup Enrolling = {} /\ ~page.finished
  /\ \A v \in Slots \ {w} : task[v] = Idle

OneAccountInv ==
  ~overtaken =>
    /\ \E a \in Accounts \cup {None} :
         PageOf(a) /\ \A w \in Slots : TaskOf(task[w], a, server, displaced)
    /\ \A w \in Slots : task[w].at = "register_finish" => page.shown = task[w].arg
    /\ \A w \in Slots : task[w].at = "build" => Alone(w)

FlowInv == TypeOK /\ ServerOK /\ TasksOK /\ SavedInv /\ ControlsInv /\ OneAccountInv

-----------------------------------------------------------------------------
(***************************************************************************)
(* Lemmas: how each part of the invariant is kept when one function goes   *)
(* to its next await.                                                      *)
(***************************************************************************)

\* What the server does to accounts and sessions: it adds some.
Grows(s, s2) ==
  /\ s.accounts \subseteq s2.accounts
  /\ Len(s.sessions) \in Nat /\ Len(s2.sessions) \in Nat
  /\ Len(s.sessions) <= Len(s2.sessions)
  /\ \A i \in Sessions(s) : s2.sessions[i].account = s.sessions[i].account

\* What a function holds stays right when the server adds sessions.
LEMMA TaskKept ==
  ASSUME NEW t, NEW s, NEW s2, TaskOK(t, s), Grows(s, s2)
  PROVE  TaskOK(t, s2)
  BY DEF TaskOK, AnswerOK, Grows, Sessions

\* Answers of different kinds are different.
LEMMA AnswersDiffer ==
  ASSUME NEW i, NEW a PROVE [session |-> i] # [challenge |-> a] /\ [session |-> i] # [factor |-> a]
                            /\ [factor |-> i] # [challenge |-> a]
<1>1. /\ DOMAIN [session |-> i] = {"session"}
      /\ DOMAIN [challenge |-> a] = {"challenge"}
      /\ DOMAIN [factor |-> a] = {"factor"}
      /\ DOMAIN [factor |-> i] = {"factor"}
  OBVIOUS
<1>2. {"session"} # {"challenge"} /\ {"session"} # {"factor"} /\ {"factor"} # {"challenge"}
  OBVIOUS
<1> QED
  BY <1>1, <1>2

\* What a function holds stays with its account when the server adds sessions.
LEMMA TaskOfKept ==
  ASSUME NEW t, NEW a, NEW s, NEW s2, NEW d, TaskOK(t, s), TaskOf(t, a, s, d), Grows(s, s2)
  PROVE  TaskOf(t, a, s2, d)
<1>1. t.sent # None => t.sent \in Sessions(s)
  BY DEF TaskOK
<1>2. t.at = "enroll_start" => t.arg \in Sessions(s)
  BY DEF TaskOK
<1>3. ASSUME NEW i \in Sessions(s2), t.answer # None, t.answer = [session |-> i]
      PROVE  ~d => s2.sessions[i].account = a
  <2>1. PICK j \in Sessions(s) : t.answer = [session |-> j]
    BY <1>3, AnswersDiffer DEF TaskOK, AnswerOK
  <2>2. [session |-> i].session = [session |-> j].session
    BY <1>3, <2>1
  <2>3. i = j
    BY <2>2
  <2> QED
    BY <1>3, <2>1, <2>3 DEF TaskOf, Grows
<1> QED
  BY <1>1, <1>2, <1>3 DEF TaskOf, Grows

\* What the constants are.
LEMMA Facts ==
  /\ None \notin Accounts /\ None \notin Nat /\ None \notin Factor
  /\ MaxSessions \in Nat /\ MaxFactors \in Nat
  BY FlowAssumption

\* What a reset leaves of the page.
Blank(p) ==
  /\ p.shown = None /\ p.ticked = FALSE /\ p.continueOn = FALSE /\ p.payload = None
  /\ p.finished = FALSE /\ p.key = None /\ p.challenge = None /\ p.mfaPanel = FALSE
  /\ p.mfaOn = TRUE /\ p.factor = None /\ p.totpPanel = FALSE /\ p.vault = None

\* A reset blanks the page and leaves its submit buttons as they are.
LEMMA ResetPage ==
  ASSUME page \in Page
  PROVE  /\ Reset(page) \in Page /\ Blank(Reset(page))
         /\ Reset(page).registerOn = page.registerOn /\ Reset(page).loginOn = page.loginOn
         /\ Reset(page).totpOn = page.totpOn
<1>1. FreshPage \in Page
  BY DEF FreshPage, Page
<1>2. /\ page.mode \in {"register", "login"} /\ page.registerOn \in BOOLEAN
      /\ page.loginOn \in BOOLEAN /\ page.totpOn \in BOOLEAN
  BY DEF Page
<1>3. Reset(page) \in Page
  BY <1>1, <1>2 DEF Reset, Page
<1>4. /\ Reset(page).registerOn = page.registerOn /\ Reset(page).loginOn = page.loginOn
      /\ Reset(page).totpOn = page.totpOn
  BY <1>2 DEF Reset, FreshPage
<1>5. Blank(Reset(page))
  BY <1>2 DEF Reset, FreshPage, Blank
<1> QED
  BY <1>3, <1>4, <1>5

\* A step of one function.
Becomes(w, t) == task' = [task EXCEPT ![w] = t]

\* What is known when one of the tasks changes.
LEMMA TaskStep ==
  ASSUME FlowInv, NEW w \in Slots, NEW t, Becomes(w, t)
  PROVE  /\ TaskOK(task[w], server) /\ task'[w] = t
         /\ \A x \in Slots \ {w} : task'[x] = task[x]
  BY DEF FlowInv, TasksOK, Becomes

\* The tasks, when one of them changes.
LEMMA TasksStep ==
  ASSUME FlowInv, NEW w \in Slots, NEW t, Becomes(w, t), Grows(server, server'),
         TaskOK(t, server')
  PROVE  TasksOK'
<1>1. task' = [x \in Slots |-> task'[x]]
  BY DEF FlowInv, TasksOK, Becomes
<1>2. ASSUME NEW x \in Slots PROVE TaskOK(task'[x], server')
  <2>1. TaskOK(task[x], server)
    BY DEF FlowInv, TasksOK
  <2>2. CASE x = w
    BY <2>2, TaskStep
  <2>3. CASE x # w
    BY <2>1, <2>3, TaskStep, TaskKept
  <2> QED
    BY <2>2, <2>3
<1> QED
  BY <1>1, <1>2 DEF TasksOK

\* The secrets, when one function goes on.
LEMMA SavedStep ==
  ASSUME FlowInv, NEW w \in Slots, NEW t, Becomes(w, t),
         UNCHANGED <<saved, started>>, server'.accounts \subseteq saved,
         page'.shown = page.shown, page'.payload \in {None, page.payload},
         page'.ticked = page.ticked,
         t.at = "register_finish" => t.arg \in saved,
         t.at \in {"build", "prove"} => t.arg \in started
  PROVE  SavedInv'
<1>1. /\ task'[w] = t /\ \A x \in Slots \ {w} : task'[x] = task[x]
  BY TaskStep
<1> QED
  BY <1>1 DEF FlowInv, SavedInv, SecretSavedFirst

\* One account, when one function goes on.
LEMMA OneAccountStep ==
  ASSUME FlowInv, NEW w \in Slots, NEW t, Becomes(w, t), Grows(server, server'),
         UNCHANGED <<overtaken, displaced>>, t.at # "build",
         ~overtaken => \A a \in Accounts \cup {None} :
           PageOf(a) /\ TaskOf(task[w], a, server, displaced)
             => PageOf(a)' /\ TaskOf(t, a, server', displaced),
         task[w] = Idle => page.finished \/ Held \cup Enrolling # {},
         ~overtaken /\ t.at = "register_finish" => page'.shown = t.arg,
         page'.shown = page.shown \/ task[w].at = "build"
  PROVE  OneAccountInv'
<1>1. /\ task'[w] = t /\ \A x \in Slots \ {w} : task'[x] = task[x]
  BY TaskStep
<1>2. SUFFICES ASSUME ~overtaken
               PROVE  /\ \E a \in Accounts \cup {None} :
                           PageOf(a)' /\ \A x \in Slots : TaskOf(task'[x], a, server', displaced)
                      /\ \A x \in Slots :
                           task'[x].at = "register_finish" => page'.shown = task'[x].arg
                      /\ \A x \in Slots : task'[x].at # "build"
  BY DEF OneAccountInv
<1>3. OneAccountInv
  BY DEF FlowInv
<1>4. PICK a \in Accounts \cup {None} :
        PageOf(a) /\ \A x \in Slots : TaskOf(task[x], a, server, displaced)
  BY <1>2, <1>3 DEF OneAccountInv
<1>5. PageOf(a)' /\ TaskOf(t, a, server', displaced)
  BY <1>2, <1>4
<1>6. ASSUME NEW x \in Slots PROVE TaskOf(task'[x], a, server', displaced)
  <2>1. CASE x = w
    BY <1>1, <1>5, <2>1
  <2>2. CASE x # w
    <3>1. TaskOK(task[x], server) /\ TaskOf(task[x], a, server, displaced)
      BY <1>4 DEF FlowInv, TasksOK
    <3> QED
      BY <1>1, <2>2, <3>1, TaskOfKept
  <2> QED
    BY <2>1, <2>2
<1>7. ASSUME NEW x \in Slots, task'[x].at = "register_finish" PROVE page'.shown = task'[x].arg
  <2>1. CASE x = w
    BY <1>1, <1>2, <1>7, <2>1
  <2>2. CASE x # w
    <3>1. task[x].at = "register_finish" /\ task'[x] = task[x]
      BY <1>1, <1>7, <2>2
    <3>2. page.shown = task[x].arg
      BY <1>2, <1>3, <3>1 DEF OneAccountInv
    <3>3. task[w].at # "build"
      BY <1>2, <1>3, <2>2, <3>1 DEF OneAccountInv, Alone, Idle
    <3> QED
      BY <3>1, <3>2, <3>3
  <2> QED
    BY <2>1, <2>2
<1>8. ASSUME NEW x \in Slots, task'[x].at = "build" PROVE FALSE
  <2>1. x # w /\ task[x].at = "build"
    BY <1>1, <1>8
  <2>2. Alone(x)
    BY <1>2, <1>3, <2>1 DEF OneAccountInv
  <2> QED
    BY <2>1, <2>2 DEF Alone
<1> QED
  BY <1>5, <1>6, <1>7, <1>8

\* The controls when a function goes on to its next await.
LEMMA ControlsGoOn ==
  ASSUME FlowInv, NEW w \in Slots, NEW t, Becomes(w, t), t.fn = task[w].fn,
         UNCHANGED confirmed,
         page'.registerOn = page.registerOn, page'.loginOn = page.loginOn,
         page'.totpOn = page.totpOn, page'.mfaOn = page.mfaOn,
         page'.ticked = page.ticked, page'.continueOn = page.continueOn,
         page'.factor = page.factor,
         page'.mfaPanel => page.mfaPanel,
         t.at \in {"prove", "login_finish"} => task[w].at \in {"prove", "login_finish"},
         task[w].at = "recover" => t.at = "recover" \/ ~page'.mfaPanel
  PROVE  ControlsInv'
<1>1. /\ task'[w] = t /\ \A x \in Slots \ {w} : task'[x] = task[x]
  BY TaskStep
<1>2. \A x \in Slots : task'[x].fn = task[x].fn
  BY <1>1
<1>3. ControlsInv
  BY DEF FlowInv
<1>4. /\ ~page'.registerOn <=> Running({"register"})'
      /\ ~page'.loginOn <=> Running({"login"})'
      /\ ~page'.totpOn => Running({"confirm"})' \/ confirmed'
      /\ page'.ticked /\ ~page'.continueOn => Running({"continue"})' \/ page'.factor # None
  BY <1>2, <1>3 DEF ControlsInv, Running
<1>5. \A v, x \in Slots :
        task'[v].fn = task'[x].fn /\ task'[v].fn \in {"register", "login"} => v = x
  BY <1>2, <1>3 DEF ControlsInv
<1>6. (\E x \in Slots : task'[x].at \in {"prove", "login_finish"})
        => ~page'.mfaPanel /\ page'.mfaOn
  BY <1>1, <1>3 DEF ControlsInv
<1>7. page'.mfaPanel /\ ~page'.mfaOn =>
        \E x \in Slots : task'[x].fn = "verify" \/ task'[x].at = "recover"
  BY <1>1, <1>2, <1>3 DEF ControlsInv
<1> QED
  BY <1>4, <1>5, <1>6, <1>7 DEF ControlsInv

\* The controls when a function ends: it gives back those it owns.
LEMMA ControlsEnd ==
  ASSUME FlowInv, NEW w \in Slots, Becomes(w, Idle),
         page' \in Page, page \in Page,
         page'.registerOn <=> page.registerOn \/ task[w].fn = "register",
         page'.loginOn <=> page.loginOn \/ task[w].fn = "login",
         page'.mfaPanel /\ ~page.mfaPanel => task[w].at = "login_finish",
         page.mfaOn => page'.mfaOn,
         page'.mfaPanel /\ ~page'.mfaOn =>
           page.mfaPanel /\ task[w].fn # "verify" /\ task[w].at # "recover",
         confirmed => confirmed',
         ~page'.totpOn => confirmed' \/ (~page.totpOn /\ task[w].fn # "confirm"),
         page'.ticked /\ ~page'.continueOn =>
           page'.factor # None
           \/ (page.ticked /\ ~page.continueOn /\ page.factor = None /\ task[w].fn # "continue")
  PROVE  ControlsInv'
<1>1. /\ task'[w] = Idle /\ \A x \in Slots \ {w} : task'[x] = task[x]
      /\ TaskOK(task[w], server)
  BY TaskStep
<1>2. ControlsInv
  BY DEF FlowInv
<1>3. ~page'.registerOn <=> Running({"register"})'
  BY <1>1, <1>2 DEF ControlsInv, Running, Idle
<1>4. ~page'.loginOn <=> Running({"login"})'
  BY <1>1, <1>2 DEF ControlsInv, Running, Idle
<1>5. \A v, x \in Slots :
        task'[v].fn = task'[x].fn /\ task'[v].fn \in {"register", "login"} => v = x
  BY <1>1, <1>2 DEF ControlsInv, Idle
<1>6. (\E x \in Slots : task'[x].at \in {"prove", "login_finish"})
        => ~page'.mfaPanel /\ page'.mfaOn
  <2> SUFFICES ASSUME NEW x \in Slots, task'[x].at \in {"prove", "login_finish"}
               PROVE  ~page'.mfaPanel /\ page'.mfaOn
    OBVIOUS
  <2>1. x # w /\ task[x].at \in {"prove", "login_finish"}
    BY <1>1 DEF Idle
  <2>2. ~page.mfaPanel /\ page.mfaOn
    BY <1>2, <2>1 DEF ControlsInv
  <2>3. task[x].fn = "login"
    BY <2>1 DEF FlowInv, TasksOK, TaskOK, Steps
  <2>4. task[w].fn # "login"
    BY <1>2, <2>1, <2>3 DEF ControlsInv
  <2>5. task[w].at # "login_finish"
    BY <1>1, <2>4 DEF TaskOK, Steps
  <2> QED
    BY <2>2, <2>5
<1>7. page'.mfaPanel /\ ~page'.mfaOn =>
        \E x \in Slots : task'[x].fn = "verify" \/ task'[x].at = "recover"
  BY <1>1, <1>2 DEF ControlsInv
<1>8. ~page'.totpOn => Running({"confirm"})' \/ confirmed'
  BY <1>1, <1>2 DEF ControlsInv, Running
<1>9. page'.ticked /\ ~page'.continueOn => Running({"continue"})' \/ page'.factor # None
  BY <1>1, <1>2 DEF ControlsInv, Running
<1> QED
  BY <1>3, <1>4, <1>5, <1>6, <1>7, <1>8, <1>9 DEF ControlsInv

-----------------------------------------------------------------------------
(***************************************************************************)
(* What the server does.                                                   *)
(***************************************************************************)

\* The page and what it remembers stay; the function has its answer.
LEMMA AnswerStep ==
  ASSUME FlowInv, NEW w \in Slots, NEW r, Answer(w, r),
         UNCHANGED <<page, cookie, started, saved, confirmed, overtaken, displaced>>,
         Grows(server, server'), ServerOK', server'.accounts \subseteq saved,
         task[w].at \notin {"none", "build"},
         AnswerOK([task[w] EXCEPT !.answer = r], server'),
         \A a \in Accounts \cup {None} :
           TaskOf(task[w], a, server, displaced)
             => TaskOf([task[w] EXCEPT !.answer = r], a, server', displaced)
  PROVE  FlowInv'
<1> DEFINE t == [task[w] EXCEPT !.answer = r]
<1>1. Becomes(w, t)
  BY DEF Answer, Becomes
<1>2. TaskOK(task[w], server)
  BY DEF FlowInv, TasksOK
<1>3. /\ t = [fn |-> task[w].fn, at |-> task[w].at, arg |-> task[w].arg, sent |-> task[w].sent,
              answer |-> r]
      /\ t.fn = task[w].fn /\ t.at = task[w].at /\ t.arg = task[w].arg /\ t.sent = task[w].sent
  BY <1>2 DEF TaskOK
<1>4. TaskOK(t, server')
  <2>1. TaskOK(task[w], server')
    BY <1>2, TaskKept
  <2>2. t.fn # "idle"
    BY <1>2, <1>3 DEF TaskOK, Idle
  <2>3. t.answer = r
    BY <1>3
  <2> HIDE DEF t
  <2> QED
    BY <1>3, <2>1, <2>2, <2>3 DEF TaskOK, t
<1>5. TasksOK'
  BY <1>1, <1>4, TasksStep
<1>6. SavedInv'
  BY <1>1, <1>3, SavedStep DEF FlowInv, SavedInv, SecretSavedFirst
<1>7. ControlsInv'
  BY <1>1, <1>3, ControlsGoOn
<1>8. OneAccountInv'
  <2>1. task[w] # Idle
    BY DEF Idle
  <2>2. ASSUME NEW a \in Accounts \cup {None}, PageOf(a) PROVE PageOf(a)'
    <3>1. OnPage' = OnPage
      BY DEF OnPage, Held, Enrolling
    <3>2. cookie # None => cookie \in Sessions(server)
      BY DEF FlowInv, TypeOK, Sessions
    <3> QED
      BY <2>2, <3>1, <3>2 DEF PageOf, Grows
  <2>3. ~overtaken /\ t.at = "register_finish" => page'.shown = t.arg
    BY <1>3 DEF FlowInv, OneAccountInv
  <2> HIDE DEF t
  <2> QED
    BY <1>1, <1>3, <2>1, <2>2, <2>3, OneAccountStep DEF t
<1>9. TypeOK'
  <2>1. SavedInv
    BY DEF FlowInv
  <2>2. server'.accounts \subseteq started'
    BY <2>1 DEF SavedInv
  <2>3. cookie' \in 1..Len(server'.sessions) \cup {None}
    BY DEF FlowInv, TypeOK, Grows
  <2>4. server'.sessions \in Seq(Session)
    BY DEF ServerOK
  <2> QED
    BY <2>2, <2>3, <2>4 DEF FlowInv, TypeOK
<1> QED
  BY <1>5, <1>6, <1>7, <1>8, <1>9 DEF FlowInv

\* The sessions, with one more.
LEMMA Appended ==
  ASSUME NEW s \in Seq(Session), NEW a \in Accounts, NEW v \in BOOLEAN, NEW s2,
         s2 = Append(s, [account |-> a, verified |-> v])
  PROVE  /\ s2 \in Seq(Session) /\ Len(s2) = Len(s) + 1 /\ Len(s) \in Nat
         /\ \A i \in 1..Len(s) : s2[i] = s[i]
         /\ s2[Len(s) + 1].account = a
<1>1. [account |-> a, verified |-> v] \in Session
  BY DEF Session
<1> QED
  BY <1>1

\* A request that makes a session.
LEMMA NewSessionStep ==
  ASSUME FlowInv, NEW w \in Slots, NEW accounts, NEW verified \in BOOLEAN,
         server' = [accounts |-> accounts, factors |-> server.factors,
                    sessions |-> Append(server.sessions,
                                        [account |-> task[w].arg, verified |-> verified])],
         Len(server.sessions) < MaxSessions,
         Answer(w, [session |-> Len(server.sessions) + 1]),
         UNCHANGED <<page, cookie, started, saved, confirmed, overtaken, displaced>>,
         server.accounts \subseteq accounts, accounts \subseteq saved,
         task[w].at \in {"register_finish", "login_finish", "verify", "recover"},
         task[w].at = "register_finish" => task[w].arg \in accounts
  PROVE  FlowInv'
<1> DEFINE n == Len(server.sessions) + 1
<1>1. task[w].arg \in Accounts /\ TaskOK(task[w], server)
  BY DEF FlowInv, TasksOK, TaskOK, OfAccount
<1>2. /\ server.sessions \in Seq(Session) /\ server.accounts \subseteq Accounts
      /\ server.factors \in [Accounts -> [n : 0..MaxFactors, active : BOOLEAN]]
  BY DEF FlowInv, ServerOK
<1>3. /\ server'.accounts = accounts /\ server'.factors = server.factors
      /\ server'.sessions = Append(server.sessions,
                                   [account |-> task[w].arg, verified |-> verified])
  OBVIOUS
<1>4. /\ server'.sessions \in Seq(Session) /\ Len(server'.sessions) = n
      /\ Len(server.sessions) \in Nat
      /\ \A i \in 1..Len(server.sessions) : server'.sessions[i] = server.sessions[i]
      /\ server'.sessions[n].account = task[w].arg
  BY <1>1, <1>2, <1>3, Appended
<1>5. accounts \subseteq Accounts
  BY DEF FlowInv, SavedInv
<1>6. ServerOK'
  <2>1. Len(server'.sessions) <= MaxSessions
    BY <1>4, Facts
  <2>2. server' \in [accounts : SUBSET Accounts, sessions : Seq(Session),
                     factors : [Accounts -> [n : 0..MaxFactors, active : BOOLEAN]]]
    BY <1>2, <1>3, <1>4, <1>5
  <2> QED
    BY <2>1, <2>2 DEF ServerOK
<1>7. Grows(server, server')
  BY <1>3, <1>4 DEF Grows, Sessions
<1>8. LET t == [task[w] EXCEPT !.answer = [session |-> n]] IN
      /\ t.at = task[w].at /\ t.arg = task[w].arg /\ t.answer = [session |-> n]
      /\ t.sent = task[w].sent
  BY <1>1 DEF TaskOK
<1>9. n \in Sessions(server')
  BY <1>4 DEF Sessions
<1>10. AnswerOK([task[w] EXCEPT !.answer = [session |-> n]], server')
  BY <1>3, <1>8, <1>9 DEF AnswerOK
<1>11. ASSUME NEW a \in Accounts \cup {None}, TaskOf(task[w], a, server, displaced)
       PROVE  TaskOf([task[w] EXCEPT !.answer = [session |-> n]], a, server', displaced)
  <2> DEFINE t == [task[w] EXCEPT !.answer = [session |-> n]]
  <2>1. task[w].arg = a
    BY <1>11 DEF TaskOf, OfAccount
  <2>2. ASSUME NEW i \in Sessions(server'), t.answer = [session |-> i]
        PROVE  server'.sessions[i].account = a
    <3>1. [session |-> i].session = [session |-> n].session
      BY <1>8, <2>2
    <3> QED
      BY <1>4, <2>1, <3>1
  <2>3. \A f \in Factor : t.answer # [factor |-> f]
    BY <1>8, AnswersDiffer
  <2>4. t.at \in {"register_finish", "login_finish", "verify", "recover"} /\ t.arg = a
    BY <1>8, <2>1
  <2> HIDE DEF t
  <2>5. TaskOf(t, a, server', displaced)
    BY <2>2, <2>3, <2>4 DEF TaskOf
  <2> QED
    BY <2>5 DEF t
<1>12. task[w].at \notin {"none", "build"}
  OBVIOUS
<1>13. server'.accounts \subseteq saved /\ Answer(w, [session |-> n])
  BY <1>3
<1> HIDE DEF n
<1> QED
  BY <1>6, <1>7, <1>10, <1>11, <1>12, <1>13, AnswerStep

\* register_finish makes the account and its session.
LEMMA ServeRegisterFinishKeeps ==
  ASSUME FlowInv, NEW w \in Slots, ServeRegisterFinish(w),
         UNCHANGED <<page, cookie, started, saved, confirmed, overtaken, displaced>>
  PROVE  FlowInv'
<1> DEFINE a == task[w].arg
<1>1. a \in saved /\ server.accounts \subseteq saved /\ task[w].at = "register_finish"
  BY DEF FlowInv, SavedInv, SecretSavedFirst, ServeRegisterFinish
<1>2. server = [accounts |-> server.accounts, sessions |-> server.sessions,
                factors |-> server.factors]
  BY DEF FlowInv, ServerOK
<1>3. /\ Len(server.sessions) < MaxSessions
      /\ server' = [accounts |-> server.accounts \cup {a}, factors |-> server.factors,
                    sessions |-> Append(server.sessions, [account |-> a, verified |-> FALSE])]
      /\ Answer(w, [session |-> Len(server.sessions) + 1])
  BY <1>2 DEF ServeRegisterFinish, NewSession, AddSession
<1> QED
  BY <1>1, <1>3, NewSessionStep

\* login_finish makes a session, or asks for the second factor.
LEMMA ServeLoginFinishKeeps ==
  ASSUME FlowInv, NEW w \in Slots, ServeLoginFinish(w),
         UNCHANGED <<page, cookie, started, saved, confirmed, overtaken, displaced>>
  PROVE  FlowInv'
<1> DEFINE a == task[w].arg
<1>1. server.accounts \subseteq saved /\ task[w].at = "login_finish"
  BY DEF FlowInv, SavedInv, SecretSavedFirst, ServeLoginFinish
<1>2. server = [accounts |-> server.accounts, sessions |-> server.sessions,
                factors |-> server.factors]
  BY DEF FlowInv, ServerOK
<1>3. CASE server.factors[a].active
  <2>1. Answer(w, [challenge |-> a]) /\ UNCHANGED server
    BY <1>3 DEF ServeLoginFinish
  <2>2. TaskOK(task[w], server) /\ ServerOK
    BY DEF FlowInv, TasksOK
  <2>3. Grows(server, server')
    BY <2>1 DEF FlowInv, ServerOK, Grows
  <2>4. ServerOK' /\ server'.accounts \subseteq saved
    BY <1>1, <2>1, <2>2 DEF ServerOK
  <2>5. LET t == [task[w] EXCEPT !.answer = [challenge |-> a]] IN
        /\ t.at = "login_finish" /\ t.arg = a /\ t.answer = [challenge |-> a]
    BY <1>1, <2>2 DEF TaskOK
  <2>6. AnswerOK([task[w] EXCEPT !.answer = [challenge |-> a]], server')
    BY <2>5 DEF AnswerOK
  <2>7. ASSUME NEW x \in Accounts \cup {None}, TaskOf(task[w], x, server, displaced)
        PROVE  TaskOf([task[w] EXCEPT !.answer = [challenge |-> a]], x, server', displaced)
    <3>1. a = x
      BY <1>1, <2>7 DEF TaskOf, OfAccount
    <3> QED
      BY <2>5, <3>1, AnswersDiffer DEF TaskOf
  <2>8. task[w].at \notin {"none", "build"}
    BY <1>1
  <2> QED
    BY <2>1, <2>3, <2>4, <2>6, <2>7, <2>8, AnswerStep
<1>4. CASE ~server.factors[a].active
  <2>1. /\ Len(server.sessions) < MaxSessions
        /\ server' = [accounts |-> server.accounts, factors |-> server.factors,
                      sessions |-> Append(server.sessions, [account |-> a, verified |-> FALSE])]
        /\ Answer(w, [session |-> Len(server.sessions) + 1])
    BY <1>2, <1>4 DEF ServeLoginFinish, NewSession, AddSession
  <2> QED
    BY <1>1, <2>1, NewSessionStep
<1> QED
  BY <1>3, <1>4

\* A TOTP or recovery code is accepted.
LEMMA ServeSecondFactorKeeps ==
  ASSUME FlowInv, NEW w \in Slots, ServeSecondFactor(w),
         UNCHANGED <<page, cookie, started, saved, confirmed, overtaken, displaced>>
  PROVE  FlowInv'
<1> DEFINE a == task[w].arg
           verified == task[w].at = "verify"
<1>1. /\ server.accounts \subseteq saved /\ task[w].at \in {"verify", "recover"}
      /\ verified \in BOOLEAN
  BY DEF FlowInv, SavedInv, SecretSavedFirst, ServeSecondFactor
<1>2. server = [accounts |-> server.accounts, sessions |-> server.sessions,
                factors |-> server.factors]
  BY DEF FlowInv, ServerOK
<1>3. /\ Len(server.sessions) < MaxSessions
      /\ server' = [accounts |-> server.accounts, factors |-> server.factors,
                    sessions |-> Append(server.sessions,
                                        [account |-> a, verified |-> verified])]
      /\ Answer(w, [session |-> Len(server.sessions) + 1])
  BY <1>2 DEF ServeSecondFactor, NewSession, AddSession
<1> HIDE DEF verified
<1> QED
  BY <1>1, <1>3, NewSessionStep

\* totp_enroll_start makes a pending factor.
LEMMA ServeEnrollStartKeeps ==
  ASSUME FlowInv, NEW w \in Slots, ServeEnrollStart(w),
         UNCHANGED <<page, cookie, started, saved, confirmed, overtaken, displaced>>
  PROVE  FlowInv'
<1> DEFINE a == SessionOf(task[w]).account
           n == server.factors[a].n + 1
           f == [account |-> a, n |-> n]
<1>1. /\ task[w].at = "enroll_start" /\ task[w].sent # None /\ task[w].arg = task[w].sent
      /\ n <= MaxFactors
      /\ server' = [server EXCEPT !.factors[a] = [n |-> n, active |-> FALSE]]
      /\ Answer(w, [factor |-> f])
  BY DEF ServeEnrollStart
<1>2. /\ server \in [accounts : SUBSET Accounts, sessions : Seq(Session),
                     factors : [Accounts -> [n : 0..MaxFactors, active : BOOLEAN]]]
      /\ Len(server.sessions) <= MaxSessions /\ server.accounts \subseteq saved
      /\ TaskOK(task[w], server)
  BY DEF FlowInv, ServerOK, TasksOK, SavedInv, SecretSavedFirst
<1>3. task[w].sent \in Sessions(server)
  BY <1>1, <1>2 DEF TaskOK
<1>4. a \in Accounts
  <2>1. server.sessions[task[w].sent] \in Session
    BY <1>2, <1>3 DEF Sessions
  <2> QED
    BY <2>1 DEF SessionOf, Session
<1>5. n \in 1..MaxFactors
  BY <1>1, <1>2, <1>4, Facts
<1>6. f \in Factor
  BY <1>4, <1>5 DEF Factor
<1>7. /\ server'.accounts = server.accounts /\ server'.sessions = server.sessions
      /\ server'.factors = [server.factors EXCEPT ![a] = [n |-> n, active |-> FALSE]]
  BY <1>1, <1>2
<1>8. server'.factors \in [Accounts -> [n : 0..MaxFactors, active : BOOLEAN]]
  <2> HIDE DEF a, n
  <2>1. [n |-> n, active |-> FALSE] \in [n : 0..MaxFactors, active : BOOLEAN]
    BY <1>5
  <2> QED
    BY <1>2, <2>1, <1>7
<1>9. ServerOK'
  <2>1. server' \in [accounts : SUBSET Accounts, sessions : Seq(Session),
                     factors : [Accounts -> [n : 0..MaxFactors, active : BOOLEAN]]]
    <3> HIDE DEF a, n
    <3>1. server' = [accounts |-> server'.accounts, sessions |-> server'.sessions,
                     factors |-> server'.factors]
      BY <1>1, <1>2
    <3> QED
      BY <1>2, <1>7, <1>8, <3>1
  <2> QED
    BY <1>2, <1>7, <2>1 DEF ServerOK
<1>10. Grows(server, server') /\ Sessions(server') = Sessions(server)
  BY <1>2, <1>7 DEF Grows, Sessions
<1>11. LET t == [task[w] EXCEPT !.answer = [factor |-> f]] IN
       t.at = "enroll_start" /\ t.arg = task[w].arg /\ t.answer = [factor |-> f]
  BY <1>1, <1>2 DEF TaskOK
<1> HIDE DEF f
<1>12. AnswerOK([task[w] EXCEPT !.answer = [factor |-> f]], server')
  BY <1>6, <1>11 DEF AnswerOK
<1>13. ASSUME NEW x \in Accounts \cup {None}, TaskOf(task[w], x, server, displaced)
       PROVE  TaskOf([task[w] EXCEPT !.answer = [factor |-> f]], x, server', displaced)
  <2> DEFINE t == [task[w] EXCEPT !.answer = [factor |-> f]]
  <2>1. ~displaced => server.sessions[task[w].arg].account = x
    BY <1>1, <1>13 DEF TaskOf
  <2>2. ~displaced => f.account = x
    BY <1>1, <2>1 DEF f, SessionOf
  <2>3. ASSUME NEW g \in Factor, t.answer = [factor |-> g]
        PROVE  ~displaced => g.account = x
    <3>1. [factor |-> g].factor = [factor |-> f].factor
      BY <1>11, <2>3
    <3> QED
      BY <2>2, <3>1
  <2>4. \A i \in Sessions(server') : t.answer # [session |-> i]
    BY <1>11, AnswersDiffer
  <2>5. t.at = "enroll_start" /\ (~displaced => server'.sessions[t.arg].account = x)
    BY <1>7, <1>11, <2>1
  <2> HIDE DEF t
  <2>6. TaskOf(t, x, server', displaced)
    BY <2>3, <2>4, <2>5 DEF TaskOf, OfAccount
  <2> QED
    BY <2>6 DEF t
<1>14. task[w].at \notin {"none", "build"} /\ server'.accounts \subseteq saved
  BY <1>1, <1>2, <1>7
<1> QED
  BY <1>1, <1>9, <1>10, <1>12, <1>13, <1>14, AnswerStep

\* totp_enroll_confirm activates it and upgrades the session.
LEMMA ServeConfirmKeeps ==
  ASSUME FlowInv, NEW w \in Slots, ServeConfirm(w),
         UNCHANGED <<page, cookie, started, saved, confirmed, overtaken, displaced>>
  PROVE  FlowInv'
<1> DEFINE f == task[w].arg.factor
           n == task[w].sent
<1>1. /\ task[w].at = "confirm" /\ n # None
      /\ SessionOf(task[w]) = [account |-> f.account, verified |-> FALSE]
      /\ server' = [server EXCEPT !.factors[f.account].active = TRUE,
                                  !.sessions[n].verified = TRUE]
      /\ Answer(w, [session |-> n])
  BY DEF ServeConfirm
<1>2. /\ server \in [accounts : SUBSET Accounts, sessions : Seq(Session),
                     factors : [Accounts -> [n : 0..MaxFactors, active : BOOLEAN]]]
      /\ Len(server.sessions) <= MaxSessions /\ server.accounts \subseteq saved
      /\ TaskOK(task[w], server)
  BY DEF FlowInv, ServerOK, TasksOK, SavedInv, SecretSavedFirst
<1>3. n \in 1..Len(server.sessions) /\ f \in Factor
  BY <1>1, <1>2 DEF TaskOK, Sessions
<1>4. f.account \in Accounts
  BY <1>3 DEF Factor
<1> HIDE DEF f, n
<1>5. /\ server'.accounts = server.accounts
      /\ server'.sessions = [server.sessions EXCEPT ![n].verified = TRUE]
      /\ server'.factors = [server.factors EXCEPT ![f.account].active = TRUE]
      /\ server' = [accounts |-> server'.accounts, sessions |-> server'.sessions,
                    factors |-> server'.factors]
  BY <1>1, <1>2
<1>6. server'.factors \in [Accounts -> [n : 0..MaxFactors, active : BOOLEAN]]
  <2> DEFINE row == [server.factors[f.account] EXCEPT !.active = TRUE]
  <2>1. row \in [n : 0..MaxFactors, active : BOOLEAN]
    BY <1>2, <1>4
  <2>2. server'.factors = [server.factors EXCEPT ![f.account] = row]
    BY <1>5
  <2> HIDE DEF row
  <2> QED
    BY <1>2, <2>1, <2>2
<1>7. /\ server'.sessions \in Seq(Session) /\ Len(server'.sessions) = Len(server.sessions)
      /\ \A i \in 1..Len(server.sessions) :
           server'.sessions[i].account = server.sessions[i].account
  <2>1. [server.sessions[n] EXCEPT !.verified = TRUE] \in Session
    <3>1. server.sessions[n] \in Session
      BY <1>2, <1>3
    <3> QED
      BY <3>1 DEF Session
  <2>2. server'.sessions =
         [server.sessions EXCEPT ![n] = [server.sessions[n] EXCEPT !.verified = TRUE]]
    BY <1>5
  <2>3. server'.sessions \in Seq(Session) /\ Len(server'.sessions) = Len(server.sessions)
    BY <1>2, <1>3, <2>1, <2>2
  <2>4. [server.sessions[n] EXCEPT !.verified = TRUE].account = server.sessions[n].account
    BY <1>2, <1>3 DEF Session
  <2>5. \A i \in 1..Len(server.sessions) :
           server'.sessions[i].account = server.sessions[i].account
    BY <1>2, <2>2, <2>4
  <2> QED
    BY <2>3, <2>5
<1>8. ServerOK'
  <2>1. server' \in [accounts : SUBSET Accounts, sessions : Seq(Session),
                     factors : [Accounts -> [n : 0..MaxFactors, active : BOOLEAN]]]
    BY <1>2, <1>5, <1>6, <1>7
  <2> QED
    BY <1>2, <1>7, <2>1 DEF ServerOK
<1>9. Grows(server, server') /\ Sessions(server') = Sessions(server)
  BY <1>2, <1>5, <1>7 DEF Grows, Sessions
<1>10. LET t == [task[w] EXCEPT !.answer = [session |-> n]] IN
       t.at = "confirm" /\ t.arg = task[w].arg /\ t.answer = [session |-> n]
  BY <1>1, <1>2 DEF TaskOK
<1>11. AnswerOK([task[w] EXCEPT !.answer = [session |-> n]], server')
  BY <1>3, <1>9, <1>10 DEF AnswerOK, Sessions
<1>12. ASSUME NEW x \in Accounts \cup {None}, TaskOf(task[w], x, server, displaced)
       PROVE  TaskOf([task[w] EXCEPT !.answer = [session |-> n]], x, server', displaced)
  <2> DEFINE t == [task[w] EXCEPT !.answer = [session |-> n]]
  <2>1. ~displaced => f.account = x
    BY <1>1, <1>12 DEF TaskOf, f
  <2>2. ~displaced => server.sessions[n].account = x
    BY <1>1, <2>1 DEF SessionOf, n
  <2>3. ASSUME NEW i \in Sessions(server'), t.answer = [session |-> i]
        PROVE  ~displaced => server'.sessions[i].account = x
    <3>1. [session |-> i].session = [session |-> n].session
      BY <1>10, <2>3
    <3> QED
      BY <1>3, <1>7, <2>2, <3>1
  <2>4. \A g \in Factor : t.answer # [factor |-> g]
    BY <1>10, AnswersDiffer
  <2>5. t.at = "confirm" /\ (~displaced => t.arg.factor.account = x)
    BY <1>10, <2>1 DEF f
  <2> HIDE DEF t
  <2>6. TaskOf(t, x, server', displaced)
    BY <2>3, <2>4, <2>5 DEF TaskOf, OfAccount
  <2> QED
    BY <2>6 DEF t
<1>13. task[w].at \notin {"none", "build"} /\ server'.accounts \subseteq saved
  BY <1>1, <1>2, <1>5
<1> QED
  BY <1>1, <1>8, <1>9, <1>11, <1>12, <1>13, AnswerStep

\* Whatever the server serves keeps the invariant.
LEMMA ServeKeeps ==
  ASSUME FlowInv, NEW w \in Slots, Serve(w)
  PROVE  FlowInv'
<1>1. UNCHANGED <<page, cookie, started, saved, confirmed, overtaken, displaced>>
  BY DEF Serve
<1> QED
  BY <1>1, ServeRegisterFinishKeeps, ServeLoginFinishKeeps, ServeSecondFactorKeeps,
     ServeEnrollStartKeeps, ServeConfirmKeeps DEF Serve


-----------------------------------------------------------------------------
(***************************************************************************)
(* What the page does.                                                     *)
(***************************************************************************)

\* An idle function holds nothing.
LEMMA IdleTask ==
  ASSUME NEW s, NEW a, NEW d
  PROVE  TaskOK(Idle, s) /\ TaskOf(Idle, a, s, d)
  BY DEF TaskOK, TaskOf, Idle, Steps, AnswerOK, OfAccount

\* Which function is at an await.
LEMMA FnOf ==
  ASSUME NEW t, NEW s, TaskOK(t, s)
  PROVE  /\ t.at = "none" <=> t.fn = "idle"
         /\ t.at = "build" <=> t.fn = "register"
         /\ t.at \in {"prove", "login_finish"} => t.fn = "login"
         /\ t.at = "register_finish" => t.fn = "continue"
         /\ t.at = "verify" => t.fn = "verify"
         /\ t.at = "recover" => t.fn = "recover"
         /\ t.at = "confirm" => t.fn = "confirm"
         /\ t.at \in {"session", "unlock", "sync"} => t.fn \in {"verify", "confirm"}
         /\ t.at \in {"csrf", "enroll_start"} => t.fn \in {"login", "continue", "recover"}
  BY DEF TaskOK, Steps

\* The parts of TypeOK about the page's panels, and what a step leaves alone.
PanelsOK ==
  /\ page.continueOn => page.ticked
  /\ page.totpPanel => page.factor # None
  /\ page.finished => page.payload = None \/ overtaken

SecretStays ==
  /\ page'.shown = page.shown /\ page'.ticked = page.ticked
  /\ page'.payload = page.payload /\ page'.finished = page.finished

ControlsStay ==
  /\ page'.registerOn = page.registerOn /\ page'.loginOn = page.loginOn
  /\ page'.mfaPanel = page.mfaPanel /\ page'.mfaOn = page.mfaOn
  /\ page'.totpPanel = page.totpPanel /\ page'.totpOn = page.totpOn
  /\ page'.continueOn = page.continueOn /\ page'.factor = page.factor

\* A step of a function that shows no other secret.
LEMMA ClientStep ==
  ASSUME FlowInv, NEW w \in Slots, NEW t, Becomes(w, t),
         UNCHANGED <<server, started, saved, overtaken, displaced>>,
         page' \in Page, cookie' \in Sessions(server) \cup {None},
         page'.shown = page.shown, page'.payload \in {None, page.payload},
         page'.ticked = page.ticked,
         PanelsOK',
         TaskOK(t, server), ControlsInv',
         t.at \notin {"build", "prove"},
         t.at = "register_finish" => t.arg \in saved /\ t.arg = page.shown,
         task[w] = Idle => page.finished \/ Held \cup Enrolling # {},
         ~overtaken => \A a \in Accounts \cup {None} :
           PageOf(a) /\ TaskOf(task[w], a, server, displaced)
             => PageOf(a)' /\ TaskOf(t, a, server, displaced)
  PROVE  FlowInv'
<1>1. /\ Grows(server, server')
      /\ server'.accounts \subseteq saved
  BY DEF FlowInv, ServerOK, Grows, SavedInv, SecretSavedFirst
<1>2. ServerOK'
  BY DEF FlowInv, ServerOK
<1>3. TasksOK'
  BY <1>1, TasksStep
<1>4. SavedInv'
  BY <1>1, SavedStep
<1>5. OneAccountInv'
  BY <1>1, OneAccountStep
<1>6. TypeOK'
  BY DEF FlowInv, TypeOK, Sessions, PanelsOK
<1> QED
  BY <1>2, <1>3, <1>4, <1>5, <1>6 DEF FlowInv

\* submitRegistration shows the secret it has built.
LEMMA ResumeRegisterKeeps ==
  ASSUME FlowInv, NEW w \in Slots, ResumeRegister(w),
         UNCHANGED <<server, started, saved, overtaken, displaced>>
  PROVE  FlowInv'
<1> DEFINE a == task[w].arg
<1>1. /\ task[w].at = "build" /\ Becomes(w, Idle) /\ UNCHANGED <<cookie, confirmed>>
      /\ page' = [page EXCEPT !.shown = a, !.ticked = FALSE, !.continueOn = FALSE,
                              !.key = a, !.payload = a, !.registerOn = TRUE]
  BY DEF ResumeRegister, Stop, Becomes
<1>2. /\ page \in Page /\ TaskOK(task[w], server) /\ a \in Accounts /\ a \in started
      /\ task[w].fn = "register"
  BY <1>1 DEF FlowInv, TypeOK, TasksOK, TaskOK, OfAccount, SavedInv, Steps
<1>3. /\ page'.shown = a /\ page'.ticked = FALSE /\ page'.continueOn = FALSE
      /\ page'.key = a /\ page'.payload = a /\ page'.registerOn = TRUE
      /\ page'.loginOn = page.loginOn /\ page'.mfaPanel = page.mfaPanel
      /\ page'.mfaOn = page.mfaOn /\ page'.totpOn = page.totpOn
      /\ page'.factor = page.factor /\ page'.finished = page.finished
      /\ page'.challenge = page.challenge /\ page'.vault = page.vault
      /\ page'.totpPanel = page.totpPanel
  BY <1>1, <1>2 DEF Page
<1>4. page' \in Page
  BY <1>1, <1>2 DEF Page
<1>5. /\ Grows(server, server') /\ ServerOK'
  BY DEF FlowInv, ServerOK, Grows
<1>6. TasksOK'
  BY <1>1, <1>5, IdleTask, TasksStep
<1>7. SavedInv'
  <2>1. \A x \in Slots : task'[x] = task[x] \/ task'[x] = Idle
    BY <1>1, TaskStep
  <2> QED
    BY <1>2, <1>3, <2>1 DEF FlowInv, SavedInv, SecretSavedFirst, Idle
<1>8. ControlsInv'
  BY <1>1, <1>2, <1>3, <1>4, ControlsEnd
<1>9. ~overtaken => Alone(w)
  BY <1>1 DEF FlowInv, OneAccountInv
<1>10. OneAccountInv'
  <2>1. ASSUME ~overtaken, NEW x \in Accounts \cup {None},
               PageOf(x), TaskOf(task[w], x, server, displaced)
        PROVE  PageOf(x)'
    <3>1. x = a
      BY <1>1, <2>1 DEF TaskOf, OfAccount
    <3>2. OnPage' \subseteq {x}
      BY <1>3, <2>1, <3>1 DEF PageOf, OnPage, Held, Enrolling
    <3> QED
      BY <1>3, <1>9, <2>1, <3>2 DEF PageOf, Alone
  <2>2. task[w] # Idle /\ Idle.at = "none"
    BY <1>1 DEF Idle
  <2> QED
    BY <1>1, <1>5, <2>1, <2>2, IdleTask, OneAccountStep
<1>11. TypeOK'
  BY <1>1, <1>2, <1>3, <1>4, <1>9 DEF FlowInv, TypeOK, Alone
<1> QED
  BY <1>5, <1>6, <1>7, <1>8, <1>10, <1>11 DEF FlowInv

\* submitLogin sends its proof.
LEMMA ResumeProofKeeps ==
  ASSUME FlowInv, NEW w \in Slots, ResumeProof(w),
         UNCHANGED <<server, started, saved, overtaken, displaced>>
  PROVE  FlowInv'
<1> DEFINE a == task[w].arg
           t == [fn |-> "login", at |-> "login_finish", arg |-> a, sent |-> cookie,
                 answer |-> None]
<1>1. /\ task[w].at = "prove" /\ Becomes(w, t) /\ UNCHANGED <<cookie, confirmed>>
      /\ page' = [page EXCEPT !.key = a]
  BY DEF ResumeProof, Send, Becomes
<1>2. /\ page \in Page /\ TaskOK(task[w], server) /\ a \in Accounts
      /\ task[w].fn = "login" /\ cookie \in Sessions(server) \cup {None}
  <2>1. page \in Page /\ TaskOK(task[w], server) /\ cookie \in Sessions(server) \cup {None}
    BY DEF FlowInv, TypeOK, TasksOK, Sessions
  <2> QED
    BY <1>1, <2>1, FnOf DEF TaskOK, OfAccount
<1>3. /\ page' \in Page
      /\ SecretStays /\ ControlsStay /\ page'.key = a
      /\ page'.challenge = page.challenge /\ page'.vault = page.vault
  BY <1>1, <1>2 DEF Page, SecretStays, ControlsStay
<1>4. TaskOK(t, server)
  BY <1>2 DEF TaskOK, Steps, OfAccount, AnswerOK
<1>5. ControlsInv'
  BY <1>1, <1>2, <1>3, ControlsGoOn DEF SecretStays, ControlsStay
<1>6. ASSUME NEW x \in Accounts \cup {None}, PageOf(x), TaskOf(task[w], x, server, displaced)
      PROVE  PageOf(x)' /\ TaskOf(t, x, server, displaced)
  <2>1. x = a
    BY <1>1, <1>6 DEF TaskOf, OfAccount
  <2>2. OnPage' \subseteq {x}
    BY <1>3, <1>6, <2>1 DEF PageOf, OnPage, Held, Enrolling, SecretStays, ControlsStay
  <2> QED
    BY <1>1, <1>3, <1>6, <2>1, <2>2 DEF PageOf, TaskOf, OfAccount, SecretStays
<1>7. task[w] # Idle
  BY <1>1 DEF Idle
<1>8. PanelsOK'
  BY <1>3 DEF FlowInv, TypeOK, PanelsOK, SecretStays, ControlsStay
<1> QED
  BY <1>1, <1>2, <1>3, <1>4, <1>5, <1>6, <1>7, <1>8, ClientStep DEF SecretStays

\* submitLogin shows the second factor form.
LEMMA ResumeMfaRequiredKeeps ==
  ASSUME FlowInv, NEW w \in Slots, ResumeMfaRequired(w),
         UNCHANGED <<server, started, saved, overtaken, displaced>>
  PROVE  FlowInv'
<1> DEFINE a == task[w].arg
<1>1. /\ task[w].at = "login_finish" /\ Becomes(w, Idle) /\ UNCHANGED <<cookie, confirmed>>
      /\ page' = [page EXCEPT !.challenge = task[w].answer.challenge, !.mfaPanel = TRUE,
                              !.loginOn = TRUE]
      /\ task[w].answer # None /\ "challenge" \in DOMAIN task[w].answer
  BY DEF ResumeMfaRequired, Stop, Becomes, Answered
<1>2. /\ page \in Page /\ TaskOK(task[w], server) /\ a \in Accounts
      /\ task[w].fn = "login" /\ cookie \in Sessions(server) \cup {None}
  <2>1. page \in Page /\ TaskOK(task[w], server) /\ cookie \in Sessions(server) \cup {None}
    BY DEF FlowInv, TypeOK, TasksOK, Sessions
  <2> QED
    BY <1>1, <2>1, FnOf DEF TaskOK, OfAccount
<1>3. task[w].answer.challenge = a
  <2>1. ASSUME NEW i, task[w].answer = [session |-> i] PROVE FALSE
    <3>1. DOMAIN [session |-> i] = {"session"}
      OBVIOUS
    <3> QED
      BY <1>1, <2>1, <3>1
  <2>2. AnswerOK(task[w], server)
    BY <1>2 DEF TaskOK
  <2>3. task[w].answer = [challenge |-> a]
    BY <1>1, <2>1, <2>2 DEF AnswerOK
  <2> QED
    BY <2>3
<1>4. /\ page' \in Page /\ SecretStays
      /\ page'.challenge = a /\ page'.mfaPanel = TRUE /\ page'.loginOn = TRUE
      /\ page'.registerOn = page.registerOn /\ page'.mfaOn = page.mfaOn
      /\ page'.totpPanel = page.totpPanel /\ page'.totpOn = page.totpOn
      /\ page'.continueOn = page.continueOn /\ page'.factor = page.factor
      /\ page'.key = page.key /\ page'.vault = page.vault
  <2> HIDE DEF a
  <2>1. page' = [page EXCEPT !.challenge = a, !.mfaPanel = TRUE, !.loginOn = TRUE]
    BY <1>1, <1>3
  <2> QED
    BY <1>2, <2>1 DEF Page, SecretStays
<1>5. page.mfaOn
  BY <1>1 DEF FlowInv, ControlsInv
<1>6. ControlsInv'
  BY <1>1, <1>2, <1>4, <1>5, ControlsEnd DEF SecretStays
<1>7. ASSUME NEW x \in Accounts \cup {None}, PageOf(x), TaskOf(task[w], x, server, displaced)
      PROVE  PageOf(x)'
  <2>1. x = a
    BY <1>1, <1>7 DEF TaskOf, OfAccount
  <2>2. OnPage' \subseteq {x}
    BY <1>4, <1>7, <2>1 DEF PageOf, OnPage, Held, Enrolling, SecretStays
  <2> QED
    BY <1>1, <1>4, <1>7, <2>2 DEF PageOf, SecretStays
<1>8. task[w] # Idle /\ Idle.at = "none"
  BY <1>1 DEF Idle
<1>9. PanelsOK'
  BY <1>4 DEF FlowInv, TypeOK, PanelsOK, SecretStays
<1> QED
  BY <1>1, <1>2, <1>4, <1>6, <1>7, <1>8, <1>9, IdleTask, ClientStep
     DEF SecretStays

\* The new session, and what the page notes of it.
LEMMA ResumeSessionKeeps ==
  ASSUME FlowInv, NEW w \in Slots, ResumeSession(w),
         UNCHANGED <<server, started, saved, overtaken, displaced>>
  PROVE  FlowInv'
<1> DEFINE at == task[w].at
           jar == task[w].answer.session
           t == [fn |-> task[w].fn,
                 at |-> IF at \in {"verify", "confirm"} THEN "session" ELSE "csrf",
                 arg |-> None, sent |-> jar, answer |-> None]
<1>1. /\ at \in {"register_finish", "login_finish", "verify", "recover", "confirm"}
      /\ task[w].answer # None /\ "session" \in DOMAIN task[w].answer
      /\ cookie' = jar /\ UNCHANGED confirmed
      /\ Becomes(w, t)
  BY DEF ResumeSession, Answered, Send, Becomes
<1>2. /\ page \in Page /\ TaskOK(task[w], server)
  BY DEF FlowInv, TypeOK, TasksOK
<1>3. PICK i \in Sessions(server) : task[w].answer = [session |-> i]
  <2>1. DOMAIN [challenge |-> task[w].arg] = {"challenge"}
    OBVIOUS
  <2>2. task[w].answer # [challenge |-> task[w].arg]
    BY <1>1, <2>1
  <2> QED
    BY <1>1, <1>2, <2>2 DEF TaskOK, AnswerOK
<1>4. /\ jar = i
      /\ at = "register_finish" => task[w].arg \in server.accounts
  BY <1>1, <1>2, <1>3, AnswersDiffer DEF TaskOK, AnswerOK
<1>5. /\ page' \in Page
      /\ page'.mfaPanel => page.mfaPanel /\ at # "recover"
      /\ page'.shown = page.shown /\ page'.ticked = page.ticked
      /\ page'.key = page.key /\ page'.vault = page.vault
      /\ page'.challenge \in {None, page.challenge}
      /\ page'.registerOn = page.registerOn /\ page'.loginOn = page.loginOn
      /\ page'.mfaOn = page.mfaOn
      /\ page'.totpPanel = page.totpPanel /\ page'.totpOn = page.totpOn
      /\ page'.continueOn = page.continueOn /\ page'.factor = page.factor
      /\ \/ page'.payload = page.payload /\ page'.finished = page.finished
         \/ page'.payload = None /\ at = "register_finish"
  <2>1. CASE at = "register_finish"
    <3>1. page' = [page EXCEPT !.finished = TRUE, !.payload = None]
      BY <2>1 DEF ResumeSession
    <3> QED
      BY <1>2, <2>1, <3>1 DEF Page
  <2>2. CASE at = "verify"
    <3>1. page' = [page EXCEPT !.challenge = None]
      BY <2>2 DEF ResumeSession
    <3> QED
      BY <1>2, <2>2, <3>1 DEF Page
  <2>3. CASE at = "recover"
    <3>1. page' = [page EXCEPT !.challenge = None, !.mfaPanel = FALSE]
      BY <2>3 DEF ResumeSession
    <3> QED
      BY <1>2, <2>3, <3>1 DEF Page
  <2>4. CASE at \in {"login_finish", "confirm"}
    <3>1. page' = page
      BY <2>4 DEF ResumeSession
    <3> QED
      BY <1>2, <2>4, <3>1
  <2> QED
    BY <1>1, <2>1, <2>2, <2>3, <2>4
<1> DEFINE at2 == IF at \in {"verify", "confirm"} THEN "session" ELSE "csrf"
<1>6. TaskOK(t, server)
  <2>1. at2 \in Steps[task[w].fn] /\ task[w].fn \in DOMAIN Steps /\ task[w].fn # "idle"
    BY <1>1, <1>2, FnOf DEF Steps, TaskOK
  <2>2. at2 \in {"session", "csrf"}
    OBVIOUS
  <2>3. t = [fn |-> task[w].fn, at |-> at2, arg |-> None, sent |-> i, answer |-> None]
    BY <1>4
  <2> HIDE DEF at2, t
  <2>4. /\ t.fn = task[w].fn /\ t.at = at2 /\ t.arg = None /\ t.sent = i /\ t.answer = None
        /\ t = [fn |-> t.fn, at |-> t.at, arg |-> t.arg, sent |-> t.sent, answer |-> t.answer]
    BY <2>3
  <2> QED
    BY <2>1, <2>2, <2>4 DEF TaskOK, OfAccount, AnswerOK
<1>7. /\ t.fn = task[w].fn /\ t.at \in {"session", "csrf"} /\ t.sent = i /\ t.answer = None
  BY <1>4
<1> HIDE DEF t, at2
<1>8. ControlsInv'
  BY <1>1, <1>2, <1>5, <1>7, ControlsGoOn
<1>9. ASSUME ~overtaken, NEW x \in Accounts \cup {None}, PageOf(x),
             TaskOf(task[w], x, server, displaced)
      PROVE  PageOf(x)' /\ TaskOf(t, x, server, displaced)
  <2>1. ~displaced => server.sessions[i].account = x
    BY <1>1, <1>3, <1>9 DEF TaskOf
  <2>2. OnPage' \subseteq {x}
    BY <1>5, <1>9 DEF PageOf, OnPage, Held, Enrolling
  <2>3. at = "register_finish" => page.shown = x /\ x \in server.accounts
    BY <1>4, <1>9 DEF TaskOf, OfAccount, FlowInv, OneAccountInv
  <2>4. page'.finished => page.shown = x /\ x \in server.accounts
    BY <1>5, <1>9, <2>3 DEF PageOf
  <2>5. i # None
    BY Facts DEF Sessions
  <2>6. PageOf(x)'
    BY <1>1, <1>4, <1>5, <2>1, <2>2, <2>4, <2>5 DEF PageOf
  <2> QED
    BY <1>7, <2>1, <2>6 DEF TaskOf, OfAccount
<1>10. task[w] # Idle
  BY <1>1 DEF Idle
<1>11. PanelsOK'
  BY <1>5 DEF FlowInv, TypeOK, PanelsOK
<1>12. page'.payload \in {None, page.payload} /\ cookie' \in Sessions(server) \cup {None}
  BY <1>1, <1>4, <1>5
<1> QED
  BY <1>1, <1>5, <1>6, <1>7, <1>8, <1>9, <1>10, <1>11, <1>12, ClientStep

\* A CSRF token in hand, an enrollment is asked for.
LEMMA ResumeCsrfKeeps ==
  ASSUME FlowInv, NEW w \in Slots, ResumeCsrf(w),
         UNCHANGED <<server, started, saved, overtaken, displaced>>
  PROVE  FlowInv'
<1> DEFINE t == [fn |-> task[w].fn, at |-> "enroll_start", arg |-> task[w].sent,
                 sent |-> cookie, answer |-> None]
<1>1. /\ task[w].at = "csrf" /\ task[w].sent # None /\ Becomes(w, t)
      /\ UNCHANGED <<cookie, confirmed>>
      /\ page' = [page EXCEPT !.csrf = task[w].sent]
  BY DEF ResumeCsrf, Send, Becomes
<1>2. /\ page \in Page /\ TaskOK(task[w], server) /\ cookie \in Sessions(server) \cup {None}
  BY DEF FlowInv, TypeOK, TasksOK, Sessions
<1>3. task[w].sent \in Sessions(server) /\ task[w].sent \in 1..MaxSessions
  <2>1. task[w].sent \in Sessions(server)
    BY <1>1, <1>2 DEF TaskOK
  <2>2. Len(server.sessions) <= MaxSessions /\ Len(server.sessions) \in Nat
    BY DEF FlowInv, ServerOK
  <2> QED
    BY <2>1, <2>2, Facts DEF Sessions
<1>4. /\ page' \in Page /\ SecretStays /\ ControlsStay
      /\ page'.challenge = page.challenge /\ page'.vault = page.vault
      /\ page'.key = page.key
  BY <1>1, <1>2, <1>3 DEF Page, SecretStays, ControlsStay
<1>5. TaskOK(t, server)
  <2>1. "enroll_start" \in Steps[task[w].fn] /\ task[w].fn \in DOMAIN Steps
        /\ task[w].fn # "idle"
    BY <1>1, <1>2, FnOf DEF Steps, TaskOK
  <2> QED
    BY <1>2, <1>3, <2>1 DEF TaskOK, OfAccount, AnswerOK
<1>6. ControlsInv'
  BY <1>1, <1>2, <1>4, ControlsGoOn DEF SecretStays, ControlsStay
<1>7. ASSUME NEW x \in Accounts \cup {None}, PageOf(x), TaskOf(task[w], x, server, displaced)
      PROVE  PageOf(x)' /\ TaskOf(t, x, server, displaced)
  <2>1. OnPage' \subseteq {x}
    BY <1>4, <1>7 DEF PageOf, OnPage, Held, Enrolling, SecretStays, ControlsStay
  <2> QED
    BY <1>1, <1>4, <1>7, <2>1 DEF PageOf, TaskOf, OfAccount, SecretStays
<1>8. task[w] # Idle
  BY <1>1 DEF Idle
<1>9. PanelsOK'
  BY <1>4 DEF FlowInv, TypeOK, PanelsOK, SecretStays, ControlsStay
<1> QED
  BY <1>1, <1>2, <1>4, <1>5, <1>6, <1>7, <1>8, <1>9, ClientStep DEF SecretStays

\* What every function under way finds.
LEMMA AtStep ==
  ASSUME FlowInv, NEW w \in Slots
  PROVE  /\ page \in Page /\ TaskOK(task[w], server)
         /\ cookie \in Sessions(server) \cup {None}
  BY DEF FlowInv, TypeOK, TasksOK, Sessions

\* The pending factor is displayed, and the function ends.
LEMMA ResumeEnrollStartKeeps ==
  ASSUME FlowInv, NEW w \in Slots, ResumeEnrollStart(w),
         UNCHANGED <<server, started, saved, overtaken, displaced>>
  PROVE  FlowInv'
<1> DEFINE shown == [page EXCEPT !.factor = task[w].answer.factor, !.totpPanel = TRUE]
<1>1. /\ task[w].at = "enroll_start" /\ task[w].answer # None /\ Becomes(w, Idle)
      /\ UNCHANGED <<cookie, confirmed>>
      /\ page' = CASE task[w].fn = "login"    -> [shown EXCEPT !.loginOn = TRUE]
                   [] task[w].fn = "continue" -> [shown EXCEPT !.continueOn = FALSE]
                   [] OTHER -> shown
  BY DEF ResumeEnrollStart, Stop, Becomes
<1>2. /\ page \in Page /\ TaskOK(task[w], server) /\ cookie \in Sessions(server) \cup {None}
      /\ task[w].fn \in {"login", "continue", "recover"}
  BY <1>1, AtStep, FnOf
<1>3. PICK f \in Factor : task[w].answer = [factor |-> f]
  BY <1>1, <1>2 DEF TaskOK, AnswerOK
<1>4. task[w].answer.factor = f /\ f # None
  BY <1>3, Facts
<1>5. /\ page' \in Page /\ SecretStays
      /\ page'.factor = f /\ page'.totpPanel = TRUE
      /\ page'.loginOn <=> page.loginOn \/ task[w].fn = "login"
      /\ page'.registerOn = page.registerOn /\ page'.mfaPanel = page.mfaPanel
      /\ page'.mfaOn = page.mfaOn /\ page'.totpOn = page.totpOn
      /\ page'.continueOn => page.continueOn
      /\ page'.challenge = page.challenge /\ page'.vault = page.vault
      /\ page'.key = page.key
  <2>1. CASE task[w].fn = "login"
    <3>1. page' = [page EXCEPT !.factor = f, !.totpPanel = TRUE, !.loginOn = TRUE]
      BY <1>1, <1>2, <1>4, <2>1
    <3> QED
      BY <1>2, <2>1, <3>1 DEF Page, SecretStays
  <2>2. CASE task[w].fn = "continue"
    <3>1. page' = [page EXCEPT !.factor = f, !.totpPanel = TRUE, !.continueOn = FALSE]
      BY <1>1, <1>2, <1>4, <2>2
    <3> QED
      BY <1>2, <2>2, <3>1 DEF Page, SecretStays
  <2>3. CASE task[w].fn = "recover"
    <3>1. page' = [page EXCEPT !.factor = f, !.totpPanel = TRUE]
      BY <1>1, <1>2, <1>4, <2>3
    <3> QED
      BY <1>2, <2>3, <3>1 DEF Page, SecretStays
  <2> QED
    BY <1>2, <2>1, <2>2, <2>3
<1>6. ControlsInv'
  BY <1>1, <1>2, <1>4, <1>5, ControlsEnd DEF SecretStays
<1>7. ASSUME NEW x \in Accounts \cup {None}, PageOf(x), TaskOf(task[w], x, server, displaced)
      PROVE  PageOf(x)'
  <2>1. ~displaced => f.account = x
    BY <1>1, <1>3, <1>7 DEF TaskOf
  <2>2. OnPage' \subseteq {x}
    BY <1>4, <1>5, <1>7, <2>1 DEF PageOf, OnPage, Held, Enrolling, SecretStays
  <2> QED
    BY <1>1, <1>5, <1>7, <2>2 DEF PageOf, SecretStays
<1>8. task[w] # Idle /\ Idle.at = "none"
  BY <1>1 DEF Idle
<1>9. PanelsOK'
  BY <1>4, <1>5 DEF FlowInv, TypeOK, PanelsOK, SecretStays
<1> QED
  BY <1>1, <1>2, <1>5, <1>6, <1>7, <1>8, <1>9, IdleTask, ClientStep DEF SecretStays

\* Second factor or enrollment done, the function ends.
LEMMA CompletedKeeps ==
  ASSUME FlowInv, NEW w \in Slots, task[w].at \in {"session", "sync"}, Completed(w, page),
         UNCHANGED <<cookie, server, started, saved, overtaken, displaced>>
  PROVE  FlowInv'
<1>1. /\ Becomes(w, Idle) /\ confirmed' = (confirmed \/ task[w].fn = "confirm")
      /\ page' = IF task[w].fn = "verify" THEN [page EXCEPT !.mfaPanel = FALSE]
                                          ELSE [page EXCEPT !.totpOn = FALSE]
  BY DEF Completed, Stop, Becomes
<1>2. /\ page \in Page /\ TaskOK(task[w], server) /\ cookie \in Sessions(server) \cup {None}
      /\ task[w].fn \in {"verify", "confirm"} /\ task[w].at # "recover"
  BY AtStep, FnOf
<1>3. /\ page' \in Page /\ SecretStays
      /\ page'.factor = page.factor /\ page'.totpPanel = page.totpPanel
      /\ page'.loginOn = page.loginOn /\ page'.registerOn = page.registerOn
      /\ page'.mfaPanel => page.mfaPanel /\ task[w].fn = "confirm"
      /\ page'.mfaOn = page.mfaOn
      /\ ~page'.totpOn => task[w].fn = "confirm" \/ ~page.totpOn
      /\ page'.continueOn = page.continueOn
      /\ page'.challenge = page.challenge /\ page'.vault = page.vault
      /\ page'.key = page.key
  <2>1. CASE task[w].fn = "verify"
    <3>1. page' = [page EXCEPT !.mfaPanel = FALSE]
      BY <1>1, <2>1
    <3> QED
      BY <1>2, <2>1, <3>1 DEF Page, SecretStays
  <2>2. CASE task[w].fn = "confirm"
    <3>1. page' = [page EXCEPT !.totpOn = FALSE]
      BY <1>1, <2>2
    <3> QED
      BY <1>2, <2>2, <3>1 DEF Page, SecretStays
  <2> QED
    BY <1>2, <2>1, <2>2
<1>4. confirmed => confirmed'
  BY <1>1
<1>5. ~page'.totpOn => confirmed' \/ (~page.totpOn /\ task[w].fn # "confirm")
  BY <1>1, <1>3
<1>6. ControlsInv'
  <2>1. page.mfaOn => page'.mfaOn
    BY <1>3
  <2>2. page'.ticked /\ ~page'.continueOn =>
           page'.factor # None
           \/ (page.ticked /\ ~page.continueOn /\ page.factor = None /\ task[w].fn # "continue")
    BY <1>2, <1>3 DEF SecretStays
  <2> QED
    BY <1>1, <1>2, <1>3, <1>4, <1>5, <2>1, <2>2, ControlsEnd
<1>7. ASSUME NEW x \in Accounts \cup {None}, PageOf(x), TaskOf(task[w], x, server, displaced)
      PROVE  PageOf(x)'
  <2>1. OnPage' \subseteq {x}
    BY <1>3, <1>7 DEF PageOf, OnPage, Held, Enrolling, SecretStays
  <2> QED
    BY <1>3, <1>7, <2>1 DEF PageOf, SecretStays
<1>8. task[w] # Idle /\ Idle.at = "none"
  BY DEF Idle
<1>9. PanelsOK'
  BY <1>3 DEF FlowInv, TypeOK, PanelsOK, SecretStays
<1> QED
  BY <1>1, <1>2, <1>3, <1>6, <1>7, <1>8, <1>9, IdleTask, ClientStep DEF SecretStays

\* unlockVaultFromPendingKey takes the key.
LEMMA TakeKeyKeeps ==
  ASSUME FlowInv, NEW w \in Slots, task[w].at = "session", page.key # None,
         page' = [page EXCEPT !.key = None],
         Send(w, task[w].fn, "unlock", page.key, cookie),
         UNCHANGED <<cookie, confirmed, server, started, saved, overtaken, displaced>>
  PROVE  FlowInv'
<1> DEFINE t == [fn |-> task[w].fn, at |-> "unlock", arg |-> page.key, sent |-> cookie,
                 answer |-> None]
<1>1. Becomes(w, t)
  BY DEF Send, Becomes
<1>2. /\ page \in Page /\ TaskOK(task[w], server) /\ cookie \in Sessions(server) \cup {None}
      /\ task[w].fn \in {"verify", "confirm"}
  BY AtStep, FnOf
<1>3. /\ page' \in Page /\ SecretStays /\ ControlsStay
      /\ page'.challenge = page.challenge /\ page'.vault = page.vault
      /\ page'.key = None /\ page.key \in Accounts
  BY <1>2 DEF Page, SecretStays, ControlsStay
<1>4. TaskOK(t, server)
  <2>1. "unlock" \in Steps[task[w].fn] /\ task[w].fn \in DOMAIN Steps
        /\ task[w].fn # "idle"
    BY <1>2 DEF Steps
  <2> QED
    BY <1>2, <1>3, <2>1 DEF TaskOK, OfAccount, AnswerOK
<1>5. ControlsInv'
  BY <1>1, <1>2, <1>3, ControlsGoOn DEF SecretStays, ControlsStay
<1>6. ASSUME NEW x \in Accounts \cup {None}, PageOf(x), TaskOf(task[w], x, server, displaced)
      PROVE  PageOf(x)' /\ TaskOf(t, x, server, displaced)
  <2>1. OnPage' \subseteq {x}
    BY <1>3, <1>6 DEF PageOf, OnPage, Held, Enrolling, SecretStays, ControlsStay
  <2>2. page.key = x
    BY <1>6 DEF PageOf, OnPage, Held, Enrolling
  <2> QED
    BY <1>3, <1>6, <2>1, <2>2 DEF PageOf, TaskOf, OfAccount, SecretStays
<1>7. task[w] # Idle
  BY DEF Idle
<1>8. PanelsOK'
  BY <1>3 DEF FlowInv, TypeOK, PanelsOK, SecretStays, ControlsStay
<1> QED
  BY <1>1, <1>2, <1>3, <1>4, <1>5, <1>6, <1>7, <1>8, ClientStep DEF SecretStays

\* The vaults are listed: the pending key opens one.
LEMMA ResumeVaultsKeeps ==
  ASSUME FlowInv, NEW w \in Slots, ResumeVaults(w),
         UNCHANGED <<server, started, saved, overtaken, displaced>>
  PROVE  FlowInv'
<1> DEFINE t == [fn |-> task[w].fn, at |-> "sync", arg |-> None, sent |-> cookie,
                 answer |-> None]
<1>1. /\ Becomes(w, t) /\ task[w].at = "unlock" /\ UNCHANGED <<cookie, confirmed>>
      /\ page' = [page EXCEPT !.vault = task[w].arg, !.key = None]
  BY DEF ResumeVaults, Send, Becomes
<1>2. /\ page \in Page /\ TaskOK(task[w], server) /\ cookie \in Sessions(server) \cup {None}
      /\ task[w].fn \in {"verify", "confirm"} /\ task[w].arg \in Accounts
  BY <1>1, AtStep, FnOf DEF TaskOK, OfAccount
<1>3. /\ page' \in Page /\ SecretStays /\ ControlsStay
      /\ page'.challenge = page.challenge /\ page'.vault = task[w].arg
      /\ page'.key = None
  BY <1>1, <1>2 DEF Page, SecretStays, ControlsStay
<1>4. TaskOK(t, server)
  <2>1. "sync" \in Steps[task[w].fn] /\ task[w].fn \in DOMAIN Steps
        /\ task[w].fn # "idle"
    BY <1>2 DEF Steps
  <2> QED
    BY <1>2, <1>3, <2>1 DEF TaskOK, OfAccount, AnswerOK
<1>5. ControlsInv'
  BY <1>1, <1>2, <1>3, ControlsGoOn DEF SecretStays, ControlsStay
<1>6. ASSUME NEW x \in Accounts \cup {None}, PageOf(x), TaskOf(task[w], x, server, displaced)
      PROVE  PageOf(x)' /\ TaskOf(t, x, server, displaced)
  <2>1. task[w].arg = x
    BY <1>1, <1>6 DEF TaskOf, OfAccount
  <2>2. OnPage' \subseteq {x}
    BY <1>3, <1>6, <2>1 DEF PageOf, OnPage, Held, Enrolling, SecretStays, ControlsStay
  <2> QED
    BY <1>1, <1>3, <1>6, <2>2 DEF PageOf, TaskOf, OfAccount, SecretStays
<1>7. task[w] # Idle
  BY <1>1 DEF Idle
<1>8. PanelsOK'
  BY <1>3 DEF FlowInv, TypeOK, PanelsOK, SecretStays, ControlsStay
<1> QED
  BY <1>1, <1>2, <1>3, <1>4, <1>5, <1>6, <1>7, <1>8, ClientStep DEF SecretStays

\* Whichever function goes on keeps the invariant.
LEMMA ResumeKeeps ==
  ASSUME FlowInv, NEW w \in Slots, Resume(w)
  PROVE  FlowInv'
<1>1. UNCHANGED <<server, started, saved, overtaken, displaced>>
  BY DEF Resume
<1>2. CASE ResumeUnlock(w)
  <2>1. CASE page.key # None /\ Send(w, task[w].fn, "unlock", page.key, cookie)
             /\ page' = [page EXCEPT !.key = None] /\ UNCHANGED confirmed
    BY <1>1, <1>2, <2>1, TakeKeyKeeps DEF ResumeUnlock
  <2>2. CASE page.key = None /\ Completed(w, page)
    BY <1>1, <1>2, <2>2, CompletedKeeps DEF ResumeUnlock
  <2> QED
    BY <1>2, <2>1, <2>2 DEF ResumeUnlock
<1>3. CASE ResumeSync(w)
  BY <1>1, <1>3, CompletedKeeps DEF ResumeSync
<1> QED
  BY <1>1, <1>2, <1>3, ResumeRegisterKeeps, ResumeProofKeeps, ResumeMfaRequiredKeeps,
     ResumeSessionKeeps, ResumeCsrfKeeps, ResumeEnrollStartKeeps, ResumeVaultsKeeps
     DEF Resume

\* A function that fails gives back what it has disabled.
LEMMA FailKeeps ==
  ASSUME FlowInv, NEW w \in Slots, Fail(w)
  PROVE  FlowInv'
<1> DEFINE locked == IF task[w].at = "sync" THEN [page EXCEPT !.vault = None, !.key = None]
                                            ELSE page
           fn == task[w].fn
<1>1. /\ Becomes(w, Idle) /\ task[w] # Idle
      /\ UNCHANGED <<cookie, server, started, saved, confirmed, overtaken, displaced>>
      /\ page' = FailedPage(task[w])
  BY DEF Fail, Stop, Becomes
<1>2. /\ page \in Page /\ TaskOK(task[w], server) /\ cookie \in Sessions(server) \cup {None}
      /\ fn \in {"register", "login", "continue", "verify", "recover", "confirm"}
      /\ task[w].at = "recover" => fn = "recover"
  <2>1. /\ page \in Page /\ TaskOK(task[w], server)
        /\ cookie \in Sessions(server) \cup {None}
    BY AtStep
  <2>2. fn # "idle" /\ fn \in DOMAIN Steps
    BY <1>1, <2>1 DEF TaskOK
  <2>3. fn \in {"register", "login", "continue", "verify", "recover", "confirm"}
    BY <2>2 DEF Steps
  <2> QED
    BY <2>1, <2>3, FnOf
<1>3. locked = page \/ locked = [page EXCEPT !.vault = None, !.key = None]
  OBVIOUS
<1> HIDE DEF locked
<1>4. /\ page' \in Page /\ SecretStays
      /\ page'.factor = page.factor /\ page'.totpPanel = page.totpPanel
      /\ page'.registerOn <=> page.registerOn \/ fn = "register"
      /\ page'.loginOn <=> page.loginOn \/ fn = "login"
      /\ page'.mfaPanel = page.mfaPanel
      /\ page'.mfaOn <=> page.mfaOn \/ fn \in {"verify", "recover"}
      /\ page'.totpOn <=> page.totpOn \/ fn = "confirm"
      /\ page'.continueOn = (IF fn = "continue" /\ page.factor = None THEN page.ticked
                                                                     ELSE page.continueOn)
      /\ page'.challenge = page.challenge /\ page'.vault \in {None, page.vault}
      /\ page'.key \in {None, page.key}
  <2>1. CASE fn = "register"
    <3>1. page' = [page EXCEPT !.registerOn = TRUE]
      BY <1>1, <2>1 DEF FailedPage
    <3> QED
      BY <1>2, <2>1, <3>1 DEF Page, SecretStays
  <2>2. CASE fn = "login"
    <3>1. page' = [page EXCEPT !.key = None, !.loginOn = TRUE]
      BY <1>1, <2>2 DEF FailedPage
    <3> QED
      BY <1>2, <2>2, <3>1 DEF Page, SecretStays
  <2>3. CASE fn = "continue"
    <3>1. page' = [page EXCEPT !.continueOn = IF page.factor = None THEN page.ticked ELSE @]
      BY <1>1, <2>3 DEF FailedPage
    <3>2. CASE page.factor = None
      <4>1. page' = [page EXCEPT !.continueOn = page.ticked]
        BY <3>1, <3>2
      <4> QED
        BY <1>2, <2>3, <3>2, <4>1 DEF Page, SecretStays
    <3>3. CASE page.factor # None
      <4>1. page' = page
        BY <1>2, <3>1, <3>3 DEF Page
      <4> QED
        BY <1>2, <2>3, <3>3, <4>1 DEF SecretStays
    <3> QED
      BY <3>2, <3>3
  <2>4. CASE fn \in {"verify", "recover"}
    <3>1. page' = [locked EXCEPT !.mfaOn = TRUE]
      BY <1>1, <2>4 DEF FailedPage, locked
    <3>2. CASE locked = page
      BY <1>2, <2>4, <3>1, <3>2 DEF Page, SecretStays
    <3>3. CASE locked = [page EXCEPT !.vault = None, !.key = None]
      <4>1. page' = [page EXCEPT !.vault = None, !.key = None, !.mfaOn = TRUE]
        BY <3>1, <3>3
      <4> QED
        BY <1>2, <2>4, <4>1 DEF Page, SecretStays
    <3> QED
      BY <1>3, <3>2, <3>3
  <2>5. CASE fn = "confirm"
    <3>1. page' = [locked EXCEPT !.totpOn = TRUE]
      BY <1>1, <2>5 DEF FailedPage, locked
    <3>2. CASE locked = page
      BY <1>2, <2>5, <3>1, <3>2 DEF Page, SecretStays
    <3>3. CASE locked = [page EXCEPT !.vault = None, !.key = None]
      <4>1. page' = [page EXCEPT !.vault = None, !.key = None, !.totpOn = TRUE]
        BY <3>1, <3>3
      <4> QED
        BY <1>2, <2>5, <4>1 DEF Page, SecretStays
    <3> QED
      BY <1>3, <3>2, <3>3
  <2> QED
    BY <1>2, <2>1, <2>2, <2>3, <2>4, <2>5
<1>5. ControlsInv'
  <2>1. page.mfaOn => page'.mfaOn
    BY <1>4
  <2>2. page'.mfaPanel /\ ~page'.mfaOn =>
          page.mfaPanel /\ fn # "verify" /\ task[w].at # "recover"
    BY <1>2, <1>4
  <2>3. confirmed => confirmed'
    BY <1>1
  <2>4. ~page'.totpOn => confirmed' \/ (~page.totpOn /\ fn # "confirm")
    BY <1>4
  <2>5. page'.ticked /\ ~page'.continueOn =>
           page'.factor # None
           \/ (page.ticked /\ ~page.continueOn /\ page.factor = None /\ fn # "continue")
    BY <1>4 DEF SecretStays
  <2> QED
    BY <1>1, <1>2, <1>4, <2>1, <2>2, <2>3, <2>4, <2>5, ControlsEnd
<1>6. ASSUME NEW x \in Accounts \cup {None}, PageOf(x), TaskOf(task[w], x, server, displaced)
      PROVE  PageOf(x)'
  <2>1. OnPage' \subseteq {x}
    BY <1>1, <1>4, <1>6 DEF PageOf, OnPage, Held, Enrolling, SecretStays
  <2> QED
    BY <1>1, <1>4, <1>6, <2>1 DEF PageOf, SecretStays
<1>7. Idle.at = "none"
  BY DEF Idle
<1>8. PanelsOK'
  <2>1. PanelsOK
    BY DEF FlowInv, TypeOK, PanelsOK
  <2>2. page'.continueOn => page'.ticked
    BY <1>4, <2>1 DEF PanelsOK, SecretStays
  <2>3. overtaken' = overtaken /\ page'.payload = page.payload /\ page'.finished = page.finished
    BY <1>1, <1>4 DEF SecretStays
  <2> QED
    BY <1>4, <2>1, <2>2, <2>3 DEF PanelsOK
<1> QED
  BY <1>1, <1>2, <1>4, <1>5, <1>6, <1>7, <1>8, IdleTask, ClientStep DEF SecretStays

-----------------------------------------------------------------------------
(***************************************************************************)
(* What the user starts.                                                   *)
(***************************************************************************)

\* The TOTP form of an enrollment is submitted.
LEMMA SubmitTotpKeeps ==
  ASSUME FlowInv, NEW w \in Slots, SubmitTotp(w)
  PROVE  FlowInv'
<1> DEFINE t == [fn |-> "confirm", at |-> "confirm",
                 arg |-> [factor |-> page.factor, csrf |-> page.csrf],
                 sent |-> cookie, answer |-> None]
<1>1. /\ page.totpPanel /\ page.totpOn /\ page.factor # None /\ task[w] = Idle
      /\ page' = [page EXCEPT !.totpOn = FALSE] /\ Becomes(w, t)
      /\ UNCHANGED <<cookie, server, started, saved, confirmed, overtaken, displaced>>
  BY DEF SubmitTotp, Send, Becomes
<1>2. /\ page \in Page /\ cookie \in Sessions(server) \cup {None}
      /\ page.factor \in Factor /\ page.factor.account \in Accounts
  <2>1. page \in Page /\ cookie \in Sessions(server) \cup {None}
    BY AtStep
  <2>2. page.factor \in Factor
    BY <1>1, <2>1 DEF Page
  <2> QED
    BY <2>1, <2>2 DEF Factor
<1>3. /\ page' \in Page /\ SecretStays
      /\ page'.factor = page.factor /\ page'.totpPanel = page.totpPanel
      /\ page'.registerOn = page.registerOn /\ page'.loginOn = page.loginOn
      /\ page'.mfaPanel = page.mfaPanel /\ page'.mfaOn = page.mfaOn
      /\ page'.continueOn = page.continueOn
      /\ page'.challenge = page.challenge /\ page'.vault = page.vault
      /\ page'.key = page.key
  BY <1>1, <1>2 DEF Page, SecretStays
<1>4. TaskOK(t, server)
  BY <1>2 DEF TaskOK, OfAccount, AnswerOK, Steps
<1>5. ControlsInv'
  <2>1. /\ task'[w] = t /\ \A x \in Slots \ {w} : task'[x] = task[x]
    BY <1>1, TaskStep
  <2>2. t.fn = "confirm" /\ t.at = "confirm" /\ Idle.fn = "idle" /\ Idle.at = "none"
    BY DEF Idle
  <2>3. ControlsInv
    BY DEF FlowInv
  <2> HIDE DEF t
  <2>4. /\ ~page'.registerOn <=> Running({"register"})'
        /\ ~page'.loginOn <=> Running({"login"})'
    BY <1>1, <1>3, <2>1, <2>2, <2>3 DEF ControlsInv, Running
  <2>5. \A v, x \in Slots :
          task'[v].fn = task'[x].fn /\ task'[v].fn \in {"register", "login"} => v = x
    BY <2>1, <2>2, <2>3 DEF ControlsInv
  <2>6. (\E x \in Slots : task'[x].at \in {"prove", "login_finish"})
          => ~page'.mfaPanel /\ page'.mfaOn
    BY <1>3, <2>1, <2>2, <2>3 DEF ControlsInv
  <2>7. page'.mfaPanel /\ ~page'.mfaOn =>
          \E x \in Slots : task'[x].fn = "verify" \/ task'[x].at = "recover"
    BY <1>1, <1>3, <2>1, <2>2, <2>3 DEF ControlsInv
  <2>8. /\ Running({"confirm"})'
        /\ page'.ticked /\ ~page'.continueOn => Running({"continue"})' \/ page'.factor # None
    BY <1>1, <2>1, <2>2, <1>3 DEF Running
  <2> QED
    BY <2>4, <2>5, <2>6, <2>7, <2>8 DEF ControlsInv
<1>6. ASSUME NEW x \in Accounts \cup {None}, PageOf(x)
      PROVE  PageOf(x)' /\ TaskOf(t, x, server, displaced)
  <2>1. OnPage' \subseteq {x}
    BY <1>1, <1>3, <1>6 DEF PageOf, OnPage, Held, Enrolling, SecretStays
  <2>2. ~displaced => page.factor.account = x
    BY <1>1, <1>2, <1>6, Facts DEF PageOf, OnPage, Held, Enrolling
  <2> QED
    BY <1>1, <1>3, <1>6, <2>1, <2>2 DEF PageOf, TaskOf, OfAccount, SecretStays
<1>7. Held \cup Enrolling # {}
  BY <1>1, <1>2, Facts DEF Enrolling
<1>8. PanelsOK'
  BY <1>1, <1>3 DEF FlowInv, TypeOK, PanelsOK, SecretStays
<1> QED
  BY <1>1, <1>2, <1>3, <1>4, <1>5, <1>6, <1>7, <1>8, ClientStep DEF SecretStays

\* The second factor form of a sign-in is submitted.
LEMMA SubmitSecondFactorKeeps ==
  ASSUME FlowInv, NEW w \in Slots, SubmitSecondFactor(w)
  PROVE  FlowInv'
<1>1. /\ page.mfaPanel /\ page.mfaOn /\ page.challenge # None /\ task[w] = Idle
      /\ page' = [page EXCEPT !.mfaOn = FALSE]
      /\ UNCHANGED <<cookie, server, started, saved, confirmed, overtaken, displaced>>
  BY DEF SubmitSecondFactor
<1>2. PICK fn \in {"verify", "recover"} : Send(w, fn, fn, page.challenge, cookie)
  BY DEF SubmitSecondFactor
<1> DEFINE t == [fn |-> fn, at |-> fn, arg |-> page.challenge, sent |-> cookie,
                 answer |-> None]
<1>3. Becomes(w, t)
  BY <1>2 DEF Send, Becomes
<1>4. /\ page \in Page /\ cookie \in Sessions(server) \cup {None}
      /\ page.challenge \in Accounts
  BY <1>1, AtStep DEF Page
<1>5. /\ page' \in Page /\ SecretStays
      /\ page'.factor = page.factor /\ page'.totpPanel = page.totpPanel
      /\ page'.registerOn = page.registerOn /\ page'.loginOn = page.loginOn
      /\ page'.mfaPanel = page.mfaPanel /\ page'.totpOn = page.totpOn
      /\ page'.continueOn = page.continueOn
      /\ page'.challenge = page.challenge /\ page'.vault = page.vault
      /\ page'.key = page.key
  BY <1>1, <1>4 DEF Page, SecretStays
<1>6. TaskOK(t, server)
  <2>1. fn \in DOMAIN Steps /\ fn \in Steps[fn] /\ fn # "idle"
    BY DEF Steps
  <2>2. t.arg \in Accounts
    BY <1>4
  <2> QED
    BY <1>4, <2>1, <2>2 DEF TaskOK, OfAccount, AnswerOK
<1>7. ControlsInv'
  <2>1. /\ task'[w] = t /\ \A x \in Slots \ {w} : task'[x] = task[x]
    BY <1>3, TaskStep
  <2>2. t.fn = fn /\ t.at = fn /\ Idle.fn = "idle" /\ Idle.at = "none"
    BY DEF Idle
  <2>3. ControlsInv
    BY DEF FlowInv
  <2> HIDE DEF t
  <2>4. /\ ~page'.registerOn <=> Running({"register"})'
        /\ ~page'.loginOn <=> Running({"login"})'
    BY <1>1, <1>5, <2>1, <2>2, <2>3 DEF ControlsInv, Running
  <2>5. \A v, x \in Slots :
          task'[v].fn = task'[x].fn /\ task'[v].fn \in {"register", "login"} => v = x
    BY <2>1, <2>2, <2>3 DEF ControlsInv
  <2>6. ~\E x \in Slots : task'[x].at \in {"prove", "login_finish"}
    BY <1>1, <2>1, <2>2, <2>3 DEF ControlsInv
  <2>7. \E x \in Slots : task'[x].fn = "verify" \/ task'[x].at = "recover"
    BY <2>1, <2>2
  <2>8. /\ ~page'.totpOn => Running({"confirm"})' \/ confirmed'
        /\ page'.ticked /\ ~page'.continueOn => Running({"continue"})' \/ page'.factor # None
    BY <1>1, <1>5, <2>1, <2>2, <2>3 DEF ControlsInv, Running, SecretStays
  <2> QED
    BY <2>4, <2>5, <2>6, <2>7, <2>8 DEF ControlsInv
<1>8. ASSUME NEW x \in Accounts \cup {None}, PageOf(x)
      PROVE  PageOf(x)' /\ TaskOf(t, x, server, displaced)
  <2>1. OnPage' \subseteq {x}
    BY <1>1, <1>5, <1>8 DEF PageOf, OnPage, Held, Enrolling, SecretStays
  <2>2. page.challenge = x
    BY <1>1, <1>4, <1>8 DEF PageOf, OnPage, Held, Enrolling
  <2> QED
    BY <1>1, <1>5, <1>8, <2>1, <2>2 DEF PageOf, TaskOf, OfAccount, SecretStays
<1>9. Held \cup Enrolling # {}
  BY <1>1, <1>4 DEF Held
<1>10. PanelsOK'
  BY <1>1, <1>5 DEF FlowInv, TypeOK, PanelsOK, SecretStays
<1> QED
  BY <1>1, <1>3, <1>4, <1>5, <1>6, <1>7, <1>8, <1>9, <1>10, ClientStep DEF SecretStays

\* What is sent is the secret on display, and that is saved.
LEMMA ContinueKeeps ==
  ASSUME FlowInv, NEW w \in Slots, Continue(w)
  PROVE  FlowInv'
<1> DEFINE at == IF page.finished THEN "csrf" ELSE "register_finish"
           arg == IF page.finished THEN None ELSE page.payload
           t == [fn |-> "continue", at |-> at, arg |-> arg, sent |-> cookie, answer |-> None]
<1>1. /\ page.continueOn /\ page.ticked /\ task[w] = Idle
      /\ page.payload # None \/ page.finished
      /\ page' = [page EXCEPT !.continueOn = FALSE] /\ Becomes(w, t)
      /\ UNCHANGED <<cookie, server, started, saved, confirmed, overtaken, displaced>>
  BY DEF Continue, Send, Becomes
<1>2. /\ page \in Page /\ cookie \in Sessions(server) \cup {None}
      /\ ~page.finished => page.payload \in Accounts
  <2>1. page \in Page /\ cookie \in Sessions(server) \cup {None}
    BY AtStep
  <2> QED
    BY <1>1, <2>1 DEF Page
<1>3. /\ page' \in Page /\ SecretStays
      /\ page'.factor = page.factor /\ page'.totpPanel = page.totpPanel
      /\ page'.registerOn = page.registerOn /\ page'.loginOn = page.loginOn
      /\ page'.mfaPanel = page.mfaPanel /\ page'.mfaOn = page.mfaOn
      /\ page'.totpOn = page.totpOn
      /\ page'.continueOn = FALSE
      /\ page'.challenge = page.challenge /\ page'.vault = page.vault
      /\ page'.key = page.key
  BY <1>1, <1>2 DEF Page, SecretStays
<1>4. ~page.finished => page.payload = page.shown /\ page.payload \in saved
  BY <1>1 DEF FlowInv, SavedInv
<1>5. /\ t.fn = "continue" /\ t.at \in {"csrf", "register_finish"} /\ t.sent = cookie
      /\ t.at = "csrf" <=> page.finished
      /\ ~page.finished => t.arg = page.payload
      /\ t.answer = None
      /\ t = [fn |-> t.fn, at |-> t.at, arg |-> t.arg, sent |-> t.sent, answer |-> t.answer]
  OBVIOUS
<1> HIDE DEF t
<1>6. TaskOK(t, server)
  BY <1>2, <1>5 DEF TaskOK, OfAccount, AnswerOK, Steps
<1>7. ControlsInv'
  <2>1. /\ task'[w] = t /\ \A x \in Slots \ {w} : task'[x] = task[x]
    BY <1>1, TaskStep
  <2>2. Idle.fn = "idle" /\ Idle.at = "none"
    BY DEF Idle
  <2>3. ControlsInv
    BY DEF FlowInv
  <2>4. /\ ~page'.registerOn <=> Running({"register"})'
        /\ ~page'.loginOn <=> Running({"login"})'
    BY <1>1, <1>3, <1>5, <2>1, <2>2, <2>3 DEF ControlsInv, Running
  <2>5. \A v, x \in Slots :
          task'[v].fn = task'[x].fn /\ task'[v].fn \in {"register", "login"} => v = x
    BY <1>5, <2>1, <2>2, <2>3 DEF ControlsInv
  <2>6. (\E x \in Slots : task'[x].at \in {"prove", "login_finish"})
          => ~page'.mfaPanel /\ page'.mfaOn
    BY <1>3, <1>5, <2>1, <2>2, <2>3 DEF ControlsInv
  <2>7. page'.mfaPanel /\ ~page'.mfaOn =>
          \E x \in Slots : task'[x].fn = "verify" \/ task'[x].at = "recover"
    BY <1>1, <1>3, <2>1, <2>2, <2>3 DEF ControlsInv
  <2>8. /\ Running({"continue"})'
        /\ ~page'.totpOn => Running({"confirm"})' \/ confirmed'
    BY <1>1, <1>3, <1>5, <2>1, <2>2, <2>3 DEF ControlsInv, Running
  <2> QED
    BY <2>4, <2>5, <2>6, <2>7, <2>8 DEF ControlsInv
<1>8. ASSUME NEW x \in Accounts \cup {None}, PageOf(x)
      PROVE  PageOf(x)' /\ TaskOf(t, x, server, displaced)
  <2>1. OnPage' \subseteq {x}
    BY <1>1, <1>3, <1>8 DEF PageOf, OnPage, Held, Enrolling, SecretStays
  <2>2. ~page.finished => page.payload = x
    BY <1>1, <1>8 DEF PageOf, OnPage, Held, Enrolling
  <2>3. PageOf(x)'
    BY <1>1, <1>3, <1>8, <2>1 DEF PageOf, SecretStays
  <2>4. page.finished /\ ~displaced => server.sessions[cookie].account = x
    BY <1>8 DEF PageOf
  <2> QED
    BY <1>5, <2>2, <2>3, <2>4 DEF TaskOf, OfAccount
<1>9. page.finished \/ Held \cup Enrolling # {}
  BY <1>1 DEF Held
<1>10. PanelsOK'
  BY <1>1, <1>3 DEF FlowInv, TypeOK, PanelsOK, SecretStays
<1>11. t.at = "register_finish" => t.arg \in saved /\ t.arg = page.shown
  BY <1>4, <1>5
<1> QED
  BY <1>1, <1>2, <1>3, <1>5, <1>6, <1>7, <1>8, <1>9, <1>10, <1>11, ClientStep DEF SecretStays

\* Locking forgets the vault and its key.
LEMMA LockKeeps ==
  ASSUME FlowInv, Lock
  PROVE  FlowInv'
<1>1. /\ page' = [page EXCEPT !.vault = None, !.key = None]
      /\ UNCHANGED <<task, cookie, server, started, saved, confirmed, overtaken, displaced>>
      /\ page \in Page
  BY DEF Lock, FlowInv, TypeOK
<1>2. /\ page' \in Page /\ SecretStays /\ ControlsStay
      /\ page'.challenge = page.challenge /\ page'.vault = None /\ page'.key = None
  BY <1>1 DEF Page, SecretStays, ControlsStay
<1>3. TypeOK' /\ ServerOK' /\ TasksOK'
  BY <1>1, <1>2 DEF FlowInv, TypeOK, ServerOK, TasksOK, SecretStays, ControlsStay
<1>4. SavedInv'
  BY <1>1, <1>2 DEF FlowInv, SavedInv, SecretSavedFirst, SecretStays
<1>5. ControlsInv'
  BY <1>1, <1>2 DEF FlowInv, ControlsInv, Running, SecretStays, ControlsStay
<1>6. OneAccountInv'
  <2>1. OnPage' \subseteq OnPage /\ (Held \cup Enrolling)' \subseteq Held \cup Enrolling
    BY <1>1, <1>2 DEF OnPage, Held, Enrolling, SecretStays, ControlsStay
  <2>2. /\ \A a : PageOf(a) => PageOf(a)'
        /\ \A w \in Slots : Alone(w) => Alone(w)'
    BY <1>1, <1>2, <2>1 DEF PageOf, Alone, SecretStays
  <2> QED
    BY <1>1, <1>2, <2>2 DEF FlowInv, OneAccountInv, SecretStays
<1> QED
  BY <1>3, <1>4, <1>5, <1>6 DEF FlowInv

\* The box of the saved secret is ticked, or the tick is taken back.
LEMMA TickSavedKeeps ==
  ASSUME FlowInv, TickSaved
  PROVE  FlowInv'
<1>1. /\ page.shown # None
      /\ page' = [page EXCEPT !.ticked = ~page.ticked, !.continueOn = ~page.ticked]
      /\ saved' = IF page.ticked THEN saved ELSE saved \cup {page.shown}
      /\ UNCHANGED <<task, cookie, server, started, confirmed, overtaken, displaced>>
      /\ page \in Page
  BY DEF TickSaved, FlowInv, TypeOK
<1>2. /\ page' \in Page
      /\ page'.shown = page.shown /\ page'.payload = page.payload
      /\ page'.finished = page.finished
      /\ page'.ticked = ~page.ticked /\ page'.continueOn = page'.ticked
      /\ page'.registerOn = page.registerOn /\ page'.loginOn = page.loginOn
      /\ page'.mfaPanel = page.mfaPanel /\ page'.mfaOn = page.mfaOn
      /\ page'.totpPanel = page.totpPanel /\ page'.totpOn = page.totpOn
      /\ page'.challenge = page.challenge /\ page'.vault = page.vault
      /\ page'.key = page.key /\ page'.factor = page.factor
  <2>1. page.ticked \in BOOLEAN
    BY <1>1 DEF Page
  <2>2. PICK b \in BOOLEAN : b = ~page.ticked
    OBVIOUS
  <2>3. page' = [page EXCEPT !.ticked = b, !.continueOn = b]
    BY <1>1, <2>2, Zenon
  <2>4. /\ page' \in Page /\ page'.ticked = b /\ page'.continueOn = b
        /\ page'.shown = page.shown /\ page'.payload = page.payload
        /\ page'.finished = page.finished
        /\ page'.registerOn = page.registerOn /\ page'.loginOn = page.loginOn
        /\ page'.mfaPanel = page.mfaPanel /\ page'.mfaOn = page.mfaOn
        /\ page'.totpPanel = page.totpPanel /\ page'.totpOn = page.totpOn
        /\ page'.challenge = page.challenge /\ page'.vault = page.vault
        /\ page'.key = page.key /\ page'.factor = page.factor
    BY <1>1, <2>3 DEF Page
  <2> QED
    BY <2>2, <2>4
<1>3. TypeOK' /\ ServerOK' /\ TasksOK'
  BY <1>1, <1>2 DEF FlowInv, TypeOK, ServerOK, TasksOK
<1>4. SavedInv'
  <2>1. SavedInv
    BY DEF FlowInv
  <2>2. saved \subseteq saved' /\ saved' \subseteq started
    BY <1>1, <2>1 DEF SavedInv
  <2>3. page'.ticked => page'.shown \in saved'
    <3>1. page'.ticked => saved' = saved \cup {page.shown}
      BY <1>1, <1>2
    <3> QED
      BY <1>2, <3>1
  <2> QED
    BY <1>1, <1>2, <2>1, <2>2, <2>3 DEF SavedInv, SecretSavedFirst
<1>5. ControlsInv'
  BY <1>1, <1>2 DEF FlowInv, ControlsInv, Running
<1>6. OneAccountInv'
  <2>1. OnPage' = OnPage /\ (Held \cup Enrolling)' = Held \cup Enrolling
    BY <1>1, <1>2 DEF OnPage, Held, Enrolling
  <2>2. /\ \A a : PageOf(a) => PageOf(a)'
        /\ \A w \in Slots : Alone(w) => Alone(w)'
    BY <1>1, <1>2, <2>1 DEF PageOf, Alone
  <2> QED
    BY <1>1, <1>2, <2>2 DEF FlowInv, OneAccountInv
<1> QED
  BY <1>3, <1>4, <1>5, <1>6 DEF FlowInv

\* A blank page shows nobody's data.
LEMMA BlankPage ==
  ASSUME Blank(page')
  PROVE  OnPage' = {} /\ (Held \cup Enrolling)' = {} /\ ~page'.finished
  BY DEF Blank, OnPage, Held, Enrolling

\* A switch between Create and Sign in resets the page, not the functions.
LEMMA SetModeKeeps ==
  ASSUME FlowInv, NEW mode \in {"register", "login"}, SetMode(mode)
  PROVE  FlowInv'
<1>1. /\ page' = [Reset(page) EXCEPT !.mode = mode]
      /\ overtaken' = (\E w \in Slots : task[w] # Idle)
      /\ UNCHANGED <<task, cookie, server, started, saved, confirmed>>
      /\ page \in Page
  BY DEF SetMode, NotesReset, FlowInv, TypeOK
<1>2. /\ page' \in Page /\ Blank(page')
      /\ page'.registerOn = page.registerOn /\ page'.loginOn = page.loginOn
      /\ page'.totpOn = page.totpOn
  BY <1>1, ResetPage DEF Page, Blank
<1>3. TypeOK' /\ ServerOK' /\ TasksOK'
  BY <1>1, <1>2 DEF FlowInv, TypeOK, ServerOK, TasksOK, Blank
<1>4. SavedInv'
  BY <1>1, <1>2 DEF FlowInv, SavedInv, SecretSavedFirst, Blank
<1>5. ControlsInv'
  BY <1>1, <1>2 DEF FlowInv, ControlsInv, Running, Blank
<1>6. OneAccountInv'
  <2> SUFFICES ASSUME ~overtaken'
               PROVE  /\ PageOf(None)' /\ \A w \in Slots : TaskOf(task[w], None, server, displaced)'
                      /\ \A w \in Slots : task'[w].at = "none"
    BY DEF OneAccountInv
  <2>1. \A w \in Slots : task'[w] = Idle
    BY <1>1
  <2>2. PageOf(None)'
    BY <1>2, BlankPage DEF PageOf
  <2> QED
    BY <2>1, <2>2, IdleTask DEF Idle
<1> QED
  BY <1>3, <1>4, <1>5, <1>6 DEF FlowInv

\* A form that starts over: what both submit buttons do.
LEMMA StartOver ==
  ASSUME FlowInv, NEW w \in Slots, NEW t, Becomes(w, t), task[w] = Idle,
         NEW a \in Accounts,
         t = [fn |-> t.fn, at |-> t.at, arg |-> a, sent |-> cookie, answer |-> None],
         \/ t.fn = "register" /\ t.at = "build" /\ page.registerOn /\ ~page'.registerOn
            /\ page'.loginOn = page.loginOn
         \/ t.fn = "login" /\ t.at = "prove" /\ page.loginOn /\ ~page'.loginOn
            /\ page'.registerOn = page.registerOn,
         a \in started', started \subseteq started', started' \subseteq Accounts,
         page' \in Page, Blank(page'), page'.totpOn = page.totpOn, NotesReset,
         UNCHANGED <<cookie, server, saved, confirmed>>
  PROVE  FlowInv'
<1>1. /\ task'[w] = t /\ \A x \in Slots \ {w} : task'[x] = task[x]
  BY TaskStep
<1>2. /\ t.arg = a /\ t.sent = cookie /\ t.answer = None
      /\ t.fn \in {"register", "login"} /\ t.at \in {"build", "prove"}
  OBVIOUS
<1>3. Idle.fn = "idle" /\ Idle.at = "none"
  BY DEF Idle
<1>4. TypeOK' /\ ServerOK'
  BY DEF FlowInv, TypeOK, ServerOK, Blank
<1>5. TaskOK(t, server')
  <2>1. t = [fn |-> t.fn, at |-> t.at, arg |-> t.arg, sent |-> t.sent, answer |-> t.answer]
    BY <1>2
  <2>2. cookie \in Sessions(server') \cup {None}
    BY AtStep
  <2>3. t.fn \in DOMAIN Steps /\ t.at \in Steps[t.fn]
    BY DEF Steps
  <2> QED
    BY <1>2, <2>1, <2>2, <2>3 DEF TaskOK, OfAccount, AnswerOK
<1>6. TasksOK'
  <2>1. Grows(server, server')
    BY DEF Grows, FlowInv, ServerOK
  <2> QED
    BY <1>5, <2>1, TasksStep
<1>7. SavedInv'
  BY <1>1, <1>2 DEF FlowInv, SavedInv, SecretSavedFirst, Blank
<1>8. ControlsInv'
  <2>1. ControlsInv
    BY DEF FlowInv
  <2>2. /\ ~page'.registerOn <=> Running({"register"})'
        /\ ~page'.loginOn <=> Running({"login"})'
    BY <1>1, <1>3, <2>1 DEF ControlsInv, Running
  <2>3. \A v, x \in Slots :
          task'[v].fn = task'[x].fn /\ task'[v].fn \in {"register", "login"} => v = x
    BY <1>1, <2>1 DEF ControlsInv, Running
  <2>4. /\ ~page'.totpOn => Running({"confirm"})' \/ confirmed'
    BY <1>1, <1>3, <2>1 DEF ControlsInv, Running
  <2> QED
    BY <2>2, <2>3, <2>4 DEF ControlsInv, Blank
<1>9. OneAccountInv'
  <2> SUFFICES ASSUME ~overtaken'
               PROVE  /\ PageOf(a)' /\ \A x \in Slots : TaskOf(task[x], a, server, displaced)'
                      /\ \A x \in Slots : task'[x].at # "register_finish"
                      /\ \A x \in Slots : task'[x].at = "build" => Alone(x)'
    BY DEF OneAccountInv
  <2>1. \A x \in Slots \ {w} : task'[x] = Idle
    BY <1>1 DEF NotesReset
  <2>2. PageOf(a)'
    BY BlankPage DEF PageOf
  <2>3. \A x \in Slots : TaskOf(task[x], a, server, displaced)'
    <3>1. TaskOf(t, a, server', displaced')
      BY <1>2 DEF TaskOf, OfAccount
    <3>2. \A x \in Slots \ {w} : TaskOf(task'[x], a, server', displaced')
      BY <2>1, IdleTask
    <3>3. TaskOf(task'[w], a, server', displaced')
      BY <1>1, <3>1
    <3> QED
      BY <3>2, <3>3
  <2>4. \A x \in Slots : task'[x].at # "register_finish"
    BY <1>1, <1>2, <1>3, <2>1
  <2>5. ASSUME NEW x \in Slots, task'[x].at = "build" PROVE Alone(x)'
    <3>1. x = w
      BY <1>3, <2>1, <2>5
    <3> QED
      BY <2>1, <3>1, BlankPage DEF Alone
  <2> QED
    BY <2>2, <2>3, <2>4, <2>5
<1> QED
  BY <1>4, <1>6, <1>7, <1>8, <1>9 DEF FlowInv

\* The registration form is submitted.
LEMMA SubmitRegistrationKeeps ==
  ASSUME FlowInv, NEW w \in Slots, NEW a \in Accounts, SubmitRegistration(w, a)
  PROVE  FlowInv'
<1> DEFINE t == [fn |-> "register", at |-> "build", arg |-> a, sent |-> cookie,
                 answer |-> None]
<1>1. /\ page.registerOn /\ task[w] = Idle /\ started' = started \cup {a}
      /\ page' = [Reset(page) EXCEPT !.registerOn = FALSE]
      /\ NotesReset /\ Becomes(w, t)
      /\ UNCHANGED <<cookie, server, saved, confirmed>>
  BY DEF SubmitRegistration, Send, Becomes
<1>2. page \in Page /\ started \subseteq Accounts
  BY DEF FlowInv, TypeOK, SavedInv
<1>3. /\ page' \in Page /\ Blank(page') /\ ~page'.registerOn
      /\ page'.loginOn = page.loginOn /\ page'.totpOn = page.totpOn
  BY <1>1, <1>2, ResetPage DEF Page, Blank
<1>4. /\ t.fn = "register" /\ t.at = "build"
      /\ t = [fn |-> t.fn, at |-> t.at, arg |-> a, sent |-> cookie, answer |-> None]
  OBVIOUS
<1>5. a \in started' /\ started \subseteq started' /\ started' \subseteq Accounts
  BY <1>1, <1>2
<1> HIDE DEF t
<1> QED
  BY <1>1, <1>3, <1>4, <1>5, StartOver

\* The sign-in form is submitted.
LEMMA SubmitLoginKeeps ==
  ASSUME FlowInv, NEW w \in Slots, NEW a \in Accounts, SubmitLogin(w, a)
  PROVE  FlowInv'
<1> DEFINE t == [fn |-> "login", at |-> "prove", arg |-> a, sent |-> cookie,
                 answer |-> None]
<1>1. /\ page.loginOn /\ task[w] = Idle /\ a \in saved
      /\ page' = [Reset(page) EXCEPT !.loginOn = FALSE]
      /\ NotesReset /\ Becomes(w, t)
      /\ UNCHANGED <<cookie, server, started, saved, confirmed>>
  BY DEF SubmitLogin, Send, Becomes
<1>2. page \in Page /\ started \subseteq Accounts /\ saved \subseteq started
  BY DEF FlowInv, TypeOK, SavedInv
<1>3. /\ page' \in Page /\ Blank(page') /\ ~page'.loginOn
      /\ page'.registerOn = page.registerOn /\ page'.totpOn = page.totpOn
  BY <1>1, <1>2, ResetPage DEF Page, Blank
<1>4. /\ t.fn = "login" /\ t.at = "prove"
      /\ t = [fn |-> t.fn, at |-> t.at, arg |-> a, sent |-> cookie, answer |-> None]
  OBVIOUS
<1>5. a \in started' /\ started \subseteq started' /\ started' \subseteq Accounts
  BY <1>1, <1>2
<1> HIDE DEF t
<1> QED
  BY <1>1, <1>3, <1>4, <1>5, StartOver

\* A reload ends every function, and the page starts fresh.
LEMMA ReloadKeeps ==
  ASSUME FlowInv, Reload
  PROVE  FlowInv'
<1>1. /\ page' = FreshPage /\ task' = [w \in Slots |-> Idle]
      /\ ~confirmed' /\ ~overtaken'
      /\ UNCHANGED <<cookie, server, started, saved>>
  BY DEF Reload
<1>2. /\ page' \in Page /\ Blank(page') /\ page'.registerOn = TRUE /\ page'.loginOn = TRUE
      /\ page'.totpOn = TRUE
  BY <1>1 DEF FreshPage, Page, Blank
<1>3. Idle.fn = "idle" /\ Idle.at = "none"
  BY DEF Idle
<1>4. TypeOK' /\ ServerOK'
  BY <1>1, <1>2 DEF FlowInv, TypeOK, ServerOK, Blank
<1>5. TasksOK'
  BY <1>1, IdleTask DEF TasksOK
<1>6. SavedInv'
  BY <1>1, <1>2, <1>3 DEF FlowInv, SavedInv, SecretSavedFirst, Blank
<1>7. ControlsInv'
  BY <1>1, <1>2, <1>3 DEF ControlsInv, Running, Blank
<1>8. OneAccountInv'
  <2>1. PageOf(None)'
    BY <1>2, BlankPage DEF PageOf
  <2> QED
    BY <1>1, <1>3, <2>1, IdleTask DEF OneAccountInv
<1> QED
  BY <1>4, <1>5, <1>6, <1>7, <1>8 DEF FlowInv

-----------------------------------------------------------------------------
(***************************************************************************)
(* What the other tabs do.                                                 *)
(***************************************************************************)

\* The page and its functions stay; the server has more, the jar perhaps another
\* session.
LEMMA OtherTabStep ==
  ASSUME FlowInv, UNCHANGED <<page, task, confirmed, overtaken>>,
         Grows(server, server'), ServerOK', server'.accounts \subseteq saved',
         saved \subseteq saved', saved' \subseteq started',
         started \subseteq started', started' \subseteq Accounts,
         cookie' \in Sessions(server') \cup {None},
         displaced' \/ (displaced' = displaced /\ cookie' = cookie)
  PROVE  FlowInv'
<1>1. TypeOK'
  <2>1. server'.sessions \in Seq(Session)
    BY DEF ServerOK
  <2> QED
    BY <2>1 DEF FlowInv, TypeOK, Sessions
<1>2. TasksOK'
  BY TaskKept DEF FlowInv, TasksOK
<1>3. SavedInv'
  BY DEF FlowInv, SavedInv, SecretSavedFirst
<1>4. ControlsInv'
  BY DEF FlowInv, ControlsInv, Running
<1>5. OneAccountInv'
  <2> SUFFICES ASSUME ~overtaken'
               PROVE  /\ \E a \in Accounts \cup {None} :
                           PageOf(a)' /\ \A w \in Slots : TaskOf(task[w], a, server, displaced)'
                      /\ \A w \in Slots :
                           task[w].at = "register_finish" => page.shown = task[w].arg
                      /\ \A w \in Slots : task[w].at = "build" => Alone(w)'
    BY DEF OneAccountInv
  <2>1. OneAccountInv /\ ~overtaken
    BY DEF FlowInv
  <2>2. PICK a \in Accounts \cup {None} :
          PageOf(a) /\ \A w \in Slots : TaskOf(task[w], a, server, displaced)
    BY <2>1 DEF OneAccountInv
  <2>3. Held' = Held /\ Enrolling' = Enrolling
    BY DEF Held, Enrolling
  <2>4. PageOf(a)'
    <3>1. OnPage' \subseteq {a}
      BY <2>2, <2>3 DEF PageOf, OnPage
    <3>2. page.finished => page.shown = a /\ a \in server'.accounts
      BY <2>2 DEF PageOf, Grows
    <3>3. page.finished /\ ~displaced'
            => cookie' # None /\ server'.sessions[cookie'].account = a
      <4>1. cookie \in Sessions(server) \cup {None}
        BY DEF FlowInv, TypeOK, Sessions
      <4> QED
        BY <2>2, <4>1 DEF PageOf, Grows
    <3> QED
      BY <3>1, <3>2, <3>3 DEF PageOf
  <2>5. ASSUME NEW w \in Slots PROVE TaskOf(task[w], a, server, displaced)'
    <3>1. TaskOf(task[w], a, server', displaced)
      BY <2>2, TaskOfKept DEF FlowInv, TasksOK
    <3> QED
      BY <3>1 DEF TaskOf
  <2>6. \A w \in Slots : Alone(w) => Alone(w)'
    BY <2>3 DEF Alone
  <2> QED
    BY <2>1, <2>4, <2>5, <2>6 DEF OneAccountInv
<1> QED
  BY <1>1, <1>2, <1>3, <1>4, <1>5 DEF FlowInv

\* Another tab has a session of its own put into the jar.
LEMMA DisplacedKeeps ==
  ASSUME FlowInv, NEW a \in Accounts, NEW verified \in BOOLEAN, NEW accounts,
         AddSession([server EXCEPT !.accounts = accounts], a, verified), Displaced,
         server.accounts \subseteq accounts, accounts \subseteq saved',
         saved \subseteq saved', saved' \subseteq started',
         started \subseteq started', started' \subseteq Accounts
  PROVE  FlowInv'
<1> DEFINE n == Len(server.sessions) + 1
<1>1. /\ server = [accounts |-> server.accounts, sessions |-> server.sessions,
                   factors |-> server.factors]
      /\ server.sessions \in Seq(Session)
      /\ server.factors \in [Accounts -> [n : 0..MaxFactors, active : BOOLEAN]]
  BY DEF FlowInv, ServerOK
<1>2. /\ Len(server.sessions) < MaxSessions
      /\ server' = [accounts |-> accounts, factors |-> server.factors,
                    sessions |-> Append(server.sessions,
                                        [account |-> a, verified |-> verified])]
  BY <1>1 DEF AddSession
<1>3. /\ server'.accounts = accounts /\ server'.factors = server.factors
      /\ server'.sessions = Append(server.sessions, [account |-> a, verified |-> verified])
  BY <1>2
<1>4. /\ server'.sessions \in Seq(Session) /\ Len(server'.sessions) = n
      /\ Len(server.sessions) \in Nat
      /\ \A i \in 1..Len(server.sessions) : server'.sessions[i] = server.sessions[i]
  <2>1. [account |-> a, verified |-> verified] \in Session
    BY DEF Session
  <2> QED
    BY <1>1, <1>3, <2>1
<1>5. ServerOK'
  <2>1. Len(server'.sessions) <= MaxSessions
    BY <1>2, <1>4, Facts
  <2>2. server' \in [accounts : SUBSET Accounts, sessions : Seq(Session),
                     factors : [Accounts -> [n : 0..MaxFactors, active : BOOLEAN]]]
    BY <1>1, <1>2, <1>3, <1>4
  <2> QED
    BY <2>1, <2>2 DEF ServerOK
<1>6. Grows(server, server')
  BY <1>3, <1>4 DEF Grows, Sessions
<1>7. cookie' \in Sessions(server') \cup {None}
  BY <1>4 DEF Displaced, Sessions
<1> QED
  BY <1>3, <1>5, <1>6, <1>7, OtherTabStep DEF Displaced

\* Another tab creates an account.
LEMMA OtherTabRegistersKeeps ==
  ASSUME FlowInv, NEW a \in Accounts, OtherTabRegisters(a)
  PROVE  FlowInv'
<1>1. /\ server.accounts \subseteq saved /\ saved \subseteq started /\ started \subseteq Accounts
  BY DEF FlowInv, SavedInv, SecretSavedFirst
<1>2. /\ AddSession([server EXCEPT !.accounts = server.accounts \cup {a}], a, FALSE)
      /\ Displaced /\ started' = started \cup {a} /\ saved' = saved \cup {a}
  BY DEF OtherTabRegisters
<1> QED
  BY <1>1, <1>2, DisplacedKeeps

\* Another tab signs in.
LEMMA OtherTabSignsInKeeps ==
  ASSUME FlowInv, NEW a \in Accounts, OtherTabSignsIn(a)
  PROVE  FlowInv'
<1>1. /\ server.accounts \subseteq saved /\ saved \subseteq started /\ started \subseteq Accounts
      /\ server \in [accounts : SUBSET Accounts, sessions : Seq(Session),
                     factors : [Accounts -> [n : 0..MaxFactors, active : BOOLEAN]]]
  BY DEF FlowInv, SavedInv, SecretSavedFirst, ServerOK
<1>2. PICK verified \in {FALSE, server.factors[a].active} : AddSession(server, a, verified)
  BY DEF OtherTabSignsIn
<1>3. verified \in BOOLEAN
  BY <1>1
<1>4. server = [server EXCEPT !.accounts = server.accounts]
  BY <1>1
<1>5. AddSession([server EXCEPT !.accounts = server.accounts], a, verified)
  BY <1>2, <1>4
<1>6. Displaced /\ UNCHANGED <<started, saved>>
  BY DEF OtherTabSignsIn
<1>7. /\ server.accounts \subseteq saved' /\ saved \subseteq saved'
      /\ saved' \subseteq started' /\ started \subseteq started' /\ started' \subseteq Accounts
  BY <1>1, <1>6
<1> QED
  BY <1>3, <1>5, <1>6, <1>7, DisplacedKeeps

\* Another tab enrolls a factor with the session in the jar.
LEMMA OtherTabEnrollsKeeps ==
  ASSUME FlowInv, OtherTabEnrolls
  PROVE  FlowInv'
<1> DEFINE a == server.sessions[cookie].account
           n == server.factors[a].n + 1
<1>1. /\ server \in [accounts : SUBSET Accounts, sessions : Seq(Session),
                     factors : [Accounts -> [n : 0..MaxFactors, active : BOOLEAN]]]
      /\ Len(server.sessions) <= MaxSessions
      /\ server.accounts \subseteq saved /\ saved \subseteq started /\ started \subseteq Accounts
      /\ cookie \in Sessions(server) \cup {None}
  BY DEF FlowInv, ServerOK, SavedInv, SecretSavedFirst, TypeOK, Sessions
<1>2. PICK active \in BOOLEAN :
        server' = [server EXCEPT !.factors[a] = [n |-> n, active |-> active],
                                 !.sessions[cookie].verified = active]
  BY DEF OtherTabEnrolls
<1>3. /\ cookie \in 1..Len(server.sessions) /\ n <= MaxFactors
      /\ UNCHANGED <<page, task, cookie, started, saved, confirmed, overtaken, displaced>>
  BY <1>1 DEF OtherTabEnrolls, Sessions
<1>4. server.sessions[cookie] \in Session
  BY <1>1, <1>3
<1>5. a \in Accounts /\ n \in 1..MaxFactors
  <2>1. a \in Accounts
    BY <1>4 DEF Session
  <2> QED
    BY <1>1, <1>3, <2>1, Facts
<1> DEFINE row == [n |-> n, active |-> active]
           session == [server.sessions[cookie] EXCEPT !.verified = active]
<1>6. row \in [n : 0..MaxFactors, active : BOOLEAN]
  BY <1>5
<1>7. session \in Session /\ session.account = a
  BY <1>4 DEF Session
<1>8. /\ server'.accounts = server.accounts
      /\ server'.sessions = [server.sessions EXCEPT ![cookie] = session]
      /\ server'.factors = [server.factors EXCEPT ![a] = row]
      /\ server' = [accounts |-> server'.accounts, sessions |-> server'.sessions,
                    factors |-> server'.factors]
  BY <1>1, <1>2
<1> HIDE DEF a, n, row, session
<1>9. /\ server'.sessions \in Seq(Session) /\ Len(server'.sessions) = Len(server.sessions)
      /\ \A i \in 1..Len(server.sessions) :
           server'.sessions[i].account = server.sessions[i].account
  <2>1. server'.sessions \in Seq(Session) /\ Len(server'.sessions) = Len(server.sessions)
    BY <1>1, <1>3, <1>7, <1>8
  <2>2. \A i \in 1..Len(server.sessions) :
          server'.sessions[i].account = server.sessions[i].account
    BY <1>1, <1>7, <1>8 DEF a
  <2> QED
    BY <2>1, <2>2
<1>10. server'.factors \in [Accounts -> [n : 0..MaxFactors, active : BOOLEAN]]
  BY <1>1, <1>5, <1>6, <1>8
<1>11. ServerOK'
  BY <1>1, <1>8, <1>9, <1>10 DEF ServerOK
<1>12. Grows(server, server') /\ Sessions(server') = Sessions(server)
  BY <1>1, <1>8, <1>9 DEF Grows, Sessions
<1> QED
  BY <1>1, <1>3, <1>8, <1>11, <1>12, OtherTabStep

\* The invariant holds at first.
LEMMA InitFlow == Init => FlowInv
<1> SUFFICES ASSUME Init PROVE FlowInv
  OBVIOUS
<1>1. /\ page = FreshPage /\ task = [w \in Slots |-> Idle] /\ cookie = None
      /\ server = [accounts |-> {}, sessions |-> <<>>,
                   factors |-> [a \in Accounts |-> [n |-> 0, active |-> FALSE]]]
      /\ started = {} /\ saved = {} /\ ~confirmed /\ ~overtaken
  BY DEF Init
<1>2. /\ page \in Page /\ Blank(page) /\ page.registerOn = TRUE /\ page.loginOn = TRUE
      /\ page.totpOn = TRUE
  BY <1>1 DEF FreshPage, Page, Blank
<1>3. Idle.fn = "idle" /\ Idle.at = "none"
  BY DEF Idle
<1>4. ServerOK
  <2>1. [n |-> 0, active |-> FALSE] \in [n : 0..MaxFactors, active : BOOLEAN]
    BY Facts
  <2>2. [a \in Accounts |-> [n |-> 0, active |-> FALSE]]
          \in [Accounts -> [n : 0..MaxFactors, active : BOOLEAN]]
    BY <2>1
  <2>3. <<>> \in Seq(Session) /\ Len(<<>>) = 0
    OBVIOUS
  <2> QED
    BY <1>1, <2>2, <2>3, Facts DEF ServerOK
<1>5. TypeOK
  BY <1>1, <1>2, <1>4 DEF TypeOK, ServerOK, Blank
<1>6. TasksOK
  BY <1>1, IdleTask DEF TasksOK
<1>7. SavedInv
  BY <1>1, <1>2, <1>3 DEF SavedInv, SecretSavedFirst, Blank
<1>8. ControlsInv
  BY <1>1, <1>2, <1>3 DEF ControlsInv, Running, Blank
<1>9. OneAccountInv
  <2>1. PageOf(None)
    BY <1>2 DEF PageOf, OnPage, Held, Enrolling, Blank
  <2> QED
    BY <1>1, <1>3, <2>1, IdleTask DEF OneAccountInv
<1> QED
  BY <1>4, <1>5, <1>6, <1>7, <1>8, <1>9 DEF FlowInv

\* It depends on the variables only.
LEMMA StutterKeeps ==
  ASSUME FlowInv, UNCHANGED vars
  PROVE  FlowInv'
<1>1. UNCHANGED <<page, task, cookie, server, started, saved, confirmed, overtaken, displaced>>
  BY DEF vars
<1>2. TypeOK' /\ ServerOK' /\ TasksOK' /\ SavedInv'
  BY <1>1 DEF FlowInv, TypeOK, ServerOK, TasksOK, SavedInv, SecretSavedFirst
<1>3. ControlsInv'
  BY <1>1 DEF FlowInv, ControlsInv, Running
<1>4. OneAccountInv'
  BY <1>1 DEF FlowInv, OneAccountInv, PageOf, Alone, OnPage, Held, Enrolling
<1> QED
  BY <1>2, <1>3, <1>4 DEF FlowInv

\* It is inductive.
LEMMA FlowInvariant == Spec => []FlowInv
<1>1. FlowInv /\ [Next]_vars => FlowInv'
  BY SetModeKeeps, SubmitRegistrationKeeps, SubmitLoginKeeps, TickSavedKeeps, ContinueKeeps,
     SubmitSecondFactorKeeps, SubmitTotpKeeps, LockKeeps, ReloadKeeps, ServeKeeps,
     ResumeKeeps, FailKeeps, OtherTabRegistersKeeps, OtherTabSignsInKeeps,
     OtherTabEnrollsKeeps, StutterKeeps DEF Next, User, OtherTab, GoesOn
<1> QED
  BY InitFlow, <1>1, PTL DEF Spec

-----------------------------------------------------------------------------
(* The fields of the page hold what app.js puts there, and no panel is on
   display before what its form sends.                                      *)
THEOREM TypeCorrect == Spec => []TypeOK
<1>1. FlowInv => TypeOK
  BY DEF FlowInv
<1> QED
  BY FlowInvariant, <1>1, PTL

(* continueEnrollment sends a registration only for a secret the user has been
   shown and has ticked, for any number of functions that overtake each other. *)
THEOREM SecretSafe == Spec => []SecretSavedFirst
<1>1. FlowInv => SecretSavedFirst
  BY DEF FlowInv, SavedInv
<1> QED
  BY FlowInvariant, <1>1, PTL

(* Every disabled control of the forms is given back by a function under way,
   but for the TOTP form after a confirmation.                              *)
THEOREM ControlsOwned == Spec => []DisabledHasOwner
<1>1. FlowInv => DisabledHasOwner
  <2> SUFFICES ASSUME FlowInv PROVE DisabledHasOwner
    OBVIOUS
  <2>1. ControlsInv
    BY DEF FlowInv
  <2>2. \A w \in Slots : task[w].at = "recover" => task[w].fn = "recover"
    BY AtStep, FnOf
  <2>3. page.mfaPanel /\ ~page.mfaOn => Running({"verify", "recover"})
    BY <2>1, <2>2 DEF ControlsInv, Running
  <2> QED
    BY <2>1, <2>3 DEF ControlsInv, DisabledHasOwner
<1> QED
  BY FlowInvariant, <1>1, PTL

(* A page whose functions no reset of the page has overtaken holds the data of
   one account, and calls only the registration on display finished.        *)
THEOREM OneAccountSafe == Spec => []OneAccountUnlessOvertaken
<1>1. FlowInv => OneAccountUnlessOvertaken
  <2> SUFFICES ASSUME FlowInv, ~overtaken
               PROVE  /\ Cardinality(Held) <= 1
                      /\ page.finished => page.shown \in server.accounts
                      /\ ~displaced => Cardinality(Held \cup Enrolling) <= 1
    BY DEF OneAccountUnlessOvertaken
  <2>1. PICK a \in Accounts \cup {None} : PageOf(a)
    BY DEF FlowInv, OneAccountInv
  <2>2. IsFiniteSet({a}) /\ Cardinality({a}) = 1
    BY FS_Singleton
  <2>3. OnPage \subseteq {a}
    BY <2>1 DEF PageOf
  <2>4. Held \subseteq {a} /\ (~displaced => Held \cup Enrolling \subseteq {a})
    BY <2>3 DEF OnPage
  <2>5. Cardinality(Held) <= 1 /\ (~displaced => Cardinality(Held \cup Enrolling) <= 1)
    BY <2>2, <2>4, FS_Subset
  <2> QED
    BY <2>1, <2>5 DEF PageOf
<1> QED
  BY FlowInvariant, <1>1, PTL

=============================================================================
