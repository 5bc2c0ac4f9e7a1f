------------------------------- MODULE PushView -------------------------------
(***************************************************************************)
(* Watching the server list in one browser tab: PushSession (api.js),      *)
(* which keeps the socket /ws/push, IdleGuard (utils.js), which pauses it  *)
(* when nobody touches the page, and the parts of app.js that tie them to  *)
(* the login and to the visibility of the tab.  Every socket counts as a   *)
(* viewer, for whom the agents report often.                               *)
(*                                                                         *)
(* How long a timer takes is left out, and with it retries, which only     *)
(* chooses between 3 s and 30 s.  Each timer is a flag, or a number where  *)
(* the code may set several of them.                                       *)
(*                                                                         *)
(* Operators marked "Defect:" are no part of the model, see OperationJobs. *)
(***************************************************************************)
EXTENDS Naturals, FiniteSets

CONSTANTS
  Sockets,   \* bound: sockets that live at a time
  MaxTimers  \* bound: reconnection timers

ASSUME PushAssumption == Sockets # {} /\ MaxTimers \in Nat \ {0}

VARIABLES
  token,      \* the user is logged in
  hidden,     \* document.hidden
  pushClosed,     \* PushSession.closed
  pushWs,         \* PushSession.ws
  pushSocket,     \* state of every socket
  timers,     \* setTimeout(_connect) that have not fired
  paused,     \* IdleGuard
  prompting,
  idleTimer,
  promptTimer,
  dialog,     \* the prompt is shown
  crossed     \* history: a connection was opened while a timer had not fired

sessionVars == <<pushClosed, pushWs, pushSocket, timers, crossed>>
guardVars == <<paused, prompting, idleTimer, promptTimer, dialog>>
pushVars == <<token, hidden, sessionVars, guardVars>>

PushInit ==
  /\ token = FALSE /\ hidden = FALSE
  /\ pushClosed = TRUE /\ pushWs = {} /\ timers = 0 /\ crossed = FALSE
  /\ pushSocket = [s \in Sockets |-> "none"]
  /\ paused = FALSE /\ prompting = FALSE /\ dialog = FALSE
  /\ idleTimer = FALSE /\ promptTimer = FALSE

Live == {s \in Sockets : pushSocket[s] # "none"}

--------------------------------------------------------------------------------
(* PushSession.                                                                *)

Connects ==
  \E s \in Sockets \ Live :
    pushWs' = {s} /\ pushSocket' = [pushSocket EXCEPT ![s] = "connecting"]

\* open(), of a user who is logged in: a socket that lives is kept.
OpensPush ==
  /\ pushClosed' = FALSE
  /\ \/ pushWs # {} /\ UNCHANGED <<pushWs, pushSocket, crossed>>
     \/ pushWs = {} /\ Connects /\ crossed' = (crossed \/ timers > 0)
  /\ UNCHANGED timers

StartPush == IF token THEN OpensPush ELSE UNCHANGED sessionVars

HangUp == pushWs' = {} /\ pushSocket' = [s \in Sockets |-> IF s \in pushWs THEN "none" ELSE pushSocket[s]]

\* close(): the timers are not cancelled.
StopPush == pushClosed' = TRUE /\ HangUp /\ UNCHANGED <<timers, crossed>>

\* A timer fires: _connect.
Reconnects ==
  /\ timers > 0 /\ timers' = timers - 1
  /\ IF pushClosed \/ ~token THEN UNCHANGED <<pushWs, pushSocket>> ELSE Connects
  /\ UNCHANGED <<token, hidden, pushClosed, crossed, guardVars>>

SocketOpens(s) ==
  /\ pushSocket[s] = "connecting"
  /\ pushSocket' = [pushSocket EXCEPT ![s] = "open"]
  /\ UNCHANGED <<token, hidden, pushClosed, pushWs, timers, crossed, guardVars>>

\* Defect: after a failed attempt the session rests.
TryOnce(s) == timers' = IF pushSocket[s] = "open" THEN timers + 1 ELSE timers

TryAgain(s) == timers' = timers + 1

\* onclose; a socket that is not ws any more is nobody's business.
SocketDies(s) ==
  /\ s \in Live /\ timers < MaxTimers
  /\ pushSocket' = [pushSocket EXCEPT ![s] = "none"]
  /\ pushWs' = pushWs \ {s}
  /\ IF s \in pushWs /\ token THEN TryAgain(s) ELSE UNCHANGED timers
  /\ UNCHANGED <<token, hidden, pushClosed, crossed, guardVars>>

\* Code 1008 (onAuthFail, showAuth).
WatcherRejected(s) ==
  /\ s \in pushWs
  /\ token' = FALSE /\ pushClosed' = TRUE
  /\ pushWs' = {} /\ pushSocket' = [pushSocket EXCEPT ![s] = "none"]
  /\ UNCHANGED <<hidden, timers, crossed, guardVars>>

--------------------------------------------------------------------------------
(* IdleGuard: what its methods do to its state, the connection aside.          *)

\* The timers after reset(): the countdown of a prompt goes on.
ResetIdle(asking) == idleTimer' = TRUE /\ promptTimer' = (promptTimer /\ asking)

\* reset(), while it is not paused.
Reset(asking) ==
  /\ prompting' = asking /\ UNCHANGED <<paused, dialog>>
  /\ IF token THEN ResetIdle(asking) ELSE UNCHANGED <<idleTimer, promptTimer>>

\* resume(), when it is paused.
Resume ==
  /\ StartPush
  /\ paused' = FALSE /\ prompting' = FALSE /\ UNCHANGED dialog
  /\ IF token THEN ResetIdle(FALSE) ELSE UNCHANGED <<idleTimer, promptTimer>>

\* Defect: a prompt that runs out only goes away.
Forgives == prompting' = FALSE /\ promptTimer' = FALSE /\ dialog' = FALSE
            /\ UNCHANGED <<paused, idleTimer, sessionVars>>

\* pause(): it comes from a prompt, and there is none once it is paused.
Pause ==
  /\ paused' = TRUE /\ prompting' = FALSE /\ dialog' = FALSE
  /\ idleTimer' = FALSE /\ promptTimer' = FALSE
  /\ StopPush

\* Any event of the mouse or the keyboard on the page.
Touched ==
  /\ ~hidden
  /\ IF paused THEN Resume ELSE Reset(prompting) /\ UNCHANGED sessionVars
  /\ UNCHANGED <<token, hidden>>

IdleTimesOut ==
  /\ idleTimer /\ idleTimer' = FALSE
  /\ IF ~token \/ paused \/ prompting THEN UNCHANGED <<prompting, promptTimer, dialog>>
     ELSE prompting' = TRUE /\ promptTimer' = TRUE /\ dialog' = TRUE
  /\ UNCHANGED <<token, hidden, paused, sessionVars>>

PromptTimesOut == promptTimer /\ Pause /\ UNCHANGED <<token, hidden>>

\* The buttons of the prompt, and its being closed.
GoesOn ==
  /\ dialog /\ ~hidden /\ dialog' = FALSE
  /\ prompting' = FALSE
  /\ IF token THEN ResetIdle(FALSE) ELSE UNCHANGED <<idleTimer, promptTimer>>
  /\ UNCHANGED <<token, hidden, paused, sessionVars>>

PausesNow == dialog /\ ~hidden /\ Pause /\ UNCHANGED <<token, hidden>>

Dismisses ==
  /\ dialog /\ ~hidden /\ dialog' = FALSE
  /\ UNCHANGED <<token, hidden, sessionVars, paused, prompting, idleTimer, promptTimer>>

--------------------------------------------------------------------------------
(* The page.                                                                   *)

\* doLogin and showApp, or showApp as the page loads, in a tab that may be hidden; the
\* password is typed, so that the guard is not paused.
LogsIn ==
  /\ ~token /\ ~paused
  /\ token' = TRUE
  /\ OpensPush
  /\ ResetIdle(prompting)
  /\ UNCHANGED <<hidden, paused, prompting, dialog>>

\* The button, or a request that is answered 401: showAuth.
LogsOut == token /\ token' = FALSE /\ StopPush /\ UNCHANGED <<hidden, guardVars>>

\* visibilitychange.
Hides == ~hidden /\ hidden' = TRUE /\ StopPush /\ UNCHANGED <<token, guardVars>>

Shows == hidden /\ hidden' = FALSE /\ StartPush /\ UNCHANGED <<token, guardVars>>

Viewer == LogsIn \/ LogsOut \/ Hides \/ Shows \/ Touched \/ GoesOn \/ PausesNow \/ Dismisses

PushNext ==
  \/ Viewer
  \/ IdleTimesOut \/ PromptTimesOut \/ Reconnects
  \/ \E s \in Sockets : SocketOpens(s) \/ SocketDies(s) \/ WatcherRejected(s)

\* Timers fire, and an attempt to connect succeeds or fails.
PushFairness ==
  /\ WF_pushVars(IdleTimesOut) /\ WF_pushVars(PromptTimesOut) /\ WF_pushVars(Reconnects)
  /\ \A s \in Sockets : WF_pushVars(SocketOpens(s))

FairPushSpec == PushInit /\ [][PushNext]_pushVars /\ PushFairness

--------------------------------------------------------------------------------
(* Properties.                                                                 *)

\* A page nobody touches any more stops watching: no viewer stays to keep the agents
\* at their short interval.  Not held to it are a page that was shown again after the
\* guard had paused it, which is connected and not guarded, and one that opened a
\* second socket as a timer was pending, as the first is never closed.
IdleStopsViewing ==
  <>[][~Viewer]_pushVars => <>[](Live = {} \/ (paused /\ ~pushClosed) \/ crossed)

\* A visible page of a user who is logged in and not idle is connected again after
\* every failure, whatever the tab, the guard and the timers went through before.
VisibleIsLive ==
  (/\ <>[](token /\ ~hidden /\ ~paused)
   /\ <>[][\A s \in Sockets : ~SocketDies(s)]_pushVars) => <>[](\E s \in pushWs : pushSocket[s] = "open")
================================================================================
