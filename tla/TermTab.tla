-------------------------------- MODULE TermTab --------------------------------
(***************************************************************************)
(* One terminal tab of the page: TermSession (api.js), which opens a       *)
(* session, keeps a socket to it, tries again when the socket closes and   *)
(* builds the session anew when nothing comes out of it.                   *)
(*                                                                         *)
(* What is written into the terminal is left out but for its last word:    *)
(* that the connection, or the login, is gone.                             *)
(*                                                                         *)
(* Operators marked "Defect:" are no part of the model, see OperationJobs. *)
(***************************************************************************)
EXTENDS Naturals, FiniteSets

CONSTANTS
  Shells,        \* bound: sockets that live at a time
  MaxRequests,   \* bound: POST /api/terminal not answered
  TermRetryMax

ASSUME TermAssumption ==
  Shells # {} /\ MaxRequests \in Nat \ {0} /\ TermRetryMax \in Nat

VARIABLES
  closed,       \* the fields of TermSession
  retries,
  retryTimer,
  noDataTimer,  \* the socket it is about
  rebuilding,
  ws,
  requests,     \* POST /api/terminal not answered
  socket,       \* state of every socket; "closing" once w.close() was called
  told,         \* the user was told that no attempt follows
  outrun          \* history: a socket closed after another had taken its place

termVars == <<closed, retries, retryTimer, noDataTimer, rebuilding, ws, requests,
              socket, told, outrun>>

TermTypeOK ==
  /\ {closed, retryTimer, rebuilding, told, outrun} \subseteq BOOLEAN
  /\ retries \in 0..TermRetryMax
  /\ ws \in SUBSET Shells /\ noDataTimer \in SUBSET Shells
  /\ requests \in 0..MaxRequests
  /\ socket \in [Shells -> {"none", "connecting", "open", "closing"}]

\* The tab is created and open(serverId) has asked for a session.
TermInit ==
  /\ closed = FALSE /\ retries = 0 /\ retryTimer = FALSE /\ noDataTimer = {}
  /\ rebuilding = FALSE /\ ws = {} /\ requests = 1
  /\ socket = [s \in Shells |-> "none"]
  /\ told = FALSE /\ outrun = FALSE

--------------------------------------------------------------------------------

\* open(): a POST, which is answered once.
RequestsSession == requests < MaxRequests /\ requests' = requests + 1

\* scheduleRetry, unless the attempts are used up.
TriesAgain ==
  IF retries < TermRetryMax
  THEN retries' = retries + 1 /\ retryTimer' = TRUE /\ UNCHANGED told
  ELSE told' = TRUE /\ UNCHANGED <<retries, retryTimer>>

\* The answer: a tab closed meanwhile does not use it, and the session stays unused.
GetsSession ==
  /\ requests > 0 /\ requests' = requests - 1
  /\ IF closed THEN UNCHANGED <<ws, socket>>
     ELSE \E s \in Shells :
            /\ socket[s] = "none"
            /\ ws' = {s} /\ socket' = [socket EXCEPT ![s] = "connecting"]
  /\ UNCHANGED <<closed, retries, retryTimer, noDataTimer, rebuilding, told, outrun>>

\* Defect: only sockets that close are followed by another attempt.
FailsForGood ==
  /\ requests > 0 /\ requests' = requests - 1
  /\ UNCHANGED <<closed, retries, retryTimer, noDataTimer, rebuilding, ws, socket, told, outrun>>

GetsError ==
  /\ requests > 0 /\ requests' = requests - 1
  /\ IF closed THEN UNCHANGED <<retries, retryTimer, told>> ELSE TriesAgain
  /\ UNCHANGED <<closed, noDataTimer, rebuilding, ws, socket, outrun>>

RetryFires ==
  /\ retryTimer /\ retryTimer' = FALSE
  /\ IF closed THEN UNCHANGED requests ELSE RequestsSession
  /\ UNCHANGED <<closed, retries, noDataTimer, rebuilding, ws, socket, told, outrun>>

\* _onOpen.
Opened(s) ==
  /\ socket[s] = "connecting"
  /\ socket' = [socket EXCEPT ![s] = "open"]
  /\ retries' = 0 /\ rebuilding' = FALSE /\ noDataTimer' = {s}
  /\ UNCHANGED <<closed, retryTimer, ws, requests, told, outrun>>

\* _onMessage, of any socket.
GetsData(s) ==
  /\ socket[s] = "open"
  /\ noDataTimer' = {}
  /\ UNCHANGED <<closed, retries, retryTimer, rebuilding, ws, requests, socket, told, outrun>>

\* No data for 8 s: the session is built anew.
NoData ==
  \E s \in noDataTimer :
    /\ noDataTimer' = {}
    /\ IF rebuilding THEN UNCHANGED <<rebuilding, socket, requests>>
       ELSE /\ rebuilding' = TRUE
            /\ socket' = [socket EXCEPT ![s] = "closing"]
            /\ RequestsSession
    /\ UNCHANGED <<closed, retries, retryTimer, ws, told, outrun>>

\* Defect: the close that the rebuilding itself brought about counts as a failure.
Regardless(s) == closed

IsExpected(s) == closed \/ rebuilding

\* _onClose, of any socket.
Closes(s) ==
  /\ socket[s] # "none"
  /\ socket' = [socket EXCEPT ![s] = "none"]
  /\ outrun' = (outrun \/ (~IsExpected(s) /\ s \notin ws))
  /\ IF IsExpected(s) THEN UNCHANGED <<retries, retryTimer, noDataTimer, told>>
     ELSE noDataTimer' = {} /\ TriesAgain
  /\ UNCHANGED <<closed, rebuilding, ws, requests>>

\* _onClose with code 1008: the session is over and nothing else is closed.
IsRejected(s) ==
  /\ socket[s] = "open" /\ ~closed /\ ~rebuilding
  /\ socket' = [socket EXCEPT ![s] = "none"]
  /\ closed' = TRUE /\ told' = TRUE /\ noDataTimer' = {}
  /\ outrun' = (outrun \/ s \notin ws)
  /\ UNCHANGED <<retries, retryTimer, rebuilding, ws, requests>>

\* close(): the tab, or the whole window of terminals.
TabCloses ==
  /\ ~closed
  /\ closed' = TRUE /\ noDataTimer' = {} /\ retryTimer' = FALSE
  /\ socket' = [s \in Shells |-> IF s \in ws THEN "none" ELSE socket[s]]
  /\ UNCHANGED <<retries, rebuilding, ws, requests, told, outrun>>

TermNext ==
  \/ GetsSession \/ GetsError \/ RetryFires \/ NoData \/ TabCloses
  \/ \E s \in Shells : Opened(s) \/ GetsData(s) \/ Closes(s) \/ IsRejected(s)

TermSpec == TermInit /\ [][TermNext]_termVars

--------------------------------------------------------------------------------
(* Properties.                                                                 *)

Open == {s \in Shells : socket[s] \in {"connecting", "open"}}

\* A tab that is not closed and has not said that it is over has a socket, or is about
\* to have one.  One that is being built anew is not held to it: when its socket
\* closes before it opens, no attempt follows and none is announced.
TabIsTended ==
  closed \/ told \/ retryTimer \/ requests > 0 \/ rebuilding \/ Open # {}

\* However requests, timers, rebuilding and closing crossed, no shell runs behind a tab
\* that does not show it, unless the socket of an older session closed so late
\* that it took away the present one.
NoGhostShell == outrun \/ Open \subseteq (IF closed THEN {} ELSE ws)
================================================================================
