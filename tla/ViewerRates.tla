------------------------------ MODULE ViewerRates ------------------------------
(***************************************************************************)
(* The report interval of an agent: short while somebody watches the       *)
(* panel, long otherwise.  PanelDO broadcasts when its first viewer comes  *)
(* and when its last one goes (broadcastViewers); a shard of TerminalDO    *)
(* remembers the interval it last sent (agentInterval, and a copy in the   *)
(* attachment of the connection) and asks PanelDO for the number of        *)
(* viewers when an agent connects, or when a report finds neither.         *)
(*                                                                         *)
(* One server, hence one shard.  An interval is "fast" or "slow".  A       *)
(* socket delivers in order, so what is attached to an open connection is  *)
(* also what its agent was told last.  The time stamps of connections are  *)
(* their numbers.  Viewers that have not authenticated count nowhere and   *)
(* are left out.                                                           *)
(*                                                                         *)
(* Operators marked "Defect:" are no part of the model, see OperationJobs. *)
(***************************************************************************)
EXTENDS Naturals, FiniteSets, Sequences, SequencesExt

CONSTANTS
  Viewer,  \* browser connections, each comes and goes once
  MaxConn  \* bound: control connections the agent opens

ASSUME RatesAssumption == IsFiniteSet(Viewer) /\ MaxConn \in Nat \ {0}

Conn == 1..MaxConn
Interval == {"fast", "slow"}

VARIABLES
  socket,         \* of each viewer; "leaving" while its webSocketClose is under way
  broadcasts,     \* set_viewers calls under way, in the order they were sent
  stage,          \* of each control connection; "closing" once the server closed it
  conn,           \* this.agents.get(server), 0 when offline
  shaking,        \* connections whose upgrade request is still under way
  asking,         \* the /viewers call of each connection: "none", "asked", its answer
  agentInterval,  \* "none" when the map has no entry
  attached,       \* interval in the attachment of each connection
  inherited,      \* history: the map still has the interval of a replaced connection
  misled          \* history: one of the mishaps below has happened

panelVars == <<socket, broadcasts>>
indexVars == <<stage, conn, shaking>>
rateVars == <<agentInterval, attached, inherited>>
ratesVars == <<panelVars, indexVars, asking, rateVars, misled>>

RatesTypeOK ==
  /\ socket \in [Viewer -> {"absent", "viewer", "leaving", "gone"}]
  /\ broadcasts \in Seq(Interval)
  /\ stage \in [Conn -> {"new", "open", "closing", "closed"}]
  /\ conn \in Conn \cup {0}
  /\ shaking \subseteq Conn
  /\ asking \in [Conn -> Interval \cup {"none", "asked"}]
  /\ agentInterval \in Interval \cup {"none"}
  /\ attached \in [Conn -> Interval \cup {"none"}]
  /\ inherited \in BOOLEAN
  /\ misled \in BOOLEAN

RatesInit ==
  /\ socket = [v \in Viewer |-> "absent"]
  /\ broadcasts = <<>>
  /\ stage = [c \in Conn |-> "new"]
  /\ conn = 0
  /\ shaking = {}
  /\ asking = [c \in Conn |-> "none"]
  /\ agentInterval = "none"
  /\ attached = [c \in Conn |-> "none"]
  /\ inherited = FALSE
  /\ misled = FALSE

\* getWebSockets with a viewer attachment: a closing socket is in it until its
\* handler is done.
Listed == {v \in Viewer : socket[v] \in {"viewer", "leaving"}}
\* What /viewers would answer, and what those who really watch call for.
ViewersAnswer == IF Listed # {} THEN "fast" ELSE "slow"

Called == IF \E v \in Viewer : socket[v] = "viewer" THEN "fast" ELSE "slow"

\* The mishap happens if cond holds.
Mishap(cond) == misled' = (misled \/ cond)

--------------------------------------------------------------------------------
(* PanelDO.                                                                    *)

\* webSocketMessage, first frame.  A mishap: a socket whose close is still being
\* handled counts, so that the first viewer is not seen to be the first.
Authenticate(v) ==
  /\ socket[v] = "absent"
  /\ socket' = [socket EXCEPT ![v] = "viewer"]
  /\ broadcasts' = IF Listed = {} THEN Append(broadcasts, "fast") ELSE broadcasts
  /\ Mishap(Listed # {} /\ Called = "slow")
  /\ UNCHANGED <<indexVars, asking, rateVars>>

\* webSocketClose; the last one waits for its broadcast.
Leave(v) ==
  /\ socket[v] = "viewer"
  /\ IF Listed = {v} THEN /\ socket' = [socket EXCEPT ![v] = "leaving"]
                          /\ broadcasts' = Append(broadcasts, "slow")
                     ELSE /\ socket' = [socket EXCEPT ![v] = "gone"]
                          /\ UNCHANGED broadcasts
  /\ UNCHANGED <<indexVars, asking, rateVars, misled>>

Gone(v) ==
  /\ socket[v] = "leaving"
  /\ socket' = [socket EXCEPT ![v] = "gone"]
  /\ UNCHANGED <<broadcasts, indexVars, asking, rateVars, misled>>

\* The call fails or times out before the shard has it.
LoseBroadcast(i) ==
  /\ i \in DOMAIN broadcasts
  /\ broadcasts' = RemoveAt(broadcasts, i)
  /\ Mishap(TRUE)
  /\ UNCHANGED <<socket, indexVars, asking, rateVars>>

--------------------------------------------------------------------------------
(* TerminalDO: connections.                                                    *)

\* applyAgentInterval: memory, frame and attachment
ApplyAgentInterval(c, interval) ==
  /\ agentInterval' = interval
  /\ attached' = [attached EXCEPT ![c] = interval]
  /\ inherited' = (inherited /\ c # conn)

\* /ws/agent/control up to the /viewers call: the connection replaces the one in
\* the index, which is closed.
Connect(c) ==
  /\ stage[c] = "new"
  /\ \A b \in 1..(c - 1) : stage[b] # "new"
  /\ stage' = [b \in Conn |-> IF b = c THEN "open" ELSE IF b = conn THEN "closing" ELSE stage[b]]
  /\ conn' = c
  /\ shaking' = shaking \cup {c}
  /\ asking' = [asking EXCEPT ![c] = "asked"]
  /\ inherited' = (agentInterval # "none")
  /\ UNCHANGED <<panelVars, agentInterval, attached, misled>>

\* cleanup of a closed control connection
Cleanup(c) ==
  /\ stage[c] \in {"open", "closing"}
  /\ stage' = [stage EXCEPT ![c] = "closed"]
  /\ IF conn = c THEN conn' = 0 /\ agentInterval' = "none" /\ inherited' = FALSE
                 ELSE UNCHANGED <<conn, agentInterval, inherited>>
  /\ UNCHANGED <<panelVars, shaking, asking, attached, misled>>

\* Defect: an older connection's interval stays when the winner brings none.
RestoredStale(c) ==
  LET told == {b \in 1..c : stage[b] \in {"open", "closing"} /\ attached[b] # "none"}
  IN IF told = {} THEN "none" ELSE attached[CHOOSE b \in told : \A d \in told : d <= b]

\* What rebuildIndex puts into the map for the winner.
Restored(c) == attached[c]

\* Hibernation, once nothing is under way, and rebuildIndex at the next event: the
\* latest connection wins and brings its interval.

RebuildIndex ==
  LET alive == {c \in Conn : stage[c] \in {"open", "closing"}}
  IN /\ shaking = {} /\ \A c \in Conn : asking[c] = "none"
     /\ IF alive = {}
        THEN conn' = 0 /\ agentInterval' = "none"
        ELSE \E c \in alive : /\ \A b \in alive : b <= c
                              /\ conn' = c
                              /\ agentInterval' = Restored(c)
     /\ inherited' = FALSE
     /\ UNCHANGED <<panelVars, stage, shaking, asking, attached, misled>>

--------------------------------------------------------------------------------
(* TerminalDO: intervals.                                                      *)

\* /rpc/set_viewers.  A mishap: it overtakes an earlier one.
SetViewers(i) ==
  /\ i \in DOMAIN broadcasts
  /\ broadcasts' = RemoveAt(broadcasts, i)
  /\ IF conn # 0 /\ agentInterval # broadcasts[i]
     THEN ApplyAgentInterval(conn, broadcasts[i])
     ELSE UNCHANGED rateVars
  /\ Mishap(i # 1)
  /\ UNCHANGED <<socket, indexVars, asking>>

\* PanelDO counts its viewers for connection c.
CountViewers(c) ==
  /\ asking[c] = "asked"
  /\ asking' = [asking EXCEPT ![c] = ViewersAnswer]
  /\ UNCHANGED <<panelVars, indexVars, rateVars, misled>>

\* The handler on connection c goes on with interval.  Mishaps: the viewers have
\* changed meanwhile and no broadcast is left to say so; or c was replaced, and the
\* map, which knows servers only, now holds what the other connection was not told.
Conclude(c, interval) ==
  /\ ApplyAgentInterval(c, interval)
  /\ asking' = [asking EXCEPT ![c] = "none"]
  /\ shaking' = shaking \ {c}
  /\ Mishap(c # conn \/ (interval # Called /\ broadcasts = <<>>))
  /\ UNCHANGED <<panelVars, stage, conn>>

ReceiveCount(c) == asking[c] \in Interval /\ Conclude(c, asking[c])

\* The call of a report fails: slow.
ReportCallFails(c) == asking[c] # "none" /\ c \notin shaking /\ Conclude(c, "slow")

\* The call of the upgrade request fails: the agent keeps its own interval.
HandshakeCallFails(c) ==
  /\ asking[c] # "none" /\ c \in shaking
  /\ asking' = [asking EXCEPT ![c] = "none"]
  /\ shaking' = shaking \ {c}
  /\ UNCHANGED <<panelVars, stage, conn, rateVars, misled>>

\* A report: it may take over the index, then syncAgentInterval.  A mishap: the
\* report of a replaced connection brings the interval of that connection back.
TakesOver(c) == conn = 0 \/ stage[conn] # "open" \/ c >= conn

Report(c) ==
  /\ stage[c] \in {"open", "closing"} /\ c \notin shaking /\ asking[c] = "none"
  /\ conn' = IF TakesOver(c) THEN c ELSE conn
  /\ IF agentInterval # "none"
     THEN UNCHANGED <<agentInterval, asking, misled>>
     ELSE IF attached[c] # "none"
     THEN agentInterval' = attached[c] /\ Mishap(conn' # c) /\ UNCHANGED asking
     ELSE asking' = [asking EXCEPT ![c] = "asked"] /\ UNCHANGED <<agentInterval, misled>>
  /\ UNCHANGED <<panelVars, stage, shaking, attached, inherited>>

RatesNext ==
  \/ \E v \in Viewer : Authenticate(v) \/ Leave(v) \/ Gone(v)
  \/ \E i \in 1..(2 * Cardinality(Viewer)) : LoseBroadcast(i) \/ SetViewers(i)
  \/ \E c \in Conn : \/ Connect(c) \/ Cleanup(c) \/ Report(c)
                     \/ CountViewers(c) \/ ReceiveCount(c)
                     \/ ReportCallFails(c) \/ HandshakeCallFails(c)
  \/ RebuildIndex

RatesSpec == RatesInit /\ [][RatesNext]_ratesVars

--------------------------------------------------------------------------------

\* Nothing is under way that could still change an interval.
Quiet == broadcasts = <<>> /\ \A c \in Conn : asking[c] = "none"

\* Whatever the order of viewers, connections, hibernation and reports: once things
\* are quiet, an agent for which the map has an interval (so that no report will ask
\* again) was told the one the viewers call for.  Except after one of the mishaps
\* marked above, and where a failed call of the upgrade request has left the agent
\* with the interval of the connection it replaced.
RateSettles ==
  Quiet /\ agentInterval # "none" /\ ~ inherited /\ ~ misled =>
    \A c \in Conn : conn = c /\ stage[c] = "open" => attached[c] = Called
================================================================================
