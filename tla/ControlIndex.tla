----------------------------- MODULE ControlIndex -----------------------------
(***************************************************************************)
(* Which control connection a shard of TerminalDO takes for the agent of   *)
(* one server (this.agents), and whether a command may be sent on it       *)
(* without asking first (probeCapable, lastRoundTripAt).  Connections      *)
(* overlap: the agent reconnects before the old one is known to be dead,   *)
(* a second instance has the same key, an administrator gives the server a *)
(* new key or deletes it, and the object leaves memory, after which        *)
(* rebuildIndex has only the sockets and their attachments.                *)
(*                                                                         *)
(* A socket the server has closed stays with the object until the peer     *)
(* answers, for ever when the peer is gone, and still delivers what the    *)
(* peer sent before.  Attachments of the old format (a string) and the     *)
(* intervals, see ViewerRates, are left out; time stamps differ.           *)
(*                                                                         *)
(* Operators marked "Defect:" are no part of the model, see OperationJobs. *)
(***************************************************************************)
EXTENDS Naturals, FiniteSets, FiniteSetsExt

CONSTANTS
  MaxConn,  \* bound: control connections, of all processes of the agent
  Spans     \* bounds of one behaviour: how many of them, whether they may declare
            \* probe_proto and commands end, whether the key changes

ASSUME IndexAssumption ==
  MaxConn \in Nat \ {0} /\ Spans \subseteq [conns : 1..MaxConn, links : BOOLEAN, changes : BOOLEAN]

Conn == 1..MaxConn

VARIABLES
  span,       \* not in the code: the scope of the behaviour
  exists,     \* the server is in D1
  dropping,   \* its key is changed or it is deleted, drop_server not yet called
  sock,       \* of each connection; "verified" once the handshake has checked the key
  peer,       \* the agent at its other end: [alive, proto (declares probe_proto)]
  keyOf,      \* the key it was let in with: "current", or "old"; "missed" if drop_server
              \* could not know the connection, or was not told of it
  ts,         \* ts of its attachment
  attached,   \* rtt and probe of its attachment
  agents,     \* this.agents.get(server)
  capable,    \* this.probeCapable.has(server)
  trip,       \* this.lastRoundTripAt: "stale" for EXEC_ROUNDTRIP_TTL_MS and more
  probed,     \* this.lastProbeAt is less than PROBE_REFRESH_MS ago
  asked       \* connections with a probe the agent has not answered

keyVars == <<span, exists, dropping>>
connVars == <<sock, peer, keyOf, ts>>
trustVars == <<attached, capable, trip, probed, asked>>
indexVars == <<keyVars, connVars, agents, trustVars>>

Trip == {"none", "fresh", "stale"}
Attachment == [probe : BOOLEAN, rtt : Trip]
NoMark == [probe |-> FALSE, rtt |-> "none"]
Absent == [alive |-> FALSE, proto |-> FALSE]

IndexTypeOK ==
  /\ span \in Spans
  /\ exists \in BOOLEAN
  /\ dropping \in BOOLEAN
  /\ sock \in [Conn -> {"new", "verified", "open", "closing", "gone"}]
  /\ peer \in [Conn -> [alive : BOOLEAN, proto : BOOLEAN]]
  /\ keyOf \in [Conn -> {"none", "current", "old", "missed"}]
  /\ ts \in [Conn -> Nat]
  /\ attached \in [Conn -> Attachment]
  /\ agents \in SUBSET Conn /\ Cardinality(agents) <= 1
  /\ capable \in BOOLEAN
  /\ trip \in Trip
  /\ probed \in BOOLEAN
  /\ asked \in SUBSET Conn

IndexInit ==
  /\ span \in Spans
  /\ exists = TRUE
  /\ dropping = FALSE
  /\ sock = [c \in Conn |-> "new"]
  /\ peer = [c \in Conn |-> Absent]
  /\ keyOf = [c \in Conn |-> "none"]
  /\ ts = [c \in Conn |-> 0]
  /\ attached = [c \in Conn |-> NoMark]
  /\ agents = {}
  /\ capable = FALSE
  /\ trip = "none"
  /\ probed = FALSE
  /\ asked = {}

\* getWebSockets
Listed == {c \in Conn : sock[c] \in {"open", "closing"}}

\* closeWs
Closed(S) == [c \in Conn |-> IF c \in S /\ sock[c] = "open" THEN "closing" ELSE sock[c]]

--------------------------------------------------------------------------------
(* Connections.                                                                *)

\* /ws/agent/control: the key is found in D1 and verified.
Verify(c) ==
  /\ exists /\ sock[c] = "new"
  /\ c <= span.conns /\ \A b \in 1..(c - 1) : sock[b] # "new"
  /\ \E p \in {FALSE, span.links} : peer' = [peer EXCEPT ![c] = [alive |-> TRUE, proto |-> p]]
  /\ sock' = [sock EXCEPT ![c] = "verified"]
  /\ keyOf' = [keyOf EXCEPT ![c] = "current"]
  /\ UNCHANGED <<keyVars, ts, agents, trustVars>>

\* The rest of the handshake, up to the next await: the connection takes the place of
\* the one registered, which is closed.  What is known of the link stays.
Accept(c) ==
  /\ sock[c] = "verified"
  /\ sock' = [Closed(agents) EXCEPT ![c] = "open"]
  /\ ts' = [ts EXCEPT ![c] = Max({ts[d] : d \in Conn}) + 1]
  /\ agents' = {c}
  /\ UNCHANGED <<keyVars, peer, keyOf, trustVars>>

\* The agent's end disappears and nobody is told.
Vanishes(c) ==
  /\ peer[c].alive
  /\ peer' = [peer EXCEPT ![c] = Absent]
  /\ asked' = asked \ {c}
  /\ UNCHANGED <<keyVars, sock, keyOf, ts, agents, attached, capable, trip, probed>>

\* cleanup: what is known of the link goes with the connection that is registered.
Cleanup(c) ==
  /\ c \in Listed
  /\ sock' = [sock EXCEPT ![c] = "gone"]
  /\ keyOf' = [keyOf EXCEPT ![c] = "none"]
  /\ ts' = [ts EXCEPT ![c] = 0]
  /\ peer' = [peer EXCEPT ![c] = Absent]
  /\ attached' = [attached EXCEPT ![c] = NoMark]
  /\ asked' = asked \ {c}
  /\ \/ agents = {c} /\ agents' = {} /\ capable' = FALSE /\ trip' = "none" /\ probed' = FALSE
     \/ agents # {c} /\ UNCHANGED <<agents, capable, trip, probed>>
  /\ UNCHANGED keyVars

\* Defect: the connection listed last wins, whatever its time stamp.
LastOf(S) == S

Winners(S) == {c \in S : \A d \in S : ts[d] <= ts[c]}

\* The object leaves memory, with the handshakes under way; rebuildIndex, at the next
\* event, registers the latest connection and closes none.
IndexEvicted ==
  /\ sock' = [c \in Conn |-> IF sock[c] = "verified" THEN "gone" ELSE sock[c]]
  /\ probed' = FALSE
  /\ IF Listed = {}
     THEN agents' = {} /\ capable' = FALSE /\ trip' = "none"
     ELSE \E c \in Winners(Listed) :
            agents' = {c} /\ capable' = attached[c].probe /\ trip' = attached[c].rtt
  /\ UNCHANGED <<keyVars, peer, keyOf, ts, attached, asked>>

--------------------------------------------------------------------------------
(* Keys.                                                                       *)

\* rotate-key and the batch of deleteServerCascade: the row first.
KeyChanges ==
  /\ span.changes /\ exists /\ ~ dropping
  /\ exists' \in BOOLEAN
  /\ dropping' = TRUE
  /\ keyOf' = [c \in Conn |-> IF keyOf[c] = "current" THEN "old" ELSE keyOf[c]]
  /\ UNCHANGED <<span, sock, peer, ts, agents, trustVars>>

\* Defect: the connection is only taken out of the index.
Forgets(S) == sock

CutOff(S) == Closed(S)

Missed(c) == IF keyOf[c] = "old" THEN "missed" ELSE keyOf[c]

\* /rpc/drop_server, a call that may fail.
DropServer ==
  /\ dropping /\ dropping' = FALSE
  /\ \/ /\ sock' = CutOff(agents)
        /\ agents' = {} /\ capable' = FALSE /\ trip' = "none" /\ probed' = FALSE
        /\ keyOf' = [c \in Conn |-> IF sock[c] = "verified" THEN Missed(c) ELSE keyOf[c]]
     \/ /\ keyOf' = [c \in Conn |-> Missed(c)]
        /\ UNCHANGED <<sock, agents, capable, trip, probed>>
  /\ UNCHANGED <<span, exists, peer, ts, attached, asked>>

--------------------------------------------------------------------------------
(* Frames from the agent.                                                      *)

TakesOver(c) == \A cur \in agents : sock[cur] # "open" \/ ts[c] >= ts[cur]

Heard(c) ==
  /\ c \in Listed /\ peer[c].alive
  /\ agents' = IF TakesOver(c) THEN {c} ELSE agents

\* pong: markRoundTrip and markProbeCapable
Pong(c) ==
  /\ c \in asked /\ peer[c].proto
  /\ Heard(c)
  /\ asked' = asked \ {c}
  /\ capable' = TRUE /\ trip' = "fresh"
  /\ attached' = [attached EXCEPT ![c] = [probe |-> TRUE, rtt |-> "fresh"]]
  /\ UNCHANGED <<keyVars, connVars, probed>>

\* exec_result: markRoundTrip
ExecResult(c) ==
  /\ span.links
  /\ Heard(c)
  /\ trip' = "fresh"
  /\ attached' = [attached EXCEPT ![c].rtt = "fresh"]
  /\ UNCHANGED <<keyVars, connVars, capable, probed, asked>>

\* Defect: an agent that no longer declares the protocol keeps the capability.
NeverCleared(c) == FALSE

NoLonger(c) == capable /\ ~ peer[c].proto

\* report: the capability follows what the agent declares, with it goes what a probe
\* has left, and a probe goes along if the last is old enough.
Reported(c) ==
  /\ Heard(c)
  /\ IF NoLonger(c)
     THEN /\ capable' = FALSE /\ trip' = "none" /\ probed' = FALSE
          /\ attached' = [attached EXCEPT ![c] = NoMark]
          /\ UNCHANGED asked
     ELSE /\ capable' = (capable \/ peer[c].proto)
          /\ attached' = IF capable' /\ ~ capable
                         THEN [attached EXCEPT ![c].probe = TRUE] ELSE attached
          /\ UNCHANGED trip
          /\ IF capable' /\ ~ probed THEN probed' = TRUE /\ asked' = asked \cup {c}
                                     ELSE UNCHANGED <<probed, asked>>
  /\ UNCHANGED <<keyVars, connVars>>

--------------------------------------------------------------------------------
(* Commands and time.                                                          *)

Trusted == capable => trip # "stale"

\* /rpc/exec/submit on a link that is not trusted; it sends a probe for the next time.
\* The command on one that is leaves all this as it is.
ExecRefused ==
  /\ agents # {} /\ ~ Trusted
  /\ probed' = TRUE
  /\ asked' = asked \cup {c \in agents : peer[c].alive}
  /\ UNCHANGED <<keyVars, connVars, agents, attached, capable, trip>>

Old(t) == IF t = "fresh" THEN "stale" ELSE t

\* What memory knows is never older than what the attachments know.
Ages ==
  /\ trip' \in {trip, Old(trip)}
  /\ attached' = [c \in Conn |-> [attached[c] EXCEPT !.rtt = Old(@)]]
  /\ <<trip, attached>>' # <<trip, attached>>
  /\ UNCHANGED <<keyVars, connVars, agents, capable, probed, asked>>

ProbeDue ==
  /\ probed /\ probed' = FALSE
  /\ UNCHANGED <<keyVars, connVars, agents, attached, capable, trip, asked>>

IndexNext ==
  \/ \E c \in Conn : \/ Verify(c) \/ Accept(c) \/ Vanishes(c) \/ Cleanup(c)
                     \/ Pong(c) \/ ExecResult(c) \/ Reported(c)
  \/ IndexEvicted \/ KeyChanges \/ DropServer
  \/ ExecRefused \/ Ages \/ ProbeDue

IndexSpec == IndexInit /\ [][IndexNext]_indexVars

\* An agent that is alive goes on reporting and answers probes.  Whether anything is
\* aged, refused, evicted or connected is left to chance.
IndexFairness ==
  /\ \A c \in Conn : WF_indexVars(Reported(c)) /\ WF_indexVars(Pong(c))
  /\ WF_indexVars(ProbeDue)

FairIndexSpec == IndexSpec /\ IndexFairness

--------------------------------------------------------------------------------
(* Properties.                                                                 *)

\* However connections overlapped and the object was evicted, no open connection but
\* the one registered is left: two processes with one key cannot both go on.
OneLiveConnection == \A c \in Conn : sock[c] = "open" => agents = {c}

\* Once a key was changed and drop_server has run, no connection let in with the old
\* key is left, unless its handshake had passed the check by then or the call failed.
RevokedIsOut == ~ dropping => \A c \in Conn : sock[c] = "open" => keyOf[c] # "old"

Upheaval == \/ \E c \in Conn : Verify(c) \/ Accept(c) \/ Vanishes(c) \/ Cleanup(c)
            \/ IndexEvicted \/ DropServer

\* Whatever an earlier connection, or an agent that was replaced by an older version,
\* has left behind: an agent whose connection lasts and that answers probes, or does
\* not know them, is found and gets commands again and again.
LinkRecovers ==
  <>[][~ Upheaval]_indexVars =>
    \A c \in Conn : <>[](sock[c] = "open" /\ peer[c].alive) => []<>(agents = {c} /\ Trusted)
================================================================================
