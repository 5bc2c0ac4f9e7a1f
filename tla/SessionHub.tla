------------------------------ MODULE SessionHub ------------------------------
(***************************************************************************)
(* The terminal and file sessions of one server in TerminalDO              *)
(* (do-terminal.js): a browser socket that must authenticate first, the    *)
(* data stream the agent opens, the pair of them closed together, expiry   *)
(* by alarm, and the authorisation checked again while data flows.         *)
(*                                                                         *)
(* Sockets outlive the object: an eviction empties its memory, the         *)
(* attachments of the sockets rebuild part of it and storage the rest, one *)
(* session at a time.  Awaits of D1 are step boundaries, awaits of storage *)
(* are not (the input gate).  Of the data only whether it gets through is  *)
(* kept.  A stream id, a UUID, is used once.                               *)
(*                                                                         *)
(* Operators marked "Defect:" are no part of the model, see OperationJobs. *)
(***************************************************************************)
EXTENDS Naturals, FiniteSets, FiniteSetsExt

CONSTANTS
  Streams,
  Sockets,
  MaxSessions,  \* MAX_SESSIONS_PER_SERVER
  MaxPending,   \* MAX_PENDING_USER_WS
  Ttl,          \* SESSION_TTL_MS
  Abs,          \* SESSION_ABS_MS
  AuthTimeout,  \* WS_AUTH_TIMEOUT_MS
  CheckEvery,   \* PAT_CHECK_INTERVAL_MS
  Faults,       \* "evict" before a session has sockets, "d1" when a check reads it
  MaxAudits,    \* bound: file operations that await their audit record at once
  MaxNow        \* bound: the last tick

ASSUME HubAssumption ==
  /\ {MaxSessions, MaxPending, Ttl, Abs, AuthTimeout, CheckEvery, MaxAudits, MaxNow} \subseteq Nat \ {0}
  /\ Ttl < Abs
  /\ Faults \subseteq {"evict", "d1"}

VARIABLES
  now,
  created,    \* createdAt, 0 for a stream that does not exist yet
  hub,        \* what the object has in memory, see Hub
  stored,     \* sess:<id> in storage
  alarm,      \* {} or the time it is set to
  sock,       \* the sockets and their attachments, see Sock
  authing,    \* auth frames that await D1: for the identity, then for the server; the
              \* socket may be closed by then
  opening,    \* agent data streams that await D1, before they are accepted
  checking,   \* frames that await revalidateOrRevoke: stream, browser socket and what is known
  auditing,   \* file operations of browsers that passed the tests and await their audit record
  admin,      \* the user is an administrator
  lost,       \* 0 while the user may use the server, else since when not
  gone,       \* the server is deleted
  stray,      \* history: streams with a socket that was replaced, or of a removed session
  condemned,  \* history: browser sockets whose user was found to be without authority
  through     \* history: the browser socket of a frame that has just been passed on

awaits == <<authing, opening, checking, auditing>>
hubVars == <<now, created, hub, stored, alarm, sock, awaits, admin, lost, gone, stray, condemned, through>>

Times == 0..MaxNow

\* At most one, and what a map has for some keys.
Singly(S) == {{}} \cup {{x} : x \in S}
Partial(S, T) == UNION {[D -> T] : D \in SUBSET S}

\* What is in memory, this.sessions among it.
Sess == [user : Singly(Sockets), agent : Singly(Sockets), revoked : BOOLEAN, checked : Times]
Hub == [sess : Partial(Streams, Sess), rebuilt : BOOLEAN]

NewSess == [user |-> {}, agent |-> {}, revoked |-> FALSE, checked |-> 0]

\* What a check awaits: the identity, or the row of the server for a user whose
\* scopes and servers are known to allow it or not.
Phases == {"identity", "granted", "refused"}

Sock == [role : {"none", "pending", "user", "agent"}, of : Streams, deadline : 0..(MaxNow + AuthTimeout),
         closing : BOOLEAN]

HubTypeOK ==
  /\ now \in Times /\ created \in [Streams -> Times]
  /\ hub \in Hub
  /\ stored \subseteq Streams
  /\ alarm \in Singly(0..(MaxNow + Abs + AuthTimeout + 1))
  /\ sock \in Partial(Sockets, Sock)
  /\ authing \subseteq Sockets \X Streams \X {"identity", "server"}
  /\ opening \subseteq Streams
  /\ checking \subseteq Streams \X Sockets \X Phases
  /\ auditing \subseteq Streams \X Sockets
  /\ admin \in BOOLEAN /\ gone \in BOOLEAN /\ lost \in Times
  /\ stray \subseteq Streams
  /\ condemned \subseteq Sockets /\ through \subseteq Sockets

HubInit ==
  /\ now = 1 /\ created = [s \in Streams |-> 0]
  /\ hub = [sess |-> <<>>, rebuilt |-> TRUE]
  /\ stored = {} /\ alarm = {} /\ sock = <<>>
  /\ authing = {} /\ opening = {} /\ checking = {} /\ auditing = {}
  /\ admin \in BOOLEAN /\ lost = 0 /\ gone = FALSE
  /\ stray = {} /\ condemned = {} /\ through = {}

--------------------------------------------------------------------------------
(* What the events begin with.                                                 *)

Known == DOMAIN hub.sess

With(f, x, y) == [z \in DOMAIN f \cup {x} |-> IF z = x THEN y ELSE f[z]]

Without(f, xs) == [z \in DOMAIN f \ xs |-> f[z]]

Sockets_(role, s) == {k \in DOMAIN sock : sock[k].role = role /\ sock[k].of = s}

Attached == {sock[k].of : k \in {x \in DOMAIN sock : sock[x].role \in {"user", "agent"}}}

Old(h, s) == IF s \in DOMAIN h.sess THEN h.sess[s] ELSE NewSess

\* Of several sockets of a side the last one found stays.
Last(role, s) == IF Sockets_(role, s) = {} THEN {{}} ELSE {{k} : k \in Sockets_(role, s)}

Index(h, u, a) ==
  [s \in Attached \cup DOMAIN h.sess |->
     IF s \in Attached THEN [Old(h, s) EXCEPT !.user = u[s], !.agent = a[s]] ELSE Old(h, s)]

\* rebuildIndex
Rebuilt(h) ==
  IF h.rebuilt THEN {h}
  ELSE {[sess |-> Index(h, c[1], c[2]), rebuilt |-> TRUE] :
          c \in {x \in [Attached -> SUBSET Sockets] \X [Attached -> SUBSET Sockets] :
                   \A s \in Attached : x[1][s] \in Last("user", s) /\ x[2][s] \in Last("agent", s)}}

Tired(h, s) == now > created[s] + Abs

Unattached(h, s) == h.sess[s].user = {} /\ h.sess[s].agent = {}

Expired(h) == {s \in DOMAIN h.sess : Tired(h, s) \/ (Unattached(h, s) /\ now > created[s] + Ttl)}

\* Browser sockets whose time to authenticate is over.
Late == {k \in DOMAIN sock : sock[k].role = "pending" /\ sock[k].deadline <= now}

\* Of which stream k is a socket, as far as anything refers to it.
Holds(s, k) ==
  \/ k \in DOMAIN sock /\ sock[k].of = s
  \/ s \in Known /\ k \in hub.sess[s].user
  \/ <<s, k>> \in auditing
  \/ \E w \in Phases : <<s, k, w>> \in checking
  \/ \E w \in {"identity", "server"} : <<k, s, w>> \in authing

\* A new socket: not one that an await or a session still has in hand.
New(k) == \A s \in Streams : ~ Holds(s, k)

Close(ks) == [k \in DOMAIN sock |-> [sock[k] EXCEPT !.closing = @ \/ k \in ks]]

\* maybeSweep of h: what is closed, and the alarm it leaves.
SweptSockets(h) ==
  Late \cup UNION {h.sess[s].user \cup h.sess[s].agent : s \in {x \in DOMAIN h.sess : Tired(h, x)}}

\* Defect: a session in use asks for no alarm.
PressingUnused(h) ==
  {created[s] + Ttl : s \in {x \in DOMAIN h.sess \ Expired(h) : Unattached(h, x)}}
    \cup {sock[k].deadline : k \in {x \in DOMAIN sock : sock[x].role = "pending"} \ Late}

\* What the alarm is to come for.
Pressing(h) ==
  {created[s] + (IF Unattached(h, s) THEN Ttl ELSE Abs) : s \in DOMAIN h.sess \ Expired(h)}
    \cup {sock[k].deadline : k \in {x \in DOMAIN sock : sock[x].role = "pending"} \ Late}

SweptAlarm(h) == IF Pressing(h) = {} THEN alarm ELSE {Min(Pressing(h)) + 1}

Swept(h) == [h EXCEPT !.sess = Without(@, Expired(h))]

Earlier(a, t) == IF \E x \in a : x <= t THEN a ELSE {t}

\* A request: maybeSweep, then rebuildIndex.
Begun == Rebuilt(Swept(hub))

\* A message or a close of a socket.
Woken == Rebuilt(hub)

\* hydrateSession
Hydrated(h, st, s) == IF s \in DOMAIN h.sess \/ s \notin st THEN h.sess ELSE With(h.sess, s, NewSess)

--------------------------------------------------------------------------------
(* Requests.                                                                   *)

\* create and open_file, behind isUpdating and with the agent connected; a
\* session beyond the limit is refused.
Create(s) ==
  /\ created[s] = 0 /\ ~ gone
  /\ \E h \in Begun :
       /\ Cardinality(DOMAIN h.sess) < MaxSessions
       /\ hub' = [h EXCEPT !.sess = With(@, s, NewSess)]
  /\ created' = [created EXCEPT ![s] = now]
  /\ stored' = (stored \ Expired(hub)) \cup {s}
  /\ alarm' = Earlier(SweptAlarm(hub), now + Ttl + 1)
  /\ sock' = Close(SweptSockets(hub))
  /\ through' = {}
  /\ UNCHANGED <<now, awaits, admin, lost, gone, stray, condemned>>

\* GET /ws/terminal/:id, /ws/file/:id
ConnectUser(s, k) ==
  /\ New(k)
  /\ Cardinality({x \in DOMAIN sock : sock[x].role = "pending"}) < MaxPending
  /\ \E h \in Begun :
       LET sess == Hydrated(h, stored \ Expired(hub), s)
       IN s \in DOMAIN sess /\ hub' = [h EXCEPT !.sess = sess]
  /\ stored' = stored \ Expired(hub)
  /\ alarm' = Earlier(SweptAlarm(hub), now + AuthTimeout)
  /\ sock' = With(Close(SweptSockets(hub)), k,
                  [role |-> "pending", of |-> s, deadline |-> now + AuthTimeout, closing |-> FALSE])
  /\ through' = {}
  /\ UNCHANGED <<now, created, awaits, admin, lost, gone, stray, condemned>>

\* GET /ws/agent/terminal, /ws/agent/file, up to the read of the server's key.
AgentAsks(s) ==
  /\ s \notin opening /\ ~ gone
  /\ \E h \in Begun :
       LET sess == Hydrated(h, stored \ Expired(hub), s)
       IN s \in DOMAIN sess /\ hub' = [h EXCEPT !.sess = sess]
  /\ opening' = opening \cup {s}
  /\ stored' = stored \ Expired(hub)
  /\ alarm' = SweptAlarm(hub)
  /\ sock' = Close(SweptSockets(hub))
  /\ through' = {}
  /\ UNCHANGED <<now, created, authing, checking, auditing, admin, lost, gone, stray, condemned>>

\* The socket is attached to the session that was found, removed since or not.
AgentAttaches(s, k) ==
  /\ s \in opening /\ New(k)
  /\ opening' = opening \ {s}
  /\ sock' = With(sock, k, [role |-> "agent", of |-> s, deadline |-> 0, closing |-> FALSE])
  /\ IF s \in Known
     THEN /\ hub' = [hub EXCEPT !.sess[s].agent = {k}]
          /\ stray' = stray \cup {x \in {s} : hub.sess[s].agent # {}}
     ELSE stray' = stray \cup {s} /\ UNCHANGED hub
  /\ through' = {}
  /\ UNCHANGED <<now, created, stored, alarm, authing, checking, auditing, admin, lost, gone, condemned>>

\* A control connection of the agent: dropAgentSessions.
DropAgentSessions ==
  /\ \E h \in Begun :
       /\ hub' = h
       /\ sock' = Close(SweptSockets(hub) \cup UNION {h.sess[s].agent : s \in DOMAIN h.sess})
  /\ stored' = stored \ Expired(hub)
  /\ alarm' = SweptAlarm(hub)
  /\ through' = {}
  /\ UNCHANGED <<now, created, awaits, admin, lost, gone, stray, condemned>>

\* drop_server
DropServer ==
  /\ ~ gone /\ gone' = TRUE
  /\ \E h \in Begun :
       /\ hub' = [h EXCEPT !.sess = <<>>]
       /\ sock' = Close(SweptSockets(hub)
                         \cup UNION {h.sess[s].user \cup h.sess[s].agent : s \in DOMAIN h.sess})
       /\ stored' = stored \ (Expired(hub) \cup DOMAIN h.sess)
  /\ alarm' = SweptAlarm(hub)
  /\ through' = {}
  /\ UNCHANGED <<now, created, awaits, admin, lost, stray, condemned>>

--------------------------------------------------------------------------------
(* Messages.                                                                   *)

Open(k) == k \in DOMAIN sock /\ ~ sock[k].closing

\* The first frame of a browser socket, up to the identity of its token.
AuthBegins(k) ==
  /\ Open(k) /\ sock[k].role = "pending" /\ \A x \in authing : x[1] # k
  /\ hub' \in Woken
  /\ IF now > sock[k].deadline
     THEN sock' = Close({k}) /\ UNCHANGED authing
     ELSE authing' = authing \cup {<<k, sock[k].of, "identity">>} /\ UNCHANGED sock
  /\ through' = {}
  /\ UNCHANGED <<now, created, stored, alarm, opening, checking, auditing, admin, lost, gone, stray, condemned>>

\* The session becomes the user's, also of a socket that was closed meanwhile, or
\* nobody's when it was removed.
Attach(h, s, k) ==
  /\ sock' = [x \in DOMAIN sock |-> [sock[x] EXCEPT !.role = IF x = k THEN "user" ELSE @]]
  /\ IF s \in DOMAIN h.sess
     THEN /\ hub' = [h EXCEPT !.sess[s] = [@ EXCEPT !.user = {k}, !.checked = now]]
          /\ stray' = stray \cup {x \in {s} : h.sess[s].user \cap DOMAIN sock # {}}
     ELSE hub' = h /\ stray' = stray \cup {s}

\* The identity arrives: an administrator is in, any other user awaits the row
\* of the server.
AuthIdentified(s, k) ==
  /\ <<k, s, "identity">> \in authing
  /\ LET h == [hub EXCEPT !.sess = Hydrated(hub, stored, s)]
         known == lost = 0 /\ s \in DOMAIN h.sess
     IN IF known /\ admin
        THEN Attach(h, s, k) /\ authing' = authing \ {<<k, s, "identity">>}
        ELSE /\ hub' = h
             /\ sock' = Close({x \in {k} : ~ known})
             /\ authing' = (authing \ {<<k, s, "identity">>}) \cup {<<x, s, "server">> : x \in {y \in {k} : known}}
             /\ UNCHANGED stray
  /\ through' = {}
  /\ UNCHANGED <<now, created, stored, alarm, opening, checking, auditing, admin, lost, gone, condemned>>

AuthAllowed(s, k) ==
  /\ <<k, s, "server">> \in authing
  /\ authing' = authing \ {<<k, s, "server">>}
  /\ IF gone THEN sock' = Close({k}) /\ UNCHANGED <<hub, stray>>
             ELSE Attach(hub, s, k)
  /\ through' = {}
  /\ UNCHANGED <<now, created, stored, alarm, opening, checking, auditing, admin, lost, gone, condemned>>

\* Defect: the mark of the session is not looked at.
PassableUnmarked(x) == x.checked # 0 /\ now < x.checked + CheckEvery

\* Defect: who was checked once is not checked again.
PassableEver(x) == ~ x.revoked /\ x.checked # 0

\* authRecheckDue: without a read of D1.
Passable(x) == ~ x.revoked /\ x.checked # 0 /\ now < x.checked + CheckEvery

\* Of a browser's frame that is a file operation the record is written first.
Audits(s, k) ==
  /\ Cardinality(auditing) < MaxAudits
  /\ <<s, k>> \notin auditing /\ auditing' = auditing \cup {<<s, k>>}
  /\ through' = {}

\* A frame on socket k of the session, passed on at once or after a check; one
\* for a browser that has been closed fails.
Frame(s, k) ==
  /\ k \in DOMAIN sock
  /\ \E h \in Woken :
       /\ s \in DOMAIN h.sess
       /\ LET x == h.sess[s] IN
          /\ k \in x.user \cup x.agent /\ x.user # {}
          /\ IF Passable(x)
             THEN /\ \/ through' = {u \in x.user : u = k \/ Open(u)} /\ UNCHANGED auditing
                     \/ k \in x.user /\ Audits(s, k)
                  /\ hub' = h
                  /\ UNCHANGED checking
             ELSE /\ through' = {}
                  /\ hub' = [h EXCEPT !.sess[s].checked = IF x.revoked THEN @ ELSE now]
                  /\ checking' = checking \cup (IF x.revoked THEN {} ELSE {s} \X x.user \X {"identity"})
                  /\ UNCHANGED auditing
  /\ UNCHANGED <<now, created, stored, alarm, sock, authing, opening, admin, lost, gone, stray, condemned>>

\* The record is written, or could not be: the frame goes on, and nothing is tested
\* again.
Audited(s, k) ==
  /\ <<s, k>> \in auditing /\ auditing' = auditing \ {<<s, k>>}
  /\ through' = {k}
  /\ UNCHANGED <<now, created, hub, stored, alarm, sock, authing, opening, checking, admin, lost, gone, stray, condemned>>

\* The checked frame goes on: the agent's, or the one of the browser.
GoesOn(s, k) ==
  /\ \/ through' = {u \in Sockets : s \in Known /\ u \in hub.sess[s].user} /\ UNCHANGED auditing
     \/ through' = {k} /\ UNCHANGED auditing
     \/ Audits(s, k)
  /\ UNCHANGED <<hub, sock, condemned>>

\* revokeSession
Condemns(s, k) ==
  /\ hub' = IF s \in Known THEN [hub EXCEPT !.sess[s].revoked = TRUE] ELSE hub
  /\ sock' = IF k \in DOMAIN sock THEN Close({k}) ELSE sock
  /\ condemned' = condemned \cup {k}
  /\ through' = {}
  /\ UNCHANGED auditing

\* A read of D1 that fails takes the frame with it.
CheckFails == "d1" \in Faults /\ through' = {} /\ UNCHANGED <<hub, sock, condemned, auditing>>

\* The identity arrives: an administrator's frame goes on, a token that is no longer
\* valid ends the session, anything else awaits the row of the server.
CheckIdentity(s, k) ==
  LET rest == checking \ {<<s, k, "identity">>} IN
  /\ <<s, k, "identity">> \in checking
  /\ \/ checking' = rest /\ (\/ lost = 0 /\ admin /\ GoesOn(s, k)
                             \/ lost > 0 /\ Condemns(s, k)
                             \/ CheckFails)
     \/ /\ ~ (lost = 0 /\ admin)
        /\ checking' = rest \cup {<<s, k, IF lost = 0 THEN "granted" ELSE "refused">>}
        /\ through' = {}
        /\ UNCHANGED <<hub, sock, condemned, auditing>>
  /\ UNCHANGED <<now, created, stored, alarm, authing, opening, admin, lost, gone, stray>>

\* The row of the server, for the scopes and servers read before.
CheckServer(s, k) ==
  /\ \E answer \in {"granted", "refused"} :
       /\ <<s, k, answer>> \in checking /\ checking' = checking \ {<<s, k, answer>>}
       /\ \/ answer = "granted" /\ ~ gone /\ GoesOn(s, k)
          \/ (answer = "refused" \/ gone) /\ Condemns(s, k)
          \/ CheckFails
  /\ UNCHANGED <<now, created, stored, alarm, authing, opening, admin, lost, gone, stray>>

\* The sessions that lose their last socket with k.
Emptied(h, k) ==
  {s \in DOMAIN h.sess : /\ h.sess[s].user \subseteq {k} /\ h.sess[s].agent \subseteq {k}
                        /\ k \in h.sess[s].user \cup h.sess[s].agent}

\* The other side of the sessions k is a side of.
Partners(h, k) ==
  UNION {(h.sess[s].user \cup h.sess[s].agent) \ {k} :
           s \in {x \in DOMAIN h.sess : k \in h.sess[x].user \cup h.sess[x].agent}}

Left(h, k) ==
  [s \in DOMAIN h.sess \ Emptied(h, k) |->
     [h.sess[s] EXCEPT !.user = h.sess[s].user \ {k}, !.agent = h.sess[s].agent \ {k}]]

\* webSocketClose: cleanup of the sessions.
SocketCloses(k) ==
  /\ k \in DOMAIN sock
  /\ \E h \in Woken :
       /\ sock' = Without(Close(Partners(h, k)), {k})
       /\ hub' = [h EXCEPT !.sess = Left(h, k)]
       /\ stored' = stored \ Emptied(h, k)
  /\ through' = {}
  /\ condemned' = condemned \ {k}
  /\ UNCHANGED <<now, created, alarm, awaits, admin, lost, gone, stray>>

--------------------------------------------------------------------------------

\* alarm: rebuildIndex, then maybeSweep.
Alarm ==
  /\ \E t \in alarm : t <= now
  /\ \E h \in Woken :
       /\ hub' = Swept(h)
       /\ stored' = stored \ Expired(h)
       /\ sock' = Close(SweptSockets(h))
       /\ alarm' = {t \in SweptAlarm(h) : t > now}
  /\ through' = {}
  /\ UNCHANGED <<now, created, awaits, admin, lost, gone, stray, condemned>>

\* The object leaves memory, at rest or not.
Evict ==
  /\ "evict" \in Faults \/ \A s \in stored : Sockets_("user", s) \cup Sockets_("agent", s) # {}
  /\ hub' = [sess |-> <<>>, rebuilt |-> FALSE]
  /\ authing' = {} /\ opening' = {} /\ checking' = {} /\ auditing' = {}
  /\ stray' = stray \cup {s \in Streams \ stored : Sockets_("user", s) \cup Sockets_("agent", s) # {}}
  /\ through' = {}
  /\ UNCHANGED <<now, created, stored, alarm, sock, admin, lost, gone, condemned>>

\* Scopes or the list of servers are narrowed.
Revoke ==
  /\ lost = 0 /\ lost' = now
  /\ through' = {}
  /\ UNCHANGED <<now, created, hub, stored, alarm, sock, awaits, admin, gone, stray, condemned>>

\* D1 answers, and the alarm fires, within a tick.
Tick ==
  /\ now < MaxNow
  /\ authing = {} /\ opening = {} /\ checking = {} /\ auditing = {}
  /\ \A t \in alarm : t > now
  /\ now' = now + 1
  /\ through' = {}
  /\ UNCHANGED <<created, hub, stored, alarm, sock, awaits, admin, lost, gone, stray, condemned>>

HubNext ==
  \/ \E s \in Streams : Create(s) \/ AgentAsks(s)
  \/ \E s \in Streams, k \in Sockets :
       \/ ConnectUser(s, k) \/ AuthIdentified(s, k) \/ AuthAllowed(s, k)
       \/ AgentAttaches(s, k) \/ Frame(s, k) \/ Audited(s, k)
       \/ CheckIdentity(s, k) \/ CheckServer(s, k)
  \/ \E k \in Sockets : AuthBegins(k) \/ SocketCloses(k)
  \/ DropAgentSessions \/ DropServer
  \/ Alarm \/ Evict \/ Revoke
  \/ Tick

HubSpec == HubInit /\ [][HubNext]_hubVars

--------------------------------------------------------------------------------
(* What is promised.                                                           *)

\* The one alarm serves every open socket: a browser that never authenticates is
\* closed at its deadline, a session at the end of its longest life; a request
\* that finds the object cold moves the alarm to the deadline of a browser that
\* authenticates, no further.  Not so a session that knows no longer of the
\* socket: another one came for the same side, or the session was removed and
\* the socket remained.
LifeIsLimited ==
  \A k \in DOMAIN sock : Open(k) =>
    CASE sock[k].role = "pending" -> \E t \in alarm : t <= sock[k].deadline + 1
      [] sock[k].role \in {"user", "agent"} ->
           \/ sock[k].of \in stray
           \/ \E t \in alarm : t <= created[sock[k].of] + Abs + 1 \/ t <= now + AuthTimeout + 1
      [] OTHER -> TRUE

UnderCheck(k) == \E s \in Streams, w \in Phases : <<s, k, w>> \in checking

\* A frame on a session of browser k has passed the tests in this step: it goes on, or
\* awaits its audit record.
Admitted(k) ==
  /\ auditing \subseteq auditing'
  /\ k \in through' \/ \E s \in Streams : <<s, k>> \in auditing' \ auditing

\* Of a browser that was found to be without authority no frame is admitted any
\* more, in either direction: not those that overtook the check, and after an
\* eviction that forgot the mark only while it is checked once more.  A file
\* operation that awaited its audit record when the verdict came still goes on.
VerdictHolds == [][\A k \in condemned' : Admitted(k) => UnderCheck(k)']_hubVars

\* Who lost the authority longer ago than the interval of the checks has nothing
\* admitted, except while it is checked.
AuthorityIsRecent ==
  [][\A k \in Sockets : lost' > 0 /\ Admitted(k) => now' < lost' + CheckEvery \/ UnderCheck(k)']_hubVars

--------------------------------------------------------------------------------
(* What the documentation says and the code does not keep, with "evict" among     *)
(* Faults: see the README of this project.                                     *)

\* Storage keeps no session that has expired (README.md:516).
NothingLeftBehind ==
  \A s \in stored : now <= created[s] + Ttl + 1 \/ Sockets_("user", s) \cup Sockets_("agent", s) # {}

\* No more sessions than MAX_SESSIONS_PER_SERVER (do-terminal.js:13).
SessionLimit == Cardinality(Known \cup {sock[k].of : k \in {x \in DOMAIN sock : sock[x].role \in {"user", "agent"}}})
                  <= MaxSessions

================================================================================
