------------------------------- MODULE ViewerAuth -------------------------------
(***************************************************************************)
(* Who is shown the list of servers: the sockets of PanelDO from their     *)
(* first frame on, the tokens in D1, which an administrator, or a token    *)
(* with panel:admin, creates, changes and revokes (routes.js), and between *)
(* the two authCache, in which what a token grants is kept for 30 s and    *)
(* which a call clears that may be lost.  A socket that does not           *)
(* authenticate is closed by the alarm.                                    *)
(*                                                                         *)
(* A check that asks D1 is three steps: the question, the answer, and what *)
(* is done on it.  Left out: attachments of the old format (a token in     *)
(* plain), the least interval between two syncs, and what a change in the  *)
(* number of viewers sets off, see ViewerRates and LatestFeed.             *)
(*                                                                         *)
(* Operators marked "Defect:" are no part of the model, see OperationJobs. *)
(***************************************************************************)
EXTENDS Naturals, FiniteSets, FiniteSetsExt

CONSTANTS
  Viewers,     \* bound: sockets at a time
  Pats,        \* tokens of api_tokens
  Logins,      \* JWTs
  AuthTtl,     \* the 30 s an entry of authCache is used, in ticks
  ViewerTimeout, \* WS_AUTH_TIMEOUT_MS, in ticks
  MaxPendingViewers,  \* MAX_PENDING_WS
  AuthScopes   \* bound: what one behaviour is about: a "pat", a "login", or the "alarm"

ASSUME AuthAssumption ==
  /\ Pats \cap Logins = {}
  /\ AuthTtl \in Nat \ {0} /\ ViewerTimeout \in Nat \ {0} /\ MaxPendingViewers \in Nat \ {0}
  /\ AuthScopes \subseteq {"pat", "login", "alarm"}

Tokens == Pats \cup Logins
Used(scope) == IF scope = "login" THEN Logins ELSE Pats

ASSUME UsedAssumption == \A scope \in AuthScopes : Used(scope) # {}

\* What a token grants: some of the servers or all.  A PAT that was revoked and a token
\* that has expired are "gone".
Grants == {"some", "all"}

VARIABLES
  about,     \* not in the code: the scope of the behaviour
  grant,     \* of each token, by its row or its claims; "new" before it is issued
  clearing,  \* clear_auth_cache is to be called
  authCache, \* of each token, [grant, age], the age in ticks since ts
  check,     \* the check of a viewer's token under way
  socket,      \* of each viewer; "pending" until the first frame is accepted, "closed" if none
  who,       \* the token its page sends
  deadline,  \* authDeadline of the attachment, in ticks from now
  authAlarm,     \* ticks until the alarm
  lapse,     \* history: ticks since the token last granted this
  settled,   \* history: what the token no longer granted when the cache was cleared
             \* with no answer of D1 about it on its way into the cache
  untimed    \* history: sockets that were pending when setAlarm failed, or are not timed
             \* in this behaviour

authVars == <<about, grant, clearing, authCache, check, socket, who, deadline, authAlarm,
              lapse, settled, untimed>>

AtMostOneOf(S) == {{}} \cup {{x} : x \in S}
Entry == [grant : Grants \cup {"gone"}, age : 0..AuthTtl]
\* "asks" D1 and is "answered", for the first frame or with now taken at the age; "shows":
\* awaits the rows of the servers.
Checking ==
  [pc : {"asksFirst"}] \cup [pc : {"asks"}, age : 0..AuthTtl]
    \cup [pc : {"answeredFirst"}, grant : Grants \cup {"gone"}]
    \cup [pc : {"answered"}, grant : Grants \cup {"gone"}, age : 0..AuthTtl]
    \cup [pc : {"shows"}, grant : Grants]
Answered == {"answeredFirst", "answered"}

AuthTypeOK ==
  /\ about \in AuthScopes
  /\ grant \in [Tokens -> Grants \cup {"new", "gone"}]
  /\ clearing \in BOOLEAN
  /\ authCache \in [Tokens -> AtMostOneOf(Entry)]
  /\ check \in [Viewers -> AtMostOneOf(Checking)]
  /\ socket \in [Viewers -> {"pending", "viewer", "closed"}]
  /\ who \in [Viewers -> Tokens]
  /\ deadline \in [Viewers -> 0..ViewerTimeout]
  /\ authAlarm \in AtMostOneOf(0..ViewerTimeout)
  /\ lapse \in [Tokens -> [Grants -> 0..AuthTtl]]
  /\ settled \in [Tokens -> SUBSET Grants]
  /\ untimed \in SUBSET Viewers

AuthInit ==
  /\ about \in AuthScopes
  /\ grant = [t \in Tokens |-> "new"]
  /\ clearing = FALSE
  /\ authCache = [t \in Tokens |-> {}]
  /\ check = [v \in Viewers |-> {}]
  /\ socket = [v \in Viewers |-> "closed"]
  /\ who = [v \in Viewers |-> CHOOSE t \in Used(about) : TRUE]
  /\ deadline = [v \in Viewers |-> 0]
  /\ authAlarm = {}
  /\ lapse = [t \in Tokens |-> [g \in Grants |-> AuthTtl]]
  /\ settled = [t \in Tokens |-> {}]
  /\ untimed = {}

tokenVars == <<about, grant, lapse, settled>>
pendingVars == <<who, deadline, authAlarm, untimed>>

Pending == {v \in Viewers : socket[v] = "pending"}
CloseViewers(S) == socket' = [v \in Viewers |-> IF v \in S THEN "closed" ELSE socket[v]]
CloseViewer(v) == CloseViewers({v})
Checks(v, x) == check' = [check EXCEPT ![v] = {x}]
Done(v) == check' = [check EXCEPT ![v] = {}]
Remember(v, e) == authCache' = [authCache EXCEPT ![who[v]] = {e}]

--------------------------------------------------------------------------------
(* Tokens.                                                                     *)

Grant(t, g) ==
  /\ grant' = [grant EXCEPT ![t] = g]
  /\ lapse' = [lapse EXCEPT ![t] = [h \in Grants |-> IF h \in {g, grant[t]} THEN 0 ELSE @[h]]]
  /\ settled' = [settled EXCEPT ![t] = @ \ {g}]
  /\ UNCHANGED <<about, authCache, check, socket, pendingVars>>

\* POST /api/tokens and the tool create_token, or somebody logs in.
Issue(t) ==
  /\ grant[t] = "new" /\ t \in Used(about)
  /\ \E g \in IF t \in Pats THEN Grants ELSE {"all"} : Grant(t, g)
  /\ UNCHANGED clearing

\* expires_at and exp, which nobody is told of.
Expire(t) ==
  /\ about # "alarm" /\ grant[t] \in Grants
  /\ Grant(t, "gone")
  /\ UNCHANGED clearing

\* PATCH and DELETE /api/tokens/:id and the tool revoke_token: the row first.
Change(t) ==
  /\ about # "alarm" /\ t \in Pats /\ grant[t] \in Grants
  /\ \E g \in (Grants \cup {"gone"}) \ {grant[t]} : Grant(t, g)
  /\ clearing' = TRUE

Crosses(t) == \E v \in Viewers : who[v] = t /\ \E x \in check[v] : x.pc \in Answered

\* /rpc/clear_auth_cache, a call that may fail.
ClearAuthCache ==
  /\ clearing /\ clearing' = FALSE
  /\ \/ /\ authCache' = [t \in Tokens |-> {}]
        /\ settled' = [t \in Tokens |->
             IF Crosses(t) THEN settled[t] ELSE Grants \ {grant[t]}]
     \/ UNCHANGED <<authCache, settled>>
  /\ UNCHANGED <<about, grant, lapse, check, socket, pendingVars>>

--------------------------------------------------------------------------------
(* The first frame.                                                            *)

\* scheduleAuthAlarm: the time that is set is kept if it lies ahead and is earlier.
Scheduled(d) == IF \E a \in authAlarm : a > 0 /\ a <= d THEN authAlarm ELSE {d}

\* /ws/push
Connect(v) ==
  /\ socket[v] = "closed" /\ check[v] = {} /\ Cardinality(Pending) < MaxPendingViewers
  /\ socket' = [socket EXCEPT ![v] = "pending"]
  /\ \E t \in Used(about) : who' = [who EXCEPT ![v] = t]
  /\ \/ /\ about = "alarm" /\ deadline' = [deadline EXCEPT ![v] = ViewerTimeout]
        /\ \/ authAlarm' = Scheduled(ViewerTimeout) /\ untimed' = untimed \ {v}
           \/ untimed' = untimed \cup {v} /\ UNCHANGED authAlarm
     \/ about # "alarm" /\ untimed' = untimed \cup {v} /\ UNCHANGED <<deadline, authAlarm>>
  /\ UNCHANGED <<tokenVars, clearing, authCache, check>>

\* Whoever has sent the right token is shown the list, and cacheIdentity has a new ts.
\* The socket may be closed by now.
Admit(v, g) ==
  /\ socket' = [socket EXCEPT ![v] = IF @ = "pending" THEN "viewer" ELSE @]
  /\ Remember(v, [grant |-> g, age |-> 0])

\* authIdentityByToken: a PAT is looked up in D1, a JWT verified on the spot.
FirstFrame(v) ==
  /\ socket[v] = "pending" /\ check[v] = {}
  /\ \/ who[v] \in Pats /\ Checks(v, [pc |-> "asksFirst"])
        /\ UNCHANGED <<socket, authCache>>
     \/ who[v] \in Logins /\ grant[who[v]] \in Grants
        /\ Admit(v, grant[who[v]]) /\ UNCHANGED check
  /\ UNCHANGED <<tokenVars, clearing, pendingVars>>

\* The frame comes too late, or is no auth frame: also one that follows the auth frame
\* while that is looked up in D1.
BadFrame(v) ==
  /\ socket[v] = "pending"
  /\ CloseViewer(v)
  /\ UNCHANGED <<tokenVars, clearing, authCache, check, pendingVars>>

\* Defect: the sockets that are not yet due are forgotten.
NoneLeft(S) == {}

Rearmed(S) == IF S = {} THEN {} ELSE {Min({deadline[v] : v \in S})}

\* alarm(), which the runtime has taken off by then
AlarmFires ==
  /\ authAlarm = {0}
  /\ CloseViewers({v \in Pending : deadline[v] = 0})
  /\ LET left == {v \in Pending : deadline[v] > 0}
     IN \/ authAlarm' = Rearmed(left) /\ UNCHANGED untimed
        \/ authAlarm' = {} /\ untimed' = untimed \cup left
  /\ UNCHANGED <<tokenVars, clearing, authCache, check, who, deadline>>

--------------------------------------------------------------------------------
(* sync and latest_push: userForSocket, and on its answer the list or the end. *)

Usable(t) == {c \in authCache[t] : c.age < AuthTtl}

ShowsOrCloses(v, g) ==
  IF g = "gone" THEN CloseViewer(v) /\ Done(v)
                ELSE Checks(v, [pc |-> "shows", grant |-> g]) /\ UNCHANGED socket

\* Defect: an entry that is used is young again.
HitRenews(v, c) == Remember(v, [c EXCEPT !.age = 0])

Hit(v, c) == UNCHANGED authCache

\* authUserCached
Asks(v) ==
  /\ about # "alarm" /\ socket[v] = "viewer" /\ check[v] = {}
  /\ \/ who[v] \in Logins /\ grant[who[v]] = "gone"
        /\ CloseViewer(v) /\ UNCHANGED <<check, authCache>>
     \/ /\ who[v] \in Logins => grant[who[v]] # "gone"
        /\ \/ \E c \in Usable(who[v]) : ShowsOrCloses(v, c.grant) /\ Hit(v, c)
           \/ /\ Usable(who[v]) = {} /\ who[v] \in Pats
              /\ Checks(v, [pc |-> "asks", age |-> 0])
              /\ UNCHANGED <<socket, authCache>>
           \/ /\ Usable(who[v]) = {} /\ who[v] \in Logins
              /\ ShowsOrCloses(v, grant[who[v]])
              /\ Remember(v, [grant |-> grant[who[v]], age |-> 0])
  /\ UNCHANGED <<tokenVars, clearing, pendingVars>>

Granted(t) == IF grant[t] \in Grants THEN grant[t] ELSE "gone"

\* authUserByPatHash; a frame that does not come through leaves the socket as it is
D1Answers(v) ==
  /\ \E x \in check[v] :
       \/ /\ x.pc = "asksFirst"
          /\ Checks(v, [pc |-> "answeredFirst", grant |-> Granted(who[v])])
       \/ /\ x.pc = "asks"
          /\ Checks(v, [pc |-> "answered", grant |-> Granted(who[v]), age |-> x.age])
       \/ x.pc \in {"asksFirst", "asks"} /\ Done(v)
  /\ UNCHANGED <<tokenVars, clearing, authCache, socket, pendingVars>>

\* What is none is cached too, but not at the first frame.
TakesAnswer(v) ==
  /\ \E x \in check[v] :
       \/ /\ x.pc = "answeredFirst" /\ Done(v)
          /\ IF x.grant = "gone" THEN CloseViewer(v) /\ UNCHANGED authCache ELSE Admit(v, x.grant)
       \/ /\ x.pc = "answered"
          /\ Remember(v, [grant |-> x.grant, age |-> x.age])
          /\ ShowsOrCloses(v, x.grant)
  /\ UNCHANGED <<tokenVars, clearing, pendingVars>>

\* buildList, and the list is sent, if the socket is still open
Shows(v) ==
  /\ \E x \in check[v] : x.pc = "shows"
  /\ Done(v)
  /\ UNCHANGED <<tokenVars, clearing, authCache, socket, pendingVars>>

--------------------------------------------------------------------------------

\* The page is closed; it may come again, with the token it likes.
Leaves(v) ==
  /\ socket[v] \in {"pending", "viewer"}
  /\ CloseViewer(v)
  /\ UNCHANGED <<tokenVars, clearing, authCache, check, pendingVars>>

\* The object hibernates or leaves memory; sockets, attachments and alarm stay.
Hibernates ==
  /\ \A v \in Viewers : check[v] = {}
  /\ authCache' = [t \in Tokens |-> {}]
  /\ UNCHANGED <<tokenVars, clearing, check, socket, pendingVars>>

Older(n) == IF n < AuthTtl THEN n + 1 ELSE n
Nearer(n) == IF n > 0 THEN n - 1 ELSE 0

\* Bound: what D1 has answered is used within a tick.
AuthTick ==
  /\ \A v \in Viewers : \A x \in check[v] : x.pc \notin Answered
  /\ authCache' = [t \in Tokens |-> {[c EXCEPT !.age = Older(@)] : c \in authCache[t]}]
  /\ check' = [v \in Viewers |->
       {IF x.pc = "asks" THEN [x EXCEPT !.age = Older(@)] ELSE x : x \in check[v]}]
  /\ deadline' = [v \in Viewers |-> Nearer(deadline[v])]
  /\ authAlarm' = {Nearer(a) : a \in authAlarm}
  /\ lapse' = [t \in Tokens |->
       [g \in Grants |-> IF g = grant[t] THEN lapse[t][g] ELSE Older(lapse[t][g])]]
  /\ UNCHANGED <<about, grant, settled, clearing, socket, who, untimed>>
  /\ authVars' # authVars

AuthNext ==
  \/ \E t \in Tokens : Issue(t) \/ Expire(t) \/ Change(t)
  \/ ClearAuthCache
  \/ \E v \in Viewers : \/ Connect(v) \/ FirstFrame(v) \/ BadFrame(v)
                        \/ Asks(v) \/ D1Answers(v) \/ TakesAnswer(v) \/ Shows(v)
                        \/ Leaves(v)
  \/ AlarmFires \/ Hibernates \/ AuthTick

AuthSpec == AuthInit /\ [][AuthNext]_authVars

--------------------------------------------------------------------------------
(* Properties.                                                                 *)

\* A viewer whose token was revoked, narrowed or has expired is authorised by what the
\* token granted for less than AuthTtl afterwards, and for no moment after the cache
\* was cleared, unless an answer of D1 from before was on its way into it; a JWT is
\* never used beyond its exp, whatever is cached.
RevokedIsShownNothing ==
  [][\A v \in Viewers : \A x \in check'[v] \ check[v] : x.pc = "shows" =>
       \/ x.grant = grant[who[v]]
       \/ who[v] \in Pats /\ lapse[who[v]][x.grant] < AuthTtl /\ x.grant \notin settled[who[v]]
    ]_authVars

\* However sockets come, go, authenticate and are closed: for each that is pending the
\* alarm is set, unless setAlarm failed, so anonymous sockets do not use up the limit.
PendingIsTimed == \A v \in Pending \ untimed : authAlarm # {}
================================================================================
