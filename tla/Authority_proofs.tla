---- MODULE Authority_proofs ----
(*
Who acts on whose authority: the sessions of a server, for any streams, sockets and
intervals and any number of evictions in between, and the viewers of the list of
servers, for any tokens and limits.

Sessions.  What is let through: a session is trusted after a check that its user passed,
or while the frame that will check again is waiting (SessInv); this holds of one session
as no socket is in hand for two (OwnInv), there is one check of a session at a time
(OnceInv), and what was read of the user for its first half is of this tick (ReadInv).
A browser that has yet to authenticate has no session whose check could condemn it
(WaitInv).  What is closed: the alarm is set for whatever
is alive, in memory or in what the next rebuild would find (AlarmInv); sockets, memory
and storage agree on that (LinkInv, StoredInv).  The hypotheses about Faults leave out
what the code does not withstand.

Viewers.  What the code relies on is that no answer is kept longer than a token may be
used: an entry of the cache is at least as old as what it says has been untrue
(CacheInv), and an answer of D1 is still to be used in the tick it was given in
(AnswerInv).
*)
EXTENDS SessionHub, ViewerAuth, FiniteSetTheorems, WellFoundedInduction, TLAPS

(* The least element of a set of numbers. *)

\* Any set of numbers that is not empty has a least element.
LEMMA MinBounds ==
  ASSUME NEW S, S \subseteq Nat, S # {}
  PROVE  Min(S) \in S /\ \A x \in S : Min(S) <= x
<1>1. PICK m \in S : \A x \in S : <<x, m>> \notin OpToRel(<, Nat)
  BY NatLessThanWellFounded, WFMin
<1>2. \A x \in S : m <= x
  <2>1. ASSUME NEW x \in S, ~ m <= x PROVE FALSE
    <3>1. <<x, m>> \in OpToRel(<, Nat)
      BY <2>1 DEF OpToRel
    <3> QED BY <1>1, <3>1
  <2> QED BY <2>1
<1>3. \E z \in S : \A x \in S : z <= x
  BY <1>2
<1> QED BY <1>3 DEF Min

(* Sessions: what an object in memory starts from. *)

\* An object that has just come into memory knows no session and awaits nothing.
ColdInv == ~ hub.rebuilt => Known = {} /\ authing = {} /\ opening = {} /\ checking = {} /\ auditing = {}

Ends(s) == Sockets_("user", s) \cup Sockets_("agent", s)

(* Sessions: maps, sets of at most one element, and the records of the model. *)

LEMMA SinglyFacts ==
  ASSUME NEW S
  PROVE  /\ {} \in Singly(S)
         /\ \A x \in S : {x} \in Singly(S)
         /\ \A m \in Singly(S) : m \subseteq S /\ (m = {} \/ \E x \in S : m = {x})
BY DEF Singly

LEMMA SinglyLess ==
  ASSUME NEW S, NEW m \in Singly(S), NEW n \in SUBSET m
  PROVE  n \in Singly(S)
<1>1. CASE m = {}
  BY <1>1, SinglyFacts
<1>2. ASSUME NEW x \in S, m = {x} PROVE n \in Singly(S)
  <2>1. n = {} \/ n = {x}
    BY <1>2
  <2>2. {} \in Singly(S) /\ {x} \in Singly(S)
    BY SinglyFacts
  <2> QED BY <2>1, <2>2
<1>3. m = {} \/ \E x \in S : m = {x}
  BY DEF Singly
<1> QED BY <1>1, <1>2, <1>3

LEMMA PartialFacts ==
  ASSUME NEW S, NEW T, NEW f \in Partial(S, T)
  PROVE  /\ DOMAIN f \subseteq S
         /\ f \in [DOMAIN f -> T]
         /\ \A x \in DOMAIN f : f[x] \in T
BY DEF Partial

LEMMA IsPartial ==
  ASSUME NEW S, NEW T, NEW D \in SUBSET S, NEW f \in [D -> T]
  PROVE  f \in Partial(S, T)
BY DEF Partial

LEMMA WithFacts ==
  ASSUME NEW S, NEW T, NEW f \in Partial(S, T), NEW x \in S, NEW y \in T
  PROVE  /\ With(f, x, y) \in Partial(S, T)
         /\ DOMAIN With(f, x, y) = DOMAIN f \cup {x}
         /\ With(f, x, y)[x] = y
         /\ \A z \in DOMAIN f : z # x => With(f, x, y)[z] = f[z]
<1>1. With(f, x, y) \in [DOMAIN f \cup {x} -> T] /\ DOMAIN f \cup {x} \in SUBSET S
  BY PartialFacts DEF With
<1>2. With(f, x, y) \in Partial(S, T)
  BY <1>1, IsPartial
<1> QED BY <1>2 DEF With

LEMMA WithoutFacts ==
  ASSUME NEW S, NEW T, NEW f \in Partial(S, T), NEW xs
  PROVE  /\ Without(f, xs) \in Partial(S, T)
         /\ DOMAIN Without(f, xs) = DOMAIN f \ xs
         /\ \A z \in DOMAIN f \ xs : Without(f, xs)[z] = f[z]
<1>1. Without(f, xs) \in [DOMAIN f \ xs -> T] /\ DOMAIN f \ xs \in SUBSET S
  BY PartialFacts DEF Without
<1>2. Without(f, xs) \in Partial(S, T)
  BY <1>1, IsPartial
<1> QED BY <1>2 DEF Without

LEMMA NothingKnown == ASSUME NEW S, NEW T PROVE <<>> \in Partial(S, T) /\ DOMAIN <<>> = {}
<1>1. DOMAIN <<>> = {} /\ <<>> = [x \in {} |-> x]
  OBVIOUS
<1>2. [x \in {} |-> x] \in [{} -> T]
  OBVIOUS
<1> QED BY <1>1, <1>2, IsPartial

LEMMA NewSessFacts ==
  ASSUME HubTypeOK
  PROVE  /\ NewSess \in Sess
         /\ NewSess.user = {} /\ NewSess.agent = {} /\ NewSess.checked = 0 /\ ~ NewSess.revoked
BY SinglyFacts, HubAssumption DEF NewSess, Sess, Times

\* What an update of a session leaves.
LEMMA SessFacts ==
  ASSUME NEW x \in Sess, NEW m \in Singly(Sockets), NEW n \in Singly(Sockets), NEW t \in Times
  PROVE  /\ x.user \in Singly(Sockets) /\ x.agent \in Singly(Sockets) /\ x.revoked \in BOOLEAN /\ x.checked \in Times
         /\ LET y == [x EXCEPT !.agent = m] IN
              y \in Sess /\ y.user = x.user /\ y.agent = m /\ y.revoked = x.revoked /\ y.checked = x.checked
         /\ LET y == [x EXCEPT !.user = m, !.checked = t] IN
              y \in Sess /\ y.user = m /\ y.agent = x.agent /\ y.revoked = x.revoked /\ y.checked = t
         /\ LET y == [x EXCEPT !.user = m, !.agent = n] IN
              y \in Sess /\ y.user = m /\ y.agent = n /\ y.revoked = x.revoked /\ y.checked = x.checked
         /\ LET y == [x EXCEPT !.checked = t] IN
              y \in Sess /\ y.user = x.user /\ y.agent = x.agent /\ y.revoked = x.revoked /\ y.checked = t
         /\ LET y == [x EXCEPT !.revoked = TRUE] IN
              y \in Sess /\ y.user = x.user /\ y.agent = x.agent /\ y.revoked /\ y.checked = x.checked
BY DEF Sess

LEMMA HubFacts ==
  ASSUME NEW h \in Hub, NEW f
  PROVE  /\ h.sess \in Partial(Streams, Sess) /\ h.rebuilt \in BOOLEAN
         /\ [h EXCEPT !.sess = f] = [sess |-> f, rebuilt |-> h.rebuilt]
BY DEF Hub

\* One session of h replaced.
LEMMA ReplacedFacts ==
  ASSUME NEW h \in Hub, NEW s \in DOMAIN h.sess, NEW y \in Sess
  PROVE  LET g == [h EXCEPT !.sess[s] = y] IN
         /\ g \in Hub /\ g.rebuilt = h.rebuilt /\ DOMAIN g.sess = DOMAIN h.sess
         /\ g.sess[s] = y /\ \A u \in DOMAIN h.sess : u # s => g.sess[u] = h.sess[u]
<1> DEFINE g == [h EXCEPT !.sess[s] = y]
<1>1. g = [sess |-> [h.sess EXCEPT ![s] = y], rebuilt |-> h.rebuilt]
  BY DEF Hub
<1>2. h.sess \in [DOMAIN h.sess -> Sess] /\ DOMAIN h.sess \in SUBSET Streams
  BY PartialFacts DEF Hub
<1>3. [h.sess EXCEPT ![s] = y] \in [DOMAIN h.sess -> Sess]
  BY <1>2
<1>4. [h.sess EXCEPT ![s] = y] \in Partial(Streams, Sess)
  BY <1>2, <1>3, IsPartial
<1> QED BY <1>1, <1>2, <1>4 DEF Hub

(* Sessions: what the events begin with. *)

LEMMA SockFacts ==
  ASSUME HubTypeOK
  PROVE  \A k \in DOMAIN sock :
           /\ k \in Sockets /\ sock[k] \in Sock
           /\ sock[k].role \in {"none", "pending", "user", "agent"} /\ sock[k].of \in Streams
           /\ sock[k].deadline \in Nat /\ sock[k].closing \in BOOLEAN
<1>1. \A k \in DOMAIN sock : k \in Sockets /\ sock[k] \in Sock
  BY PartialFacts DEF HubTypeOK
<1>2. \A x \in Sock : /\ x.role \in {"none", "pending", "user", "agent"} /\ x.of \in Streams
                      /\ x.deadline \in Nat /\ x.closing \in BOOLEAN
  BY HubAssumption DEF Sock
<1> QED BY <1>1, <1>2

LEMMA CloseFacts ==
  ASSUME HubTypeOK, NEW ks
  PROVE  /\ Close(ks) \in Partial(Sockets, Sock)
         /\ DOMAIN Close(ks) = DOMAIN sock
         /\ \A k \in DOMAIN sock :
              /\ Close(ks)[k].role = sock[k].role /\ Close(ks)[k].of = sock[k].of
              /\ Close(ks)[k].deadline = sock[k].deadline
              /\ Close(ks)[k].closing <=> sock[k].closing \/ k \in ks
<1>1. ASSUME NEW k \in DOMAIN sock
      PROVE  LET x == [sock[k] EXCEPT !.closing = @ \/ k \in ks] IN
             /\ x \in Sock /\ x.role = sock[k].role /\ x.of = sock[k].of /\ x.deadline = sock[k].deadline
             /\ x.closing <=> sock[k].closing \/ k \in ks
  <2>1. sock[k] \in Sock
    BY SockFacts
  <2>2. ASSUME NEW b \in BOOLEAN
        PROVE  LET x == [sock[k] EXCEPT !.closing = b] IN
               x \in Sock /\ x.role = sock[k].role /\ x.of = sock[k].of /\ x.deadline = sock[k].deadline /\ x.closing = b
    BY <2>1 DEF Sock
  <2> QED BY <2>1, <2>2, SockFacts
<1>2. DOMAIN sock \in SUBSET Sockets
  BY SockFacts
<1>3. Close(ks) \in [DOMAIN sock -> Sock]
  BY <1>1 DEF Close
<1>4. Close(ks) \in Partial(Sockets, Sock)
  BY <1>2, <1>3, IsPartial
<1> QED BY <1>1, <1>4 DEF Close

LEMMA EndsFacts ==
  ASSUME HubTypeOK
  PROVE  \A s \in Streams : Ends(s) = {k \in DOMAIN sock : sock[k].role \in {"user", "agent"} /\ sock[k].of = s}
BY DEF Ends, Sockets_

\* A session that was found by its sockets alone.
FromSockets(s, x) ==
  /\ x \in Sess /\ x.checked = 0 /\ ~ x.revoked
  /\ x.user \subseteq Sockets_("user", s) /\ (Sockets_("user", s) # {} => x.user # {})
  /\ x.agent \subseteq Sockets_("agent", s) /\ (Sockets_("agent", s) # {} => x.agent # {})

\* One session, of one choice of its sockets.
LEMMA FoundSess ==
  ASSUME HubTypeOK, NEW s \in Streams, NEW m \in Last("user", s), NEW n \in Last("agent", s)
  PROVE  FromSockets(s, [NewSess EXCEPT !.user = m, !.agent = n])
<1>1. \A k \in DOMAIN sock : {k} \in Singly(Sockets)
  BY SockFacts, SinglyFacts
<1>2. {} \in Singly(Sockets)
  BY SinglyFacts
<1>3. /\ m \in Singly(Sockets) /\ m \subseteq Sockets_("user", s) /\ (Sockets_("user", s) # {} => m # {})
      /\ n \in Singly(Sockets) /\ n \subseteq Sockets_("agent", s) /\ (Sockets_("agent", s) # {} => n # {})
  BY <1>1, <1>2 DEF Last, Sockets_
<1>4. NewSess \in Sess /\ NewSess.checked = 0 /\ ~ NewSess.revoked /\ 0 \in Times
  BY NewSessFacts, HubAssumption DEF Times
<1> DEFINE y == [NewSess EXCEPT !.user = m, !.agent = n]
<1>5. /\ y \in Sess /\ y.user = m /\ y.agent = n
      /\ y.revoked = NewSess.revoked /\ y.checked = NewSess.checked
  BY <1>3, <1>4 DEF Sess
<1> HIDE DEF y
<1>6. FromSockets(s, y)
  BY <1>3, <1>4, <1>5 DEF FromSockets
<1> QED BY <1>6 DEF y

LEMMA RebuiltFacts ==
  ASSUME HubTypeOK, NEW h \in Hub, h.rebuilt \/ DOMAIN h.sess = {}, NEW g \in Rebuilt(h)
  PROVE  /\ g \in Hub /\ g.rebuilt
         /\ h.rebuilt => g = h
         /\ ~ h.rebuilt => /\ DOMAIN g.sess = {s \in Streams : Ends(s) # {}}
                           /\ \A s \in DOMAIN g.sess : FromSockets(s, g.sess[s])
<1>1. CASE h.rebuilt
  BY <1>1 DEF Rebuilt
<1>2. CASE ~ h.rebuilt
  <2>1. Attached = {s \in Streams : Ends(s) # {}}
    BY SockFacts, EndsFacts DEF Attached
  <2>picked. PICK u \in [Attached -> SUBSET Sockets], a \in [Attached -> SUBSET Sockets] :
               /\ \A s \in Attached : u[s] \in Last("user", s) /\ a[s] \in Last("agent", s)
               /\ g = [sess |-> Index(h, u, a), rebuilt |-> TRUE]
    BY <1>2 DEF Rebuilt
  <2>3. Index(h, u, a) = [s \in Attached |-> [NewSess EXCEPT !.user = u[s], !.agent = a[s]]]
    BY <1>2 DEF Index, Old
  <2>4. ASSUME NEW s \in Attached PROVE FromSockets(s, Index(h, u, a)[s])
    <3>1. FromSockets(s, [NewSess EXCEPT !.user = u[s], !.agent = a[s]])
      BY <2>1, <2>picked, FoundSess
    <3> QED BY <2>3, <3>1
  <2>typed. Index(h, u, a) \in [Attached -> Sess]
    BY <2>3, <2>4 DEF FromSockets
  <2>6. Index(h, u, a) \in Partial(Streams, Sess)
    BY <2>1, <2>typed, IsPartial
  <2> QED BY <1>2, <2>1, <2>picked, <2>4, <2>typed, <2>6 DEF Hub
<1> QED BY <1>1, <1>2

\* What an event finds in memory: what was there, without what was swept, or what the
\* sockets tell.
Found(g, swept) ==
  /\ g \in Hub /\ g.rebuilt
  /\ hub.rebuilt => DOMAIN g.sess = Known \ swept /\ \A s \in DOMAIN g.sess : g.sess[s] = hub.sess[s]
  /\ ~ hub.rebuilt => /\ DOMAIN g.sess = {s \in Streams : Ends(s) # {}}
                      /\ \A s \in DOMAIN g.sess : FromSockets(s, g.sess[s])

LEMMA SweptFacts ==
  ASSUME NEW h \in Hub
  PROVE  /\ Swept(h) \in Hub /\ Swept(h).rebuilt = h.rebuilt
         /\ DOMAIN Swept(h).sess = DOMAIN h.sess \ Expired(h)
         /\ \A s \in DOMAIN h.sess \ Expired(h) : Swept(h).sess[s] = h.sess[s]
<1>1. Swept(h) = [sess |-> Without(h.sess, Expired(h)), rebuilt |-> h.rebuilt]
  BY HubFacts DEF Swept
<1>2. h.sess \in Partial(Streams, Sess) /\ h.rebuilt \in BOOLEAN
  BY HubFacts
<1>3. Without(h.sess, Expired(h)) \in Partial(Streams, Sess)
  BY <1>2, WithoutFacts
<1>4. Swept(h) \in Hub
  BY <1>1, <1>2, <1>3 DEF Hub
<1>5. /\ DOMAIN Without(h.sess, Expired(h)) = DOMAIN h.sess \ Expired(h)
      /\ \A s \in DOMAIN h.sess \ Expired(h) : Without(h.sess, Expired(h))[s] = h.sess[s]
  BY DEF Without
<1>6. Swept(h).sess = Without(h.sess, Expired(h)) /\ Swept(h).rebuilt = h.rebuilt
  BY <1>1
<1> HIDE DEF Swept
<1> QED BY <1>4, <1>5, <1>6

LEMMA BegunFacts == ASSUME HubTypeOK, ColdInv, NEW g \in Begun PROVE Found(g, Expired(hub))
<1>1. hub \in Hub
  BY DEF HubTypeOK
<1>2. Swept(hub) \in Hub /\ (Swept(hub).rebuilt \/ DOMAIN Swept(hub).sess = {})
  BY <1>1, SweptFacts, HubFacts DEF ColdInv, Known
<1> QED BY <1>1, <1>2, SweptFacts, RebuiltFacts DEF Begun, Found, Known

LEMMA WokenFacts == ASSUME HubTypeOK, ColdInv, NEW g \in Woken PROVE Found(g, {})
<1>1. hub \in Hub /\ (hub.rebuilt \/ DOMAIN hub.sess = {})
  BY HubFacts DEF HubTypeOK, ColdInv, Known
<1> QED BY <1>1, RebuiltFacts DEF Woken, Found, Known

(* Sessions: what they change. *)

AlarmTimes == 0..(MaxNow + Abs + AuthTimeout + 1)

LEMMA Bounds ==
  /\ \A t \in Times : {t, t + Ttl, t + Abs, t + AuthTimeout} \subseteq 0..(MaxNow + Abs + AuthTimeout)
  /\ 0 \in Times
  /\ \A t \in 0..(MaxNow + Abs + AuthTimeout) : t \in Nat /\ t \in AlarmTimes /\ t + 1 \in AlarmTimes
BY HubAssumption DEF Times, AlarmTimes

LEMMA PressingTypes ==
  ASSUME HubTypeOK, NEW h \in Hub
  PROVE  Pressing(h) \subseteq 0..(MaxNow + Abs + AuthTimeout)
<1>1. ASSUME NEW s \in DOMAIN h.sess
      PROVE  created[s] + (IF Unattached(h, s) THEN Ttl ELSE Abs) \in 0..(MaxNow + Abs + AuthTimeout)
  <2>1. s \in Streams
    BY HubFacts, PartialFacts
  <2>2. created[s] \in Times
    BY <2>1 DEF HubTypeOK
  <2> QED BY <2>2, Bounds
<1>2. ASSUME NEW k \in DOMAIN sock PROVE sock[k].deadline \in 0..(MaxNow + Abs + AuthTimeout)
  <2>1. sock[k].deadline \in 0..(MaxNow + AuthTimeout)
    BY SockFacts DEF Sock
  <2> QED BY <2>1, HubAssumption
<1> QED BY <1>1, <1>2 DEF Pressing

\* The alarm is left as it was if nothing presses, and comes for the first that does.
LEMMA SweptAlarmFacts ==
  ASSUME HubTypeOK, NEW h \in Hub
  PROVE  /\ SweptAlarm(h) \in Singly(AlarmTimes)
         /\ Pressing(h) = {} => SweptAlarm(h) = alarm
         /\ Pressing(h) # {} => \E t \in Pressing(h) : /\ t \in Nat /\ SweptAlarm(h) = {t + 1}
                                                       /\ \A x \in Pressing(h) : x \in Nat /\ t <= x
<1>1. CASE Pressing(h) = {}
  BY <1>1 DEF SweptAlarm, HubTypeOK, AlarmTimes
<1>2. CASE Pressing(h) # {}
  <2>nats. Pressing(h) \subseteq Nat
    BY PressingTypes, Bounds
  <2>least. Min(Pressing(h)) \in Pressing(h) /\ \A x \in Pressing(h) : Min(Pressing(h)) <= x
    BY <1>2, <2>nats, MinBounds
  <2>swept. SweptAlarm(h) = {Min(Pressing(h)) + 1}
    BY <1>2 DEF SweptAlarm
  <2>bounded. Min(Pressing(h)) + 1 \in AlarmTimes
    BY <2>least, PressingTypes, Bounds
  <2>single. {Min(Pressing(h)) + 1} \in Singly(AlarmTimes)
    BY <2>bounded, SinglyFacts
  <2> QED BY <1>2, <2>nats, <2>least, <2>swept, <2>single
<1> QED BY <1>1, <1>2

LEMMA EarlierFacts ==
  ASSUME NEW a \in Singly(AlarmTimes), NEW t \in AlarmTimes
  PROVE  /\ Earlier(a, t) \in Singly(AlarmTimes)
         /\ \E x \in Earlier(a, t) : x \in Nat /\ x <= t
         /\ \A y \in a : \E x \in Earlier(a, t) : x \in Nat /\ x <= y
<1>1. a \subseteq AlarmTimes /\ a \subseteq Nat /\ t \in Nat
  BY SinglyFacts, HubAssumption DEF AlarmTimes
<1>2. {t} \in Singly(AlarmTimes)
  BY SinglyFacts
<1> QED BY <1>1, <1>2 DEF Earlier

\* The sessions f are those in memory and s, if it is stored.
IsHydrated(f, h, st, s) ==
  /\ f \in Partial(Streams, Sess)
  /\ DOMAIN f = DOMAIN h.sess \cup {x \in {s} : s \in st}
  /\ \A x \in DOMAIN h.sess : f[x] = h.sess[x]
  /\ s \in DOMAIN f \ DOMAIN h.sess => f[s] = NewSess

LEMMA HydratedFacts ==
  ASSUME HubTypeOK, NEW h \in Hub, NEW st \in SUBSET Streams, NEW s \in Streams
  PROVE  IsHydrated(Hydrated(h, st, s), h, st, s)
<1> USE DEF IsHydrated
<1>1. h.sess \in Partial(Streams, Sess) /\ NewSess \in Sess
  BY HubFacts, NewSessFacts
<1>2. CASE s \in DOMAIN h.sess \/ s \notin st
  BY <1>1, <1>2 DEF Hydrated
<1>3. CASE s \notin DOMAIN h.sess /\ s \in st
  <2>1. Hydrated(h, st, s) = With(h.sess, s, NewSess)
    BY <1>3 DEF Hydrated
  <2>2. /\ With(h.sess, s, NewSess) \in Partial(Streams, Sess)
        /\ DOMAIN With(h.sess, s, NewSess) = DOMAIN h.sess \cup {s}
        /\ With(h.sess, s, NewSess)[s] = NewSess
        /\ \A z \in DOMAIN h.sess : z # s => With(h.sess, s, NewSess)[z] = h.sess[z]
    <3>1. With(h.sess, s, NewSess) \in Partial(Streams, Sess)
      BY <1>1, WithFacts
    <3> QED BY <3>1 DEF With
  <2> QED BY <1>3, <2>1, <2>2
<1> QED BY <1>2, <1>3

LEMMA HubWith ==
  ASSUME NEW h \in Hub, NEW f \in Partial(Streams, Sess)
  PROVE  [h EXCEPT !.sess = f] \in Hub /\ [h EXCEPT !.sess = f].sess = f /\ [h EXCEPT !.sess = f].rebuilt = h.rebuilt
BY DEF Hub

LEMMA AttachFacts ==
  ASSUME HubTypeOK, NEW h \in Hub, NEW s \in Streams, NEW k \in Sockets, Attach(h, s, k)
  PROVE  /\ hub' \in Hub /\ hub'.rebuilt = h.rebuilt /\ DOMAIN hub'.sess = DOMAIN h.sess
         /\ \A u \in DOMAIN h.sess \ {s} : hub'.sess[u] = h.sess[u]
         /\ s \in DOMAIN h.sess => /\ hub'.sess[s].user = {k} /\ hub'.sess[s].agent = h.sess[s].agent
                                   /\ hub'.sess[s].checked = now /\ hub'.sess[s].revoked = h.sess[s].revoked
         /\ sock' \in Partial(Sockets, Sock) /\ DOMAIN sock' = DOMAIN sock
         /\ \A j \in DOMAIN sock : /\ sock'[j].role = (IF j = k THEN "user" ELSE sock[j].role)
                                   /\ sock'[j].of = sock[j].of /\ sock'[j].deadline = sock[j].deadline
                                   /\ sock'[j].closing = sock[j].closing
         /\ stray \subseteq stray' /\ stray' \subseteq Streams
         /\ s \notin DOMAIN h.sess => s \in stray'
         /\ s \in DOMAIN h.sess /\ h.sess[s].user \cap DOMAIN sock # {} => s \in stray'
<1>1. /\ hub' \in Hub /\ hub'.rebuilt = h.rebuilt /\ DOMAIN hub'.sess = DOMAIN h.sess
      /\ \A u \in DOMAIN h.sess \ {s} : hub'.sess[u] = h.sess[u]
      /\ s \in DOMAIN h.sess => /\ hub'.sess[s].user = {k} /\ hub'.sess[s].agent = h.sess[s].agent
                                /\ hub'.sess[s].checked = now /\ hub'.sess[s].revoked = h.sess[s].revoked
  <2>1. CASE s \notin DOMAIN h.sess
    BY <2>1 DEF Attach
  <2>2. CASE s \in DOMAIN h.sess
    <3> DEFINE y == [h.sess[s] EXCEPT !.user = {k}, !.checked = now]
    <3>1. h.sess[s] \in Sess /\ {k} \in Singly(Sockets) /\ now \in Times
      <4>1. h.sess \in Partial(Streams, Sess)
        BY HubFacts
      <4>2. h.sess[s] \in Sess
        BY <2>2, <4>1, PartialFacts
      <4>3. {k} \in Singly(Sockets)
        BY SinglyFacts
      <4> QED BY <4>2, <4>3 DEF HubTypeOK
    <3>2. y \in Sess /\ y.user = {k} /\ y.agent = h.sess[s].agent /\ y.revoked = h.sess[s].revoked /\ y.checked = now
      BY <3>1 DEF Sess
    <3>3. hub' = [h EXCEPT !.sess[s] = y]
      BY <2>2 DEF Attach
    <3> HIDE DEF y
    <3> QED BY <2>2, <3>2, <3>3, ReplacedFacts
  <2> QED BY <2>1, <2>2
<1>2. ASSUME NEW j \in DOMAIN sock
      PROVE  LET x == [sock[j] EXCEPT !.role = IF j = k THEN "user" ELSE @] IN
             /\ x \in Sock /\ x.role = (IF j = k THEN "user" ELSE sock[j].role)
             /\ x.of = sock[j].of /\ x.deadline = sock[j].deadline /\ x.closing = sock[j].closing
  <2>1. sock[j] \in Sock
    BY SockFacts
  <2> QED BY <2>1 DEF Sock
<1>3. sock' = [j \in DOMAIN sock |-> [sock[j] EXCEPT !.role = IF j = k THEN "user" ELSE @]]
  BY DEF Attach
<1>4. sock' \in [DOMAIN sock -> Sock] /\ DOMAIN sock \in SUBSET Sockets
  BY <1>2, <1>3, SockFacts
<1>5. sock' \in Partial(Sockets, Sock)
  BY <1>4, IsPartial
<1>6. /\ stray \subseteq stray' /\ stray' \subseteq Streams
      /\ s \notin DOMAIN h.sess => s \in stray'
      /\ s \in DOMAIN h.sess /\ h.sess[s].user \cap DOMAIN sock # {} => s \in stray'
  BY DEF Attach, HubTypeOK
<1>7. DOMAIN sock' = DOMAIN sock /\ \A j \in DOMAIN sock :
        /\ sock'[j].role = (IF j = k THEN "user" ELSE sock[j].role)
        /\ sock'[j].of = sock[j].of /\ sock'[j].deadline = sock[j].deadline /\ sock'[j].closing = sock[j].closing
  BY <1>2, <1>3
<1> QED BY <1>1, <1>5, <1>6, <1>7

(* Sessions: what each action does to the sessions and the sockets. *)

\* The sessions of g stay, new ones N come.
Grows(g, N) ==
  /\ hub' \in Hub /\ hub'.rebuilt = g.rebuilt
  /\ DOMAIN hub'.sess = DOMAIN g.sess \cup N
  /\ \A u \in DOMAIN g.sess \ N : hub'.sess[u] = g.sess[u]
  /\ \A u \in N : hub'.sess[u] = NewSess

\* Sockets K are closed, but stay for now; J come new.
Closes(K, J) ==
  /\ sock' \in Partial(Sockets, Sock) /\ DOMAIN sock' = DOMAIN sock \cup J
  /\ \A j \in DOMAIN sock \ J : /\ sock'[j].role = sock[j].role /\ sock'[j].of = sock[j].of
                                /\ sock'[j].deadline = sock[j].deadline
                                /\ sock'[j].closing <=> sock[j].closing \/ j \in K

LEMMA ClosesFacts == ASSUME HubTypeOK, NEW K, sock' = Close(K) PROVE Closes(K, {})
BY CloseFacts DEF Closes

LEMMA NoneClose == ASSUME HubTypeOK, UNCHANGED sock PROVE Closes({}, {})
BY SockFacts DEF Closes, HubTypeOK

LEMMA SameGrows == ASSUME NEW g \in Hub, hub' = g PROVE Grows(g, {})
BY DEF Grows

LEMMA CreateEffect ==
  ASSUME HubTypeOK, ColdInv, NEW s \in Streams, Create(s)
  PROVE  \E g : Found(g, Expired(hub)) /\ Grows(g, {s}) /\ g.rebuilt
<1>1. PICK g \in Begun : hub' = [g EXCEPT !.sess = With(@, s, NewSess)]
  BY DEF Create
<1>2. Found(g, Expired(hub)) /\ g \in Hub /\ g.rebuilt
  BY BegunFacts DEF Found
<1>3. g.sess \in Partial(Streams, Sess) /\ NewSess \in Sess
  BY <1>2, HubFacts, NewSessFacts
<1>4. With(g.sess, s, NewSess) \in Partial(Streams, Sess)
  BY <1>3, WithFacts
<1>5. hub' = [g EXCEPT !.sess = With(g.sess, s, NewSess)]
  BY <1>1
<1>6. hub' \in Hub /\ hub'.sess = With(g.sess, s, NewSess) /\ hub'.rebuilt = g.rebuilt
  BY <1>2, <1>4, <1>5, HubWith
<1> QED BY <1>2, <1>6 DEF Grows, With

LEMMA HydratesEffect ==
  ASSUME HubTypeOK, NEW s \in Streams, NEW st \in SUBSET Streams, NEW g \in Hub,
         hub' = [g EXCEPT !.sess = Hydrated(g, st, s)]
  PROVE  \E N \in SUBSET ({s} \cap (st \ DOMAIN g.sess)) :
           Grows(g, N) /\ (s \in DOMAIN Hydrated(g, st, s) => s \in DOMAIN g.sess \cup N)
<1> DEFINE N == {x \in {s} : s \in st /\ s \notin DOMAIN g.sess}
<1>1. /\ Hydrated(g, st, s) \in Partial(Streams, Sess)
      /\ DOMAIN Hydrated(g, st, s) = DOMAIN g.sess \cup N
      /\ \A x \in DOMAIN g.sess : Hydrated(g, st, s)[x] = g.sess[x]
      /\ \A x \in N : Hydrated(g, st, s)[x] = NewSess
  <2>1. IsHydrated(Hydrated(g, st, s), g, st, s)
    BY HydratedFacts
  <2> QED BY <2>1 DEF IsHydrated
<1>2. hub' \in Hub /\ hub'.sess = Hydrated(g, st, s) /\ hub'.rebuilt = g.rebuilt
  BY <1>1, HubWith
<1>3. Grows(g, N)
  BY <1>1, <1>2 DEF Grows
<1> QED BY <1>1, <1>3

LEMMA ConnectEffect ==
  ASSUME HubTypeOK, ColdInv, NEW s \in Streams, NEW k \in Sockets, ConnectUser(s, k)
  PROVE  /\ \E g, N : /\ Found(g, Expired(hub)) /\ Grows(g, N) /\ s \in DOMAIN hub'.sess
                      /\ N \subseteq stored \ Expired(hub) /\ N \cap DOMAIN g.sess = {}
         /\ Closes(SweptSockets(hub), {k}) /\ New(k)
         /\ sock'[k].role = "pending" /\ sock'[k].of = s /\ sock'[k].deadline = now + AuthTimeout
<1> DEFINE st == stored \ Expired(hub)
<1>1. PICK g \in Begun : /\ s \in DOMAIN Hydrated(g, st, s)
                         /\ hub' = [g EXCEPT !.sess = Hydrated(g, st, s)]
  BY DEF ConnectUser
<1>2. Found(g, Expired(hub)) /\ g \in Hub
  BY BegunFacts DEF Found
<1>3. st \in SUBSET Streams
  BY DEF HubTypeOK
<1> HIDE DEF st
<1>4. PICK N \in SUBSET ({s} \cap (st \ DOMAIN g.sess)) : Grows(g, N) /\ s \in DOMAIN g.sess \cup N
  BY <1>1, <1>2, <1>3, HydratesEffect
<1>member. s \in DOMAIN hub'.sess
  BY <1>4 DEF Grows
<1> DEFINE r == [role |-> "pending", of |-> s, deadline |-> now + AuthTimeout, closing |-> FALSE]
           c == Close(SweptSockets(hub))
<1>6. r \in Sock
  BY HubAssumption DEF Sock, HubTypeOK, Times
<1>7. c \in Partial(Sockets, Sock) /\ DOMAIN c = DOMAIN sock
  BY CloseFacts
<1>8. sock' = With(c, k, r) /\ k \notin DOMAIN sock
  BY SockFacts DEF ConnectUser, New, Holds
<1>r. r.role = "pending" /\ r.of = s /\ r.deadline = now + AuthTimeout
  OBVIOUS
<1>9. With(c, k, r) \in Partial(Sockets, Sock)
  <2> HIDE DEF c, r
  <2> QED BY <1>6, <1>7, WithFacts
<1>10. Closes(SweptSockets(hub), {k})
  <2>others. \A j \in DOMAIN sock : j # k => sock'[j] = c[j]
    BY <1>7, <1>8 DEF With
  <2>domain. DOMAIN sock' = DOMAIN sock \cup {k}
    BY <1>7, <1>8 DEF With
  <2>bounds. \A j \in DOMAIN sock :
               /\ c[j].role = sock[j].role /\ c[j].of = sock[j].of /\ c[j].deadline = sock[j].deadline
               /\ c[j].closing <=> sock[j].closing \/ j \in SweptSockets(hub)
    BY CloseFacts
  <2>types. sock' \in Partial(Sockets, Sock)
    BY <1>8, <1>9
  <2> HIDE DEF c
  <2> QED BY <2>others, <2>domain, <2>bounds, <2>types DEF Closes
<1>value. sock'[k] = r
  BY <1>8 DEF With
<1>12. New(k)
  BY DEF ConnectUser
<1> QED BY <1>2, <1>4, <1>member, <1>10, <1>value, <1>12, <1>r DEF st

LEMMA AsksEffect ==
  ASSUME HubTypeOK, ColdInv, NEW s \in Streams, AgentAsks(s)
  PROVE  \E g, N : /\ Found(g, Expired(hub)) /\ Grows(g, N) /\ s \in DOMAIN hub'.sess
                   /\ N \subseteq stored \ Expired(hub) /\ N \cap DOMAIN g.sess = {}
<1> DEFINE st == stored \ Expired(hub)
<1>1. PICK g \in Begun : /\ s \in DOMAIN Hydrated(g, st, s)
                         /\ hub' = [g EXCEPT !.sess = Hydrated(g, st, s)]
  BY DEF AgentAsks
<1>2. Found(g, Expired(hub)) /\ g \in Hub
  BY BegunFacts DEF Found
<1>3. st \in SUBSET Streams
  BY DEF HubTypeOK
<1> HIDE DEF st
<1>4. PICK N \in SUBSET ({s} \cap (st \ DOMAIN g.sess)) : Grows(g, N) /\ s \in DOMAIN g.sess \cup N
  BY <1>1, <1>2, <1>3, HydratesEffect
<1>5. s \in DOMAIN hub'.sess
  BY <1>4 DEF Grows
<1> QED BY <1>2, <1>4, <1>5 DEF st

LEMMA AgentEffect ==
  ASSUME HubTypeOK, NEW s \in Streams, NEW k \in Sockets, AgentAttaches(s, k)
  PROVE  /\ hub' \in Hub /\ hub'.rebuilt = hub.rebuilt /\ DOMAIN hub'.sess = Known
         /\ \A u \in Known : /\ hub'.sess[u].user = hub.sess[u].user /\ hub'.sess[u].checked = hub.sess[u].checked
                             /\ hub'.sess[u].revoked = hub.sess[u].revoked
                             /\ hub'.sess[u].agent = (IF u = s THEN {k} ELSE hub.sess[u].agent)
         /\ stray' = stray \cup {x \in {s} : s \in Known => hub.sess[s].agent # {}}
         /\ Closes({}, {k}) /\ New(k) /\ k \notin DOMAIN sock
         /\ sock'[k].role = "agent" /\ sock'[k].of = s /\ ~ sock'[k].closing
<1>h. hub \in Hub
  BY DEF HubTypeOK
<1>1. /\ hub' \in Hub /\ hub'.rebuilt = hub.rebuilt /\ DOMAIN hub'.sess = Known
      /\ \A u \in Known : /\ hub'.sess[u].user = hub.sess[u].user /\ hub'.sess[u].checked = hub.sess[u].checked
                          /\ hub'.sess[u].revoked = hub.sess[u].revoked
                          /\ hub'.sess[u].agent = (IF u = s THEN {k} ELSE hub.sess[u].agent)
  <2>1. CASE s \notin Known
    BY <1>h, <2>1 DEF AgentAttaches, Known
  <2>2. CASE s \in Known
    <3> DEFINE y == [hub.sess[s] EXCEPT !.agent = {k}]
    <3>1. hub.sess[s] \in Sess /\ {k} \in Singly(Sockets)
      <4>1. hub.sess \in Partial(Streams, Sess)
        BY <1>h, HubFacts
      <4>2. hub.sess[s] \in Sess
        BY <2>2, <4>1, PartialFacts DEF Known
      <4>3. {k} \in Singly(Sockets)
        BY SinglyFacts
      <4> QED BY <4>2, <4>3
    <3>2. /\ y \in Sess /\ y.user = hub.sess[s].user /\ y.agent = {k}
          /\ y.revoked = hub.sess[s].revoked /\ y.checked = hub.sess[s].checked
      BY <3>1 DEF Sess
    <3>3. hub' = [hub EXCEPT !.sess[s] = y]
      BY <2>2 DEF AgentAttaches
    <3> HIDE DEF y
    <3>4. /\ hub' \in Hub /\ hub'.rebuilt = hub.rebuilt /\ DOMAIN hub'.sess = Known
          /\ hub'.sess[s] = y /\ \A u \in Known : u # s => hub'.sess[u] = hub.sess[u]
      BY <1>h, <2>2, <3>2, <3>3, ReplacedFacts DEF Known
    <3> QED BY <2>2, <3>2, <3>4
  <2> QED BY <2>1, <2>2
<1>3. stray' = stray \cup {x \in {s} : s \in Known => hub.sess[s].agent # {}}
  BY DEF AgentAttaches
<1> DEFINE r == [role |-> "agent", of |-> s, deadline |-> 0, closing |-> FALSE]
<1>4. r \in Sock
  BY HubAssumption DEF Sock
<1>added. sock' = With(sock, k, r) /\ New(k) /\ k \notin DOMAIN sock
  BY SockFacts DEF AgentAttaches, New, Holds
<1>r. r.role = "agent" /\ r.of = s /\ ~ r.closing
  OBVIOUS
<1>6. sock' \in Partial(Sockets, Sock)
  <2>1. sock \in Partial(Sockets, Sock)
    BY DEF HubTypeOK
  <2> HIDE DEF r
  <2> QED BY <1>4, <1>added, <2>1, WithFacts
<1>7. Closes({}, {k})
  <2>1. DOMAIN sock' = DOMAIN sock \cup {k} /\ \A j \in DOMAIN sock : j # k => sock'[j] = sock[j]
    BY <1>added DEF With
  <2> QED BY <1>6, <2>1, SockFacts DEF Closes
<1>8. sock'[k] = r
  BY <1>added DEF With
<1> HIDE DEF r
<1> QED BY <1>1, <1>3, <1>added, <1>7, <1>8, <1>r

\* Sessions that lose nothing but sockets.
LEMMA DropServerEffect ==
  ASSUME HubTypeOK, ColdInv, DropServer
  PROVE  /\ hub' \in Hub /\ hub'.rebuilt /\ Known' = {}
         /\ \E g : /\ Found(g, Expired(hub))
                   /\ Closes(SweptSockets(hub) \cup UNION {g.sess[s].user \cup g.sess[s].agent : s \in DOMAIN g.sess}, {})
                   /\ stored' = stored \ (Expired(hub) \cup DOMAIN g.sess)
<1>1. PICK g \in Begun :
        /\ hub' = [g EXCEPT !.sess = <<>>]
        /\ sock' = Close(SweptSockets(hub) \cup UNION {g.sess[s].user \cup g.sess[s].agent : s \in DOMAIN g.sess})
        /\ stored' = stored \ (Expired(hub) \cup DOMAIN g.sess)
  BY DEF DropServer
<1>2. Found(g, Expired(hub)) /\ g \in Hub /\ g.rebuilt
  BY BegunFacts DEF Found
<1>3. <<>> \in Partial(Streams, Sess) /\ DOMAIN <<>> = {}
  BY NothingKnown
<1>4. hub' \in Hub /\ hub'.sess = <<>> /\ hub'.rebuilt
  BY <1>1, <1>2, <1>3, HubWith
<1> QED BY <1>1, <1>2, <1>3, <1>4, ClosesFacts DEF Known

\* A browser whose identity is known awaits the row of the server, or is closed.
AwaitsRow(s, k) ==
  \/ authing' = authing \ {<<k, s, "identity">>}
  \/ /\ authing' = (authing \ {<<k, s, "identity">>}) \cup {<<k, s, "server">>}
     /\ lost = 0 /\ ~ admin

LEMMA IdentifiedEffect ==
  ASSUME HubTypeOK, NEW s \in Streams, NEW k \in Sockets, AuthIdentified(s, k)
  PROVE  \E h, N : /\ h \in Hub /\ h.rebuilt = hub.rebuilt
                   /\ DOMAIN h.sess = Known \cup N /\ N \subseteq {s} \cap (stored \ Known)
                   /\ \A u \in Known : h.sess[u] = hub.sess[u]
                   /\ \A u \in N : h.sess[u] = NewSess
                   /\ \/ /\ lost = 0 /\ admin /\ s \in DOMAIN h.sess
                         /\ Attach(h, s, k) /\ authing' = authing \ {<<k, s, "identity">>}
                      \/ /\ hub' = h /\ (\E K : sock' = Close(K)) /\ UNCHANGED stray
                         /\ AwaitsRow(s, k)
<1> DEFINE f == Hydrated(hub, stored, s)
           h == [hub EXCEPT !.sess = f]
<1>1. hub \in Hub /\ stored \in SUBSET Streams
  BY DEF HubTypeOK
<1>2. /\ f \in Partial(Streams, Sess)
      /\ DOMAIN f = Known \cup {x \in {s} : s \in stored}
      /\ \A x \in Known : f[x] = hub.sess[x]
      /\ s \in DOMAIN f \ Known => f[s] = NewSess
  <2>1. IsHydrated(f, hub, stored, s)
    BY <1>1, HydratedFacts
  <2> HIDE DEF f, h
  <2> QED BY <2>1 DEF IsHydrated, Known
<1>3. h \in Hub /\ h.sess = f /\ h.rebuilt = hub.rebuilt
  <2> HIDE DEF f
  <2> QED BY <1>1, <1>2, HubWith
<1>4. \/ /\ lost = 0 /\ admin /\ s \in DOMAIN h.sess
         /\ Attach(h, s, k) /\ authing' = authing \ {<<k, s, "identity">>}
      \/ /\ hub' = h /\ (\E K : sock' = Close(K)) /\ UNCHANGED stray
         /\ AwaitsRow(s, k)
  <2> DEFINE known == lost = 0 /\ s \in DOMAIN h.sess
  <2>1. CASE known /\ admin
    BY <2>1 DEF AuthIdentified
  <2>2. CASE ~ (known /\ admin)
    <3>1. /\ hub' = h /\ sock' = Close({x \in {k} : ~ known}) /\ UNCHANGED stray
          /\ authing' = (authing \ {<<k, s, "identity">>}) \cup {<<x, s, "server">> : x \in {y \in {k} : known}}
      BY <2>2 DEF AuthIdentified
    <3>2. CASE known
      BY <2>2, <3>1, <3>2 DEF AwaitsRow
    <3>3. CASE ~ known
      BY <3>1, <3>3 DEF AwaitsRow
    <3> QED BY <3>2, <3>3
  <2> QED BY <2>1, <2>2
<1> DEFINE N == {x \in {s} : s \in stored /\ s \notin Known}
<1>5. /\ DOMAIN h.sess = Known \cup N /\ N \subseteq {s} \cap (stored \ Known)
      /\ \A u \in Known : h.sess[u] = hub.sess[u]
      /\ \A u \in N : h.sess[u] = NewSess
  <2> HIDE DEF h, f
  <2> QED BY <1>2, <1>3
<1> HIDE DEF h
<1> QED BY <1>3, <1>4, <1>5

\* The checks that a frame on session x of stream s begins.
ToCheck(x, s) == IF x.revoked THEN {} ELSE {s} \X x.user \X {"identity"}

\* A frame gets through, or awaits its audit record, or the session is to be checked.
LEMMA FrameEffect ==
  ASSUME HubTypeOK, ColdInv, NEW s \in Streams, NEW k \in Sockets, Frame(s, k)
  PROVE  \E g : /\ Found(g, {}) /\ s \in DOMAIN g.sess
                /\ k \in g.sess[s].user \cup g.sess[s].agent
                /\ \/ /\ Passable(g.sess[s]) /\ hub' = g /\ UNCHANGED checking
                      /\ through' \subseteq g.sess[s].user
                      /\ auditing \subseteq auditing' /\ auditing' \subseteq auditing \cup ({s} \X g.sess[s].user)
                   \/ /\ ~ Passable(g.sess[s]) /\ through' = {} /\ UNCHANGED auditing
                      /\ hub' \in Hub /\ hub'.rebuilt /\ DOMAIN hub'.sess = DOMAIN g.sess
                      /\ \A u \in DOMAIN g.sess \ {s} : hub'.sess[u] = g.sess[u]
                      /\ hub'.sess[s].user = g.sess[s].user /\ hub'.sess[s].agent = g.sess[s].agent
                      /\ hub'.sess[s].revoked = g.sess[s].revoked
                      /\ hub'.sess[s].checked = (IF g.sess[s].revoked THEN g.sess[s].checked ELSE now)
                      /\ checking' = checking \cup ToCheck(g.sess[s], s)
<1>1. PICK g \in Woken :
        /\ s \in DOMAIN g.sess
        /\ k \in g.sess[s].user \cup g.sess[s].agent
        /\ IF Passable(g.sess[s])
           THEN /\ \/ through' = {u \in g.sess[s].user : u = k \/ Open(u)} /\ UNCHANGED auditing
                   \/ k \in g.sess[s].user /\ Audits(s, k)
                /\ hub' = g /\ UNCHANGED checking
           ELSE /\ through' = {}
                /\ hub' = [g EXCEPT !.sess[s].checked = IF g.sess[s].revoked THEN @ ELSE now]
                /\ checking' = checking \cup ToCheck(g.sess[s], s)
                /\ UNCHANGED auditing
  BY DEF Frame, ToCheck
<1>2. Found(g, {}) /\ g \in Hub /\ g.rebuilt
  BY WokenFacts DEF Found
<1>3. g.sess[s] \in Sess
  <2>1. g.sess \in Partial(Streams, Sess)
    BY <1>2, HubFacts
  <2> QED BY <1>1, <2>1, PartialFacts
<1> DEFINE t == IF g.sess[s].revoked THEN g.sess[s].checked ELSE now
           y == [g.sess[s] EXCEPT !.checked = t]
<1>4. t \in Times
  BY <1>3 DEF Sess, HubTypeOK
<1>touched. /\ y \in Sess /\ y.user = g.sess[s].user /\ y.agent = g.sess[s].agent
            /\ y.revoked = g.sess[s].revoked /\ y.checked = t
  <2> HIDE DEF t
  <2> QED BY <1>3, <1>4 DEF Sess
<1>6. [g EXCEPT !.sess[s].checked = IF g.sess[s].revoked THEN @ ELSE now] = [g EXCEPT !.sess[s] = y]
  BY <1>1, <1>2, <1>3
<1>7. LET i == [g EXCEPT !.sess[s] = y] IN
      /\ i \in Hub /\ i.rebuilt /\ DOMAIN i.sess = DOMAIN g.sess
      /\ i.sess[s] = y /\ \A u \in DOMAIN g.sess : u # s => i.sess[u] = g.sess[u]
  <2> HIDE DEF y
  <2> QED BY <1>1, <1>2, <1>touched, ReplacedFacts
<1>8. ~ Passable(g.sess[s]) => hub' = [g EXCEPT !.sess[s] = y]
  BY <1>1, <1>6
<1>9. Passable(g.sess[s]) =>
        /\ through' \subseteq g.sess[s].user /\ hub' = g /\ UNCHANGED checking
        /\ auditing \subseteq auditing' /\ auditing' \subseteq auditing \cup ({s} \X g.sess[s].user)
  BY <1>1 DEF Audits
<1>10. ~ Passable(g.sess[s]) =>
         /\ through' = {} /\ hub' \in Hub /\ hub'.rebuilt /\ DOMAIN hub'.sess = DOMAIN g.sess
         /\ hub'.sess[s] = y /\ \A u \in DOMAIN g.sess : u # s => hub'.sess[u] = g.sess[u]
         /\ checking' = checking \cup ToCheck(g.sess[s], s) /\ UNCHANGED auditing
  <2> HIDE DEF y
  <2> QED BY <1>1, <1>7, <1>8
<1> HIDE DEF y
<1> QED BY <1>1, <1>2, <1>touched, <1>9, <1>10

\* What a check does that finds no authority.
LEMMA RevokesEffect ==
  ASSUME HubTypeOK, NEW s, hub' = IF s \in Known THEN [hub EXCEPT !.sess[s].revoked = TRUE] ELSE hub
  PROVE  /\ hub' \in Hub /\ hub'.rebuilt = hub.rebuilt /\ DOMAIN hub'.sess = Known
         /\ \A u \in Known \ {s} : hub'.sess[u] = hub.sess[u]
         /\ s \in Known => /\ hub'.sess[s].user = hub.sess[s].user /\ hub'.sess[s].agent = hub.sess[s].agent
                           /\ hub'.sess[s].revoked /\ hub'.sess[s].checked = hub.sess[s].checked
<1>h. hub \in Hub
  BY DEF HubTypeOK
<1>1. CASE s \notin Known
  BY <1>h, <1>1 DEF Known
<1>2. CASE s \in Known
  <2> DEFINE y == [hub.sess[s] EXCEPT !.revoked = TRUE]
  <2>1. hub.sess[s] \in Sess
    <3>1. hub.sess \in Partial(Streams, Sess)
      BY <1>h, HubFacts
    <3> QED BY <1>2, <3>1, PartialFacts DEF Known
  <2>2. /\ y \in Sess /\ y.user = hub.sess[s].user /\ y.agent = hub.sess[s].agent
        /\ y.revoked /\ y.checked = hub.sess[s].checked
    BY <2>1 DEF Sess
  <2>3. hub' = [hub EXCEPT !.sess[s] = y]
    BY <1>2
  <2>y. y \in Sess
    BY <2>2
  <2> HIDE DEF y
  <2>4. /\ hub' \in Hub /\ hub'.rebuilt = hub.rebuilt /\ DOMAIN hub'.sess = Known
        /\ hub'.sess[s] = y /\ \A u \in Known : u # s => hub'.sess[u] = hub.sess[u]
    BY ONLY <1>h, <1>2, <2>y, <2>3, ReplacedFacts DEF Known
  <2>5. /\ hub'.sess[s].user = hub.sess[s].user /\ hub'.sess[s].agent = hub.sess[s].agent
        /\ hub'.sess[s].checked = hub.sess[s].checked
    BY <2>2, <2>4
  <2>6. hub'.sess[s].revoked
    BY <2>2, <2>4
  <2> QED BY <1>2, <2>4, <2>5, <2>6
<1> QED BY <1>1, <1>2

LEMMA SocketClosesEffect ==
  ASSUME HubTypeOK, ColdInv, NEW k \in Sockets, SocketCloses(k)
  PROVE  \E g : /\ Found(g, {})
                /\ hub' \in Hub /\ hub'.rebuilt /\ DOMAIN hub'.sess = DOMAIN g.sess \ Emptied(g, k)
                /\ \A u \in DOMAIN hub'.sess :
                     /\ hub'.sess[u].user = g.sess[u].user \ {k} /\ hub'.sess[u].agent = g.sess[u].agent \ {k}
                     /\ hub'.sess[u].checked = g.sess[u].checked /\ hub'.sess[u].revoked = g.sess[u].revoked
                /\ sock' \in Partial(Sockets, Sock) /\ DOMAIN sock' = DOMAIN sock \ {k}
                /\ \A j \in DOMAIN sock \ {k} :
                     /\ sock'[j].role = sock[j].role /\ sock'[j].of = sock[j].of
                     /\ sock'[j].deadline = sock[j].deadline
                     /\ sock'[j].closing <=> sock[j].closing \/ j \in Partners(g, k)
                /\ stored' = stored \ Emptied(g, k)
<1>1. PICK g \in Woken : /\ sock' = Without(Close(Partners(g, k)), {k})
                         /\ hub' = [g EXCEPT !.sess = Left(g, k)]
                         /\ stored' = stored \ Emptied(g, k)
  BY DEF SocketCloses
<1>2. Found(g, {}) /\ g \in Hub /\ g.rebuilt
  BY WokenFacts DEF Found
<1>3. g.sess \in Partial(Streams, Sess)
  BY <1>2, HubFacts
<1>4. ASSUME NEW u \in DOMAIN g.sess
      PROVE  LET y == [g.sess[u] EXCEPT !.user = g.sess[u].user \ {k}, !.agent = g.sess[u].agent \ {k}] IN
             /\ y \in Sess /\ y.user = g.sess[u].user \ {k} /\ y.agent = g.sess[u].agent \ {k}
             /\ y.checked = g.sess[u].checked /\ y.revoked = g.sess[u].revoked
  <2>1. g.sess[u] \in Sess
    BY <1>3, PartialFacts
  <2>2. g.sess[u].user \in Singly(Sockets) /\ g.sess[u].agent \in Singly(Sockets)
    BY <2>1 DEF Sess
  <2>3. g.sess[u].user \ {k} \in Singly(Sockets) /\ g.sess[u].agent \ {k} \in Singly(Sockets)
    BY <2>2, SinglyLess
  <2> QED BY <2>1, <2>3 DEF Sess
<1>5. Left(g, k) \in [DOMAIN g.sess \ Emptied(g, k) -> Sess]
  BY <1>4 DEF Left
<1>6. DOMAIN g.sess \ Emptied(g, k) \in SUBSET Streams
  BY <1>3, PartialFacts
<1>7. Left(g, k) \in Partial(Streams, Sess)
  BY <1>5, <1>6, IsPartial
<1>hub. hub' \in Hub /\ hub'.sess = Left(g, k) /\ hub'.rebuilt
  BY <1>1, <1>2, <1>7, HubWith
<1>9. Close(Partners(g, k)) \in Partial(Sockets, Sock)
  BY CloseFacts
<1>10. sock' \in Partial(Sockets, Sock)
  BY <1>1, <1>9, WithoutFacts
<1>domain. /\ DOMAIN sock' = DOMAIN sock \ {k}
           /\ \A j \in DOMAIN sock \ {k} : sock'[j] = Close(Partners(g, k))[j]
  BY <1>1, CloseFacts DEF Without
<1>12. \A u \in DOMAIN hub'.sess :
         /\ hub'.sess[u].user = g.sess[u].user \ {k} /\ hub'.sess[u].agent = g.sess[u].agent \ {k}
         /\ hub'.sess[u].checked = g.sess[u].checked /\ hub'.sess[u].revoked = g.sess[u].revoked
  BY <1>4, <1>hub DEF Left
<1>13. \A j \in DOMAIN sock \ {k} :
         /\ sock'[j].role = sock[j].role /\ sock'[j].of = sock[j].of
         /\ sock'[j].deadline = sock[j].deadline
         /\ sock'[j].closing <=> sock[j].closing \/ j \in Partners(g, k)
  BY <1>domain, CloseFacts
<1>14. DOMAIN hub'.sess = DOMAIN g.sess \ Emptied(g, k)
  BY <1>hub DEF Left
<1> QED BY <1>1, <1>2, <1>hub, <1>10, <1>domain, <1>12, <1>13, <1>14

LEMMA AlarmEffect ==
  ASSUME HubTypeOK, ColdInv, Alarm
  PROVE  \E g \in Hub : /\ Found(g, {})
                        /\ hub' \in Hub /\ hub'.rebuilt /\ DOMAIN hub'.sess = DOMAIN g.sess \ Expired(g)
                        /\ \A u \in DOMAIN hub'.sess : hub'.sess[u] = g.sess[u]
                        /\ Closes(SweptSockets(g), {})
                        /\ stored' = stored \ Expired(g)
                        /\ alarm' = {t \in SweptAlarm(g) : t > now}
<1>1. PICK g \in Woken : /\ hub' = Swept(g) /\ sock' = Close(SweptSockets(g))
                         /\ stored' = stored \ Expired(g)
                         /\ alarm' = {t \in SweptAlarm(g) : t > now}
  BY DEF Alarm
<1>2. Found(g, {}) /\ g \in Hub /\ g.rebuilt
  BY WokenFacts DEF Found
<1> QED BY <1>1, <1>2, SweptFacts, ClosesFacts

(* Sessions: the types, which every other proof needs. *)

LEMMA AlarmTypes ==
  ASSUME HubTypeOK, NEW h \in Hub
  PROVE  /\ SweptAlarm(h) \in Singly(AlarmTimes)
         /\ Earlier(SweptAlarm(h), now + Ttl + 1) \in Singly(AlarmTimes)
         /\ Earlier(SweptAlarm(h), now + AuthTimeout) \in Singly(AlarmTimes)
<1>1. now \in Times
  BY DEF HubTypeOK
<1>2. now + Ttl + 1 \in AlarmTimes /\ now + AuthTimeout \in AlarmTimes
  BY <1>1, Bounds
<1>3. SweptAlarm(h) \in Singly(AlarmTimes)
  BY SweptAlarmFacts
<1> QED BY <1>2, <1>3, EarlierFacts

LEMMA SessTypes ==
  ASSUME NEW h \in Hub, NEW s \in DOMAIN h.sess
  PROVE  /\ s \in Streams /\ h.sess[s] \in Sess
         /\ h.sess[s].user \subseteq Sockets /\ h.sess[s].agent \subseteq Sockets
         /\ h.sess[s].checked \in Times /\ h.sess[s].revoked \in BOOLEAN
<1>1. s \in Streams /\ h.sess[s] \in Sess
  BY HubFacts, PartialFacts
<1>2. \A x \in Sess : /\ x.user \in Singly(Sockets) /\ x.agent \in Singly(Sockets)
                      /\ x.checked \in Times /\ x.revoked \in BOOLEAN
  BY DEF Sess
<1> QED BY <1>1, <1>2, SinglyFacts

\* What the actions that only serve a request or a frame leave of the rest.
LEMMA RestTypes ==
  ASSUME HubTypeOK, UNCHANGED <<now, admin, lost, gone, condemned>>, created' \in [Streams -> Times],
         stored' \subseteq Streams, alarm' \in Singly(AlarmTimes), hub' \in Hub, hub'.rebuilt,
         sock' \in Partial(Sockets, Sock), authing' \subseteq Sockets \X Streams \X {"identity", "server"},
         opening' \subseteq Streams, checking' \subseteq Streams \X Sockets \X Phases,
         auditing' \subseteq Streams \X Sockets,
         stray' \subseteq Streams, through' \subseteq Sockets
  PROVE  HubTypeOK' /\ ColdInv'
BY DEF HubTypeOK, ColdInv, AlarmTimes, Times

LEMMA CreateTypes == ASSUME HubTypeOK, ColdInv, NEW s \in Streams, Create(s) PROVE HubTypeOK' /\ ColdInv'
<1>hub. hub' \in Hub /\ hub'.rebuilt
  BY CreateEffect DEF Grows
<1>alarm. alarm' \in Singly(AlarmTimes)
  BY AlarmTypes DEF Create, HubTypeOK
<1>sockets. sock' \in Partial(Sockets, Sock)
  BY CloseFacts DEF Create
<1>stored. stored' \subseteq Streams /\ created' \in [Streams -> Times] /\ through' = {}
  BY DEF Create, HubTypeOK
<1>rest. UNCHANGED <<now, admin, lost, gone, condemned, authing, opening, checking, auditing, stray>>
  BY DEF Create, awaits
<1> QED BY <1>hub, <1>alarm, <1>sockets, <1>stored, <1>rest, RestTypes DEF HubTypeOK

LEMMA ConnectTypes ==
  ASSUME HubTypeOK, ColdInv, NEW s \in Streams, NEW k \in Sockets, ConnectUser(s, k)
  PROVE  HubTypeOK' /\ ColdInv'
<1>1. hub' \in Hub /\ hub'.rebuilt /\ sock' \in Partial(Sockets, Sock)
  BY ConnectEffect DEF Grows, Closes, Found
<1>2. alarm' \in Singly(AlarmTimes)
  BY AlarmTypes DEF ConnectUser, HubTypeOK
<1>3. stored' \subseteq Streams /\ through' = {}
  BY DEF ConnectUser, HubTypeOK
<1>4. UNCHANGED <<now, created, admin, lost, gone, condemned, authing, opening, checking, auditing, stray>>
  BY DEF ConnectUser, awaits
<1> QED BY <1>1, <1>2, <1>3, <1>4, RestTypes DEF HubTypeOK

LEMMA AsksTypes == ASSUME HubTypeOK, ColdInv, NEW s \in Streams, AgentAsks(s) PROVE HubTypeOK' /\ ColdInv'
<1>hub. hub' \in Hub /\ hub'.rebuilt
  BY AsksEffect DEF Grows, Found
<1>alarm. alarm' \in Singly(AlarmTimes)
  BY AlarmTypes DEF AgentAsks, HubTypeOK
<1>sockets. sock' \in Partial(Sockets, Sock)
  BY CloseFacts DEF AgentAsks
<1>stored. stored' \subseteq Streams /\ opening' \subseteq Streams /\ through' = {}
  BY DEF AgentAsks, HubTypeOK
<1>rest. UNCHANGED <<now, created, admin, lost, gone, condemned, authing, checking, auditing, stray>>
  BY DEF AgentAsks
<1> QED BY <1>hub, <1>alarm, <1>sockets, <1>stored, <1>rest, RestTypes DEF HubTypeOK

LEMMA AgentTypes ==
  ASSUME HubTypeOK, ColdInv, NEW s \in Streams, NEW k \in Sockets, AgentAttaches(s, k)
  PROVE  HubTypeOK' /\ ColdInv'
<1>1. /\ hub' \in Hub /\ hub'.rebuilt = hub.rebuilt /\ sock' \in Partial(Sockets, Sock)
      /\ stray' = stray \cup {x \in {s} : s \in Known => hub.sess[s].agent # {}}
  BY AgentEffect DEF Closes
<1>2. hub.rebuilt /\ opening' \subseteq opening /\ through' = {}
  BY DEF AgentAttaches, ColdInv
<1>3. UNCHANGED <<now, created, stored, alarm, admin, lost, gone, condemned, authing, checking, auditing>>
  BY DEF AgentAttaches
<1>4. stray' \subseteq Streams
  BY <1>1 DEF HubTypeOK
<1> QED BY <1>1, <1>2, <1>3, <1>4, RestTypes DEF HubTypeOK, AlarmTimes

LEMMA DropAgentTypes == ASSUME HubTypeOK, ColdInv, DropAgentSessions PROVE HubTypeOK' /\ ColdInv'
<1>hub. hub' \in Hub /\ hub'.rebuilt
  BY BegunFacts DEF DropAgentSessions, Found
<1>alarm. alarm' \in Singly(AlarmTimes)
  BY AlarmTypes DEF DropAgentSessions, HubTypeOK
<1>sockets. sock' \in Partial(Sockets, Sock)
  BY CloseFacts DEF DropAgentSessions
<1>stored. stored' \subseteq Streams /\ through' = {}
  BY DEF DropAgentSessions, HubTypeOK
<1>rest. UNCHANGED <<now, created, admin, lost, gone, condemned, authing, opening, checking, auditing, stray>>
  BY DEF DropAgentSessions, awaits
<1> QED BY <1>hub, <1>alarm, <1>sockets, <1>stored, <1>rest, RestTypes DEF HubTypeOK

LEMMA DropServerTypes == ASSUME HubTypeOK, ColdInv, DropServer PROVE HubTypeOK' /\ ColdInv'
<1>1. hub' \in Hub /\ hub'.rebuilt /\ sock' \in Partial(Sockets, Sock)
  BY DropServerEffect DEF Closes
<1>2. alarm' \in Singly(AlarmTimes)
  BY AlarmTypes DEF DropServer, HubTypeOK
<1>3. stored' \subseteq Streams /\ through' = {} /\ gone' = TRUE
  BY DEF DropServer, HubTypeOK
<1>4. UNCHANGED <<now, created, admin, lost, condemned, authing, opening, checking, auditing, stray>>
  BY DEF DropServer, awaits
<1> QED BY <1>1, <1>2, <1>3, <1>4 DEF HubTypeOK, ColdInv, Times, AlarmTimes

LEMMA BeginsTypes == ASSUME HubTypeOK, ColdInv, NEW k \in Sockets, AuthBegins(k) PROVE HubTypeOK' /\ ColdInv'
<1>1. hub' \in Hub /\ hub'.rebuilt
  BY WokenFacts DEF AuthBegins, Found
<1>2. sock' \in Partial(Sockets, Sock)
  BY CloseFacts DEF AuthBegins, HubTypeOK
<1>3. k \in DOMAIN sock /\ sock[k].of \in Streams
  BY SockFacts DEF AuthBegins, Open
<1>4. authing' \subseteq Sockets \X Streams \X {"identity", "server"}
  BY <1>3 DEF AuthBegins, HubTypeOK
<1>5. UNCHANGED <<now, created, stored, alarm, opening, checking, auditing, admin, lost, gone, stray, condemned>> /\ through' = {}
  BY DEF AuthBegins
<1> QED BY <1>1, <1>2, <1>4, <1>5, RestTypes DEF HubTypeOK, AlarmTimes

LEMMA IdentifiedTypes ==
  ASSUME HubTypeOK, ColdInv, NEW s \in Streams, NEW k \in Sockets, AuthIdentified(s, k)
  PROVE  HubTypeOK' /\ ColdInv'
<1>1. hub.rebuilt /\ through' = {}
  BY DEF AuthIdentified, ColdInv
<1>2. UNCHANGED <<now, created, stored, alarm, opening, checking, auditing, admin, lost, gone, condemned>>
  BY DEF AuthIdentified
<1>3. PICK h, N :
         /\ h \in Hub /\ h.rebuilt = hub.rebuilt
         /\ \/ /\ lost = 0 /\ admin /\ s \in DOMAIN h.sess
               /\ Attach(h, s, k) /\ authing' = authing \ {<<k, s, "identity">>}
            \/ /\ hub' = h /\ (\E K : sock' = Close(K)) /\ UNCHANGED stray
               /\ AwaitsRow(s, k)
  BY IdentifiedEffect
<1>4. /\ hub' \in Hub /\ hub'.rebuilt /\ sock' \in Partial(Sockets, Sock) /\ stray' \subseteq Streams
  <2>1. CASE Attach(h, s, k)
    BY <1>1, <1>3, <2>1, AttachFacts
  <2>2. CASE hub' = h /\ (\E K : sock' = Close(K)) /\ UNCHANGED stray
    BY <1>1, <1>3, <2>2, CloseFacts DEF HubTypeOK
  <2> QED BY <1>3, <2>1, <2>2
<1>5. authing' \subseteq Sockets \X Streams \X {"identity", "server"}
  BY <1>3 DEF HubTypeOK, AwaitsRow
<1> QED BY <1>1, <1>2, <1>4, <1>5, RestTypes DEF HubTypeOK, AlarmTimes

LEMMA AllowedTypes ==
  ASSUME HubTypeOK, ColdInv, NEW s \in Streams, NEW k \in Sockets, AuthAllowed(s, k)
  PROVE  HubTypeOK' /\ ColdInv'
<1>1. hub.rebuilt /\ hub \in Hub /\ through' = {} /\ authing' \subseteq authing
  BY DEF AuthAllowed, ColdInv, HubTypeOK
<1>2. UNCHANGED <<now, created, stored, alarm, opening, checking, auditing, admin, lost, gone, condemned>>
  BY DEF AuthAllowed
<1>3. /\ hub' \in Hub /\ hub'.rebuilt /\ sock' \in Partial(Sockets, Sock) /\ stray' \subseteq Streams
  <2>1. CASE Attach(hub, s, k)
    BY <1>1, <2>1, AttachFacts
  <2>2. CASE sock' = Close({k}) /\ UNCHANGED <<hub, stray>>
    BY <1>1, <2>2, CloseFacts DEF HubTypeOK
  <2> QED BY <2>1, <2>2 DEF AuthAllowed
<1> QED BY <1>1, <1>2, <1>3, RestTypes DEF HubTypeOK, AlarmTimes

LEMMA FrameTypes ==
  ASSUME HubTypeOK, ColdInv, NEW s \in Streams, NEW k \in Sockets, Frame(s, k)
  PROVE  HubTypeOK' /\ ColdInv'
<1>1. PICK g : /\ Found(g, {}) /\ s \in DOMAIN g.sess
               /\ \/ /\ hub' = g /\ UNCHANGED checking /\ through' \subseteq g.sess[s].user
                     /\ auditing' \subseteq auditing \cup ({s} \X g.sess[s].user)
                  \/ /\ through' = {} /\ hub' \in Hub /\ hub'.rebuilt /\ UNCHANGED auditing
                     /\ checking' = checking \cup ToCheck(g.sess[s], s)
  BY FrameEffect
<1>2. g \in Hub /\ g.rebuilt /\ g.sess[s].user \subseteq Sockets
  BY <1>1, SessTypes DEF Found
<1>3. hub' \in Hub /\ hub'.rebuilt /\ through' \subseteq Sockets
  BY <1>1, <1>2
<1>4. checking' \subseteq Streams \X Sockets \X Phases /\ auditing' \subseteq Streams \X Sockets
  BY <1>1, <1>2 DEF HubTypeOK, ToCheck, Phases
<1>5. UNCHANGED <<now, created, stored, alarm, sock, authing, opening, admin, lost, gone, stray, condemned>>
  BY DEF Frame
<1> QED BY <1>3, <1>4, <1>5, RestTypes DEF HubTypeOK, AlarmTimes

LEMMA AuditedTypes ==
  ASSUME HubTypeOK, ColdInv, NEW s \in Streams, NEW k \in Sockets, Audited(s, k)
  PROVE  HubTypeOK' /\ ColdInv'
<1>1. /\ UNCHANGED <<now, created, hub, stored, alarm, sock, authing, opening, checking, admin, lost, gone, stray, condemned>>
      /\ auditing' \subseteq auditing /\ through' \subseteq Sockets
  BY DEF Audited
<1> QED BY <1>1 DEF HubTypeOK, ColdInv, Times, Known

\* How a check goes on, of which the two reads of D1 are one step each.
CheckGoes(s, k) ==
  /\ UNCHANGED <<now, created, stored, alarm, authing, opening, admin, lost, gone, stray>>
  /\ hub.rebuilt
  /\ \/ GoesOn(s, k) \/ Condemns(s, k) \/ CheckFails
     \/ through' = {} /\ UNCHANGED <<hub, sock, condemned, auditing>>

LEMMA CheckGoesOn ==
  ASSUME HubTypeOK, ColdInv, NEW s \in Streams, NEW k \in Sockets, CheckIdentity(s, k) \/ CheckServer(s, k)
  PROVE  CheckGoes(s, k) /\ checking' \subseteq Streams \X Sockets \X Phases
<1>1. hub.rebuilt
  BY DEF CheckIdentity, CheckServer, ColdInv
<1>2. checking' \subseteq Streams \X Sockets \X Phases
  BY DEF CheckIdentity, CheckServer, HubTypeOK, Phases
<1> QED BY <1>1, <1>2 DEF CheckIdentity, CheckServer, CheckGoes

LEMMA CheckTypesKept ==
  ASSUME HubTypeOK, ColdInv, NEW s \in Streams, NEW k \in Sockets, CheckIdentity(s, k) \/ CheckServer(s, k)
  PROVE  HubTypeOK' /\ ColdInv'
<1>goes. CheckGoes(s, k) /\ checking' \subseteq Streams \X Sockets \X Phases
  BY CheckGoesOn
<1>before. hub.rebuilt /\ hub \in Hub
  BY <1>goes DEF CheckGoes, HubTypeOK
<1>rest. UNCHANGED <<now, created, stored, alarm, authing, opening, admin, lost, gone, stray>>
  BY <1>goes DEF CheckGoes
<1>hub. hub' \in Hub /\ hub'.rebuilt
  <2>1. CASE UNCHANGED hub
    BY <1>before, <2>1
  <2>2. CASE hub' = IF s \in Known THEN [hub EXCEPT !.sess[s].revoked = TRUE] ELSE hub
    BY <1>before, <2>2, RevokesEffect
  <2> QED BY <1>goes, <2>1, <2>2 DEF CheckGoes, GoesOn, Condemns, CheckFails
<1>sockets. sock' \in Partial(Sockets, Sock)
  BY <1>goes, CloseFacts DEF CheckGoes, GoesOn, Condemns, CheckFails, HubTypeOK
<1>data. through' \subseteq Sockets /\ auditing' \subseteq Streams \X Sockets /\ condemned' \subseteq Sockets
  BY <1>goes DEF CheckGoes, GoesOn, Audits, Condemns, CheckFails, HubTypeOK
<1> QED BY <1>goes, <1>before, <1>rest, <1>hub, <1>sockets, <1>data DEF HubTypeOK, ColdInv, Times

LEMMA SocketClosesTypes == ASSUME HubTypeOK, ColdInv, NEW k \in Sockets, SocketCloses(k) PROVE HubTypeOK' /\ ColdInv'
<1>1. hub' \in Hub /\ hub'.rebuilt /\ sock' \in Partial(Sockets, Sock)
  BY SocketClosesEffect
<1>2. UNCHANGED <<now, created, alarm, authing, opening, checking, auditing, admin, lost, gone, stray>> /\ through' = {}
  BY DEF SocketCloses, awaits
<1>3. stored' \subseteq Streams /\ condemned' \subseteq Sockets
  BY DEF SocketCloses, HubTypeOK
<1> QED BY <1>1, <1>2, <1>3 DEF HubTypeOK, ColdInv, Times

LEMMA AlarmRingsTypes == ASSUME HubTypeOK, ColdInv, Alarm PROVE HubTypeOK' /\ ColdInv'
<1>1. PICK g \in Hub : /\ hub' \in Hub /\ hub'.rebuilt /\ Closes(SweptSockets(g), {})
                       /\ stored' = stored \ Expired(g)
                       /\ alarm' = {t \in SweptAlarm(g) : t > now}
  BY AlarmEffect
<1>2. alarm' \in Singly(AlarmTimes)
  <2>1. SweptAlarm(g) \in Singly(AlarmTimes) /\ alarm' \in SUBSET SweptAlarm(g)
    BY <1>1, AlarmTypes
  <2> QED BY <2>1, SinglyLess
<1>3. UNCHANGED <<now, created, authing, opening, checking, auditing, admin, lost, gone, stray, condemned>> /\ through' = {}
  BY DEF Alarm, awaits
<1> QED BY <1>1, <1>2, <1>3, RestTypes DEF HubTypeOK, Closes

LEMMA EvictTypes == ASSUME HubTypeOK, ColdInv, Evict PROVE HubTypeOK' /\ ColdInv'
<1>1. hub' = [sess |-> <<>>, rebuilt |-> FALSE] /\ authing' = {} /\ opening' = {} /\ checking' = {}
      /\ auditing' = {} /\ through' = {}
  BY DEF Evict
<1>2. UNCHANGED <<now, created, stored, alarm, sock, admin, lost, gone, condemned>>
  BY DEF Evict
<1>3. hub' \in Hub /\ DOMAIN hub'.sess = {}
  BY <1>1, NothingKnown DEF Hub
<1>4. stray' \subseteq Streams
  BY DEF Evict, HubTypeOK
<1> QED BY <1>1, <1>2, <1>3, <1>4 DEF HubTypeOK, ColdInv, Times, Known

LEMMA HubTypesStep == HubTypeOK /\ ColdInv /\ [HubNext]_hubVars => HubTypeOK' /\ ColdInv'
<1> SUFFICES ASSUME HubTypeOK, ColdInv, [HubNext]_hubVars PROVE HubTypeOK' /\ ColdInv'
  OBVIOUS
<1>revoke. CASE Revoke
  BY <1>revoke DEF Revoke, awaits, HubTypeOK, ColdInv, Times, Known
<1>tick. CASE Tick
  <2>1. now' \in Times /\ through' = {}
    BY <1>tick, HubAssumption DEF Tick, HubTypeOK, Times
  <2>2. UNCHANGED <<created, hub, stored, alarm, sock, authing, opening, checking, auditing, admin, lost, gone, stray, condemned>>
    BY <1>tick DEF Tick, awaits
  <2> QED BY <2>1, <2>2 DEF HubTypeOK, ColdInv, Times, Known
<1>stutter. CASE UNCHANGED hubVars
  BY <1>stutter DEF hubVars, awaits, HubTypeOK, ColdInv, Times, Known
<1>stream. ASSUME NEW s \in Streams, Create(s) \/ AgentAsks(s) PROVE HubTypeOK' /\ ColdInv'
  BY <1>stream, CreateTypes, AsksTypes
<1>both. ASSUME NEW s \in Streams, NEW k \in Sockets,
                \/ ConnectUser(s, k) \/ AuthIdentified(s, k) \/ AuthAllowed(s, k)
                \/ AgentAttaches(s, k) \/ Frame(s, k) \/ Audited(s, k)
                \/ CheckIdentity(s, k) \/ CheckServer(s, k)
         PROVE  HubTypeOK' /\ ColdInv'
  BY <1>both, ConnectTypes, IdentifiedTypes, AllowedTypes, AgentTypes, FrameTypes,
     AuditedTypes, CheckTypesKept
<1>socket. ASSUME NEW k \in Sockets, AuthBegins(k) \/ SocketCloses(k) PROVE HubTypeOK' /\ ColdInv'
  BY <1>socket, BeginsTypes, SocketClosesTypes
<1> QED BY <1>revoke, <1>tick, <1>stutter, <1>stream, <1>both, <1>socket, DropAgentTypes,
           DropServerTypes, AlarmRingsTypes, EvictTypes DEF HubNext

LEMMA HubTypesInit == HubInit => HubTypeOK /\ ColdInv
<1> SUFFICES ASSUME HubInit PROVE HubTypeOK /\ ColdInv
  OBVIOUS
<1>1. hub \in Hub /\ hub.rebuilt
  BY NothingKnown DEF HubInit, Hub
<1>2. sock \in Partial(Sockets, Sock)
  BY NothingKnown DEF HubInit
<1>3. now \in Times /\ 0 \in Times
  BY HubAssumption DEF HubInit, Times
<1>4. alarm \in Singly(0..(MaxNow + Abs + AuthTimeout + 1))
  BY SinglyFacts DEF HubInit
<1> QED BY <1>1, <1>2, <1>3, <1>4 DEF HubInit, HubTypeOK, ColdInv

\* Every variable keeps its type, and an object that comes into memory cold has
\* nothing there (the constructor, do-terminal.js:55).
THEOREM HubTypeCorrect == HubSpec => [](HubTypeOK /\ ColdInv)
<1>1. HubInit => HubTypeOK /\ ColdInv
  BY HubTypesInit
<1>2. HubTypeOK /\ ColdInv /\ [HubNext]_hubVars => (HubTypeOK /\ ColdInv)'
  BY HubTypesStep
<1> QED BY <1>1, <1>2, PTL DEF HubSpec

(* Sessions: data gets through to whom the last check found with authority. *)

\* A session that passes frames on, for as long as its check is fresh.
Trusted(x) == ~ x.revoked /\ x.checked # 0

\* No socket is in hand for two sessions.
OwnInv == \A k \in Sockets : \A s, t \in Streams : Holds(s, k) /\ Holds(t, k) => s = t

Allowed == lost = 0 /\ (admin \/ ~ gone)

InCheck(s, k) == \E w \in Phases : <<s, k, w>> \in checking

\* A session is trusted after a check that its user still passed, or one that is
\* still under way.
SessInv ==
  \A s \in Known :
    /\ hub.sess[s].checked <= now
    /\ Trusted(hub.sess[s]) =>
         /\ lost = 0 \/ hub.sess[s].checked <= lost \/ \A k \in hub.sess[s].user : InCheck(s, k)
         /\ \A k \in hub.sess[s].user \cap condemned : InCheck(s, k)

\* Authority that was lost does not come back.
CondInv == condemned # {} => ~ Allowed

\* One check of a session at a time: the tick does not end before it does, and frames
\* overtake it.
OnceInv ==
  /\ now # 0
  /\ \A s \in Streams, j, k \in Sockets, v, w \in Phases :
       <<s, j, v>> \in checking /\ <<s, k, w>> \in checking => j = k /\ v = w
  /\ \A s \in Known, k \in Sockets :
       InCheck(s, k) /\ hub.sess[s].user # {} /\ ~ hub.sess[s].revoked => hub.sess[s].checked = now

\* What was read of a user was so within this tick.
Fresh == ~ admin /\ (lost = 0 \/ lost = now)

Clear(s, k) == k \notin condemned /\ (s \in Known => hub.sess[s].user \cap condemned = {})

\* The first answer of D1 is still right about the past, and no verdict came since but
\* for a server that is gone.
ReadInv ==
  \A s \in Streams, k \in Sockets :
    /\ <<s, k, "refused">> \in checking => lost # 0
    /\ <<s, k, "granted">> \in checking => Fresh /\ (gone \/ Clear(s, k))
    /\ <<k, s, "server">> \in authing => Fresh /\ (gone \/ k \notin condemned)

Waiting(k) == (k \in DOMAIN sock /\ sock[k].role = "pending") \/ \E x \in authing : x[1] = k

\* A browser that has yet to authenticate does so once, and has no session.
WaitInv ==
  /\ \A x, y \in authing : x[1] = y[1] => x = y
  /\ \A k \in Sockets : Waiting(k) =>
       \A s \in Streams : ~ InCheck(s, k) /\ (s \in Known => k \notin hub.sess[s].user)

TrustInv == OwnInv /\ SessInv /\ CondInv /\ OnceInv /\ ReadInv /\ WaitInv

\* What becomes of session u: nothing that would make it trusted.
Kept(u) ==
  /\ u \in Known /\ hub'.sess[u].user \subseteq hub.sess[u].user
  /\ hub'.sess[u].checked = hub.sess[u].checked /\ hub'.sess[u].revoked = hub.sess[u].revoked

\* Session u was found by its sockets.
Cold(u) ==
  /\ ~ hub.rebuilt
  /\ \A j \in hub'.sess[u].user : j \in DOMAIN sock /\ sock[j].role = "user"

KeptOrUnchecked(u) == Kept(u) \/ (hub'.sess[u].checked = 0 /\ (hub'.sess[u].user = {} \/ Cold(u)))

HeldBefore == \A u \in Known' : \A j \in hub'.sess[u].user : Holds(u, j)

\* A session that was found refers to no socket it did not have.
LEMMA FoundHolds ==
  ASSUME HubTypeOK, ColdInv, NEW g, NEW X, Found(g, X), NEW u \in DOMAIN g.sess
  PROVE  /\ \A j \in g.sess[u].user : Holds(u, j)
         /\ \/ u \in Known /\ g.sess[u] = hub.sess[u]
            \/ /\ g.sess[u].checked = 0 /\ ~ hub.rebuilt
               /\ \A j \in g.sess[u].user : j \in DOMAIN sock /\ sock[j].role = "user"
BY DEF Found, FromSockets, Sockets_, Holds, ColdInv

LEMMA GrowsKeeps ==
  ASSUME HubTypeOK, ColdInv, NEW g, NEW X, Found(g, X), NEW N, Grows(g, N)
  PROVE  /\ \A u \in Known' : KeptOrUnchecked(u)
         /\ HeldBefore
<1>1. ASSUME NEW u \in Known' PROVE KeptOrUnchecked(u) /\ \A j \in hub'.sess[u].user : Holds(u, j)
  <2>1. CASE u \in N
    <3>1. hub'.sess[u] = NewSess
      BY <2>1 DEF Grows
    <3> QED BY <3>1, NewSessFacts DEF KeptOrUnchecked
  <2>2. CASE u \notin N
    <3>1. u \in DOMAIN g.sess /\ hub'.sess[u] = g.sess[u]
      BY <2>2 DEF Grows, Known
    <3> QED BY <3>1, FoundHolds DEF KeptOrUnchecked, Kept, Cold
  <2> QED BY <2>1, <2>2
<1> QED BY <1>1 DEF HeldBefore

LEMMA SessKept ==
  ASSUME HubTypeOK, HubTypeOK', SessInv, \A u \in Streams, k \in Sockets : InCheck(u, k) => InCheck(u, k)',
         condemned' \subseteq condemned, lost' = lost, now <= now', \A u \in Known' : KeptOrUnchecked(u)
  PROVE  SessInv'
<1> SUFFICES ASSUME NEW u \in Known'
             PROVE  /\ hub'.sess[u].checked <= now'
                    /\ Trusted(hub'.sess[u]) =>
                         /\ \/ lost' = 0 \/ hub'.sess[u].checked <= lost'
                            \/ \A k \in hub'.sess[u].user : InCheck(u, k)'
                         /\ \A k \in hub'.sess[u].user \cap condemned' : InCheck(u, k)'
  BY DEF SessInv
<1>n. now \in Nat /\ now' \in Nat
  BY HubAssumption DEF HubTypeOK, Times
<1>1. CASE Kept(u)
  <2>1. hub.sess[u].checked \in Nat
    BY <1>1, SessTypes, HubAssumption, SMTT(30) DEF Kept, Known, HubTypeOK, Times
  <2>2. hub'.sess[u].checked <= now'
    BY <1>1, <1>n, <2>1 DEF SessInv, Kept
  <2>3. u \in Streams /\ hub.sess[u].user \subseteq Sockets
    BY <1>1, SessTypes DEF Kept, Known, HubTypeOK
  <2> QED BY <1>1, <2>2, <2>3 DEF SessInv, Kept, Trusted
<1>2. CASE hub'.sess[u].checked = 0
  BY <1>2, <1>n DEF Trusted
<1> QED BY <1>1, <1>2 DEF KeptOrUnchecked

\* No socket but those of J, for stream m, comes new.
Newcomers(J, m) ==
  /\ \A j \in J : New(j)
  /\ DOMAIN sock' \subseteq DOMAIN sock \cup J
  /\ \A j \in DOMAIN sock' \ J :
       sock'[j].of = sock[j].of /\ (sock'[j].role = "pending" => sock[j].role = "pending")
  /\ \A j \in DOMAIN sock' \cap J : sock'[j].of = m

\* What holds an await holds the socket.
AwaitsHold ==
  \A s \in Streams, k \in Sockets :
    /\ InCheck(s, k) => Holds(s, k)
    /\ <<s, k>> \in auditing => Holds(s, k)
    /\ \A w \in {"identity", "server"} : <<k, s, w>> \in authing => Holds(s, k)

LEMMA AwaitHolds == AwaitsHold
BY DEF AwaitsHold, InCheck, Holds

\* Of what is awaited next.
AwaitsHeld ==
  \A s \in Streams, k \in Sockets :
    /\ InCheck(s, k)' => Holds(s, k)
    /\ <<s, k>> \in auditing' => Holds(s, k)
    /\ \A w \in {"identity", "server"} : <<k, s, w>> \in authing' => Holds(s, k)

LEMMA OwnKept ==
  ASSUME HubTypeOK, HubTypeOK', OwnInv, HeldBefore, NEW J, NEW m, Newcomers(J, m), AwaitsHeld
  PROVE  OwnInv'
<1>1. ASSUME NEW s \in Streams, NEW k \in Sockets, Holds(s, k)'
      PROVE  Holds(s, k) \/ (k \in J /\ s = m)
  <2>served. CASE k \in DOMAIN sock' /\ sock'[k].of = s
    BY <2>served DEF Holds, Newcomers
  <2>inside. CASE s \in Known' /\ k \in hub'.sess[s].user
    BY <2>inside DEF HeldBefore
  <2>checked. CASE InCheck(s, k)'
    BY <2>checked DEF AwaitsHeld
  <2>audited. CASE <<s, k>> \in auditing'
    BY <2>audited DEF AwaitsHeld
  <2>inAuth. ASSUME NEW w \in {"identity", "server"}, <<k, s, w>> \in authing' PROVE Holds(s, k)
    BY <2>inAuth DEF AwaitsHeld
  <2> QED BY <1>1, <2>served, <2>inside, <2>checked, <2>audited, <2>inAuth DEF Holds, InCheck
<1>2. \A k \in J : \A s \in Streams : ~ Holds(s, k)
  BY DEF New, Newcomers
<1> QED BY <1>1, <1>2 DEF OwnInv

\* Browsers that wait are those that waited and sockets that come new: they have no
\* session yet.
LEMMA WaitKept ==
  ASSUME HubTypeOK, HubTypeOK', ColdInv, WaitInv, HeldBefore, \A u \in Known' : KeptOrUnchecked(u),
         NEW J, NEW m, Newcomers(J, m), \A s \in Streams, k \in Sockets : InCheck(s, k)' => InCheck(s, k),
         \A x, y \in authing' : x[1] = y[1] => x = y, \A x \in authing' : Waiting(x[1])
  PROVE  WaitInv'
<1> SUFFICES ASSUME NEW k \in Sockets, Waiting(k)', NEW s \in Streams
             PROVE  ~ InCheck(s, k)' /\ (s \in Known' => k \notin hub'.sess[s].user)
  BY DEF WaitInv
<1>1. CASE k \in J
  <2>1. ~ Holds(s, k)
    BY <1>1 DEF Newcomers, New
  <2>2. ~ InCheck(s, k)
    BY <2>1, AwaitHolds DEF AwaitsHold
  <2> QED BY <2>1, <2>2 DEF HeldBefore
<1>2. CASE k \notin J
  <2>1. Waiting(k)
    BY <1>2 DEF Waiting, Newcomers
  <2>2. ~ InCheck(s, k) /\ (s \in Known => k \notin hub.sess[s].user)
    BY <2>1 DEF WaitInv
  <2>3. ASSUME s \in Known', k \in hub'.sess[s].user PROVE FALSE
    <3>1. Cold(s)
      BY <2>2, <2>3 DEF KeptOrUnchecked, Kept
    <3>2. authing = {}
      BY <3>1 DEF ColdInv, Cold
    <3> QED BY <2>1, <2>3, <3>1, <3>2 DEF Cold, Waiting
  <2> QED BY <2>2, <2>3
<1> QED BY <1>1, <1>2

\* What holds of the awaits, for a step that begins none of a check.
AnswersAs ==
  /\ \A x, y \in authing' : x[1] = y[1] => x = y
  /\ \A x \in authing' : Waiting(x[1])
  /\ \A s \in Streams, k \in Sockets : <<k, s, "server">> \in authing' =>
       <<k, s, "server">> \in authing \/ (Fresh /\ (gone \/ k \notin condemned))

LEMMA TrustKept ==
  ASSUME HubTypeOK, HubTypeOK', ColdInv, TrustInv, UNCHANGED <<now, lost, admin, checking>>,
         condemned' \subseteq condemned, gone => gone', \A u \in Known' : KeptOrUnchecked(u), HeldBefore,
         NEW J, NEW m, Newcomers(J, m), AwaitsHeld, AnswersAs
  PROVE  TrustInv'
<1>own. OwnInv'
  BY OwnKept DEF TrustInv
<1>checks. \A s \in Streams, k \in Sockets : InCheck(s, k)' <=> InCheck(s, k)
  BY DEF InCheck
<1>clock. now <= now'
  BY HubAssumption DEF HubTypeOK, Times
<1>sess. SessInv'
  BY <1>checks, <1>clock, SessKept DEF TrustInv
<1>cond. CondInv'
  BY DEF TrustInv, CondInv, Allowed
<1>cold. ASSUME NEW u \in Known', Cold(u) PROVE checking = {}
  BY <1>cold DEF Cold, ColdInv
<1>once. OnceInv'
  <2>1. ASSUME NEW u \in Known', NEW k \in Sockets, InCheck(u, k)', hub'.sess[u].user # {}, ~ hub'.sess[u].revoked
        PROVE  hub'.sess[u].checked = now'
    <3>1. u \in Streams
      BY SessTypes DEF HubTypeOK, Known
    <3>2. InCheck(u, k) /\ checking # {}
      BY <1>checks, <2>1, <3>1 DEF InCheck
    <3>3. Kept(u)
      BY <1>cold, <2>1, <3>2 DEF KeptOrUnchecked
    <3> QED BY <2>1, <3>2, <3>3 DEF Kept, TrustInv, OnceInv
  <2> QED BY <2>1 DEF TrustInv, OnceInv
<1>answer. ReadInv'
  <2> SUFFICES ASSUME NEW s \in Streams, NEW k \in Sockets
               PROVE  /\ <<s, k, "refused">> \in checking => lost # 0
                      /\ <<s, k, "granted">> \in checking => Fresh /\ (gone' \/ Clear(s, k)')
                      /\ <<k, s, "server">> \in authing' => Fresh /\ (gone' \/ k \notin condemned')
    BY DEF ReadInv, Fresh
  <2>1. ASSUME <<s, k, "granted">> \in checking, Clear(s, k) PROVE Clear(s, k)'
    <3>1. k \notin condemned'
      BY <2>1 DEF Clear
    <3>2. ASSUME s \in Known' PROVE hub'.sess[s].user \cap condemned' = {}
      <4>1. hub'.sess[s].user = {} \/ Kept(s)
        BY <1>cold, <2>1, <3>2 DEF KeptOrUnchecked
      <4> QED BY <2>1, <4>1 DEF Kept, Clear
    <3> QED BY <3>1, <3>2 DEF Clear
  <2>2. /\ <<s, k, "refused">> \in checking => lost # 0
        /\ <<s, k, "granted">> \in checking => Fresh /\ (gone \/ Clear(s, k))
        /\ <<k, s, "server">> \in authing => Fresh /\ (gone \/ k \notin condemned)
    BY DEF TrustInv, ReadInv
  <2>3. <<k, s, "server">> \in authing' => Fresh /\ (gone' \/ k \notin condemned')
    BY <2>2 DEF AnswersAs
  <2> QED BY <2>1, <2>2, <2>3
<1>wait. WaitInv'
  BY <1>checks, WaitKept DEF TrustInv, AnswersAs
<1> QED BY <1>own, <1>sess, <1>cond, <1>once, <1>answer, <1>wait DEF TrustInv

\* A step that leaves the awaits as they are.
LEMMA TrustQuiet ==
  ASSUME HubTypeOK, HubTypeOK', ColdInv, TrustInv, UNCHANGED <<now, lost, admin, checking, auditing, authing>>,
         condemned' \subseteq condemned, gone => gone', \A u \in Known' : KeptOrUnchecked(u), HeldBefore,
         NEW J, NEW m, Newcomers(J, m)
  PROVE  TrustInv'
<1>1. AwaitsHeld
  BY AwaitHolds DEF AwaitsHeld, AwaitsHold, InCheck
<1>2. AnswersAs
  BY DEF AnswersAs, TrustInv, WaitInv, Waiting
<1> QED BY <1>1, <1>2, TrustKept

LEMMA CreateTrust ==
  ASSUME HubTypeOK, HubTypeOK', ColdInv, TrustInv, NEW s \in Streams, Create(s)
  PROVE  TrustInv'
<1>1. (\A u \in Known' : KeptOrUnchecked(u)) /\ HeldBefore
  BY CreateEffect, GrowsKeeps
<1>2. Closes(SweptSockets(hub), {})
  BY ClosesFacts DEF Create
<1>3. UNCHANGED <<now, lost, admin, gone, checking, auditing, authing, condemned>>
  BY DEF Create, awaits
<1>new. Newcomers({}, 0)
  BY <1>2 DEF Newcomers, Closes
<1> QED BY <1>1, <1>3, <1>new, TrustQuiet

LEMMA ConnectTrust ==
  ASSUME HubTypeOK, HubTypeOK', ColdInv, TrustInv, NEW s \in Streams, NEW k \in Sockets, ConnectUser(s, k)
  PROVE  TrustInv'
<1>1. (\A u \in Known' : KeptOrUnchecked(u)) /\ HeldBefore
  BY ConnectEffect, GrowsKeeps
<1>2. Closes(SweptSockets(hub), {k}) /\ New(k) /\ sock'[k].of = s
  BY ConnectEffect
<1>3. UNCHANGED <<now, lost, admin, gone, checking, auditing, authing, condemned>>
  BY DEF ConnectUser, awaits
<1>new. Newcomers({k}, s)
  BY <1>2 DEF Newcomers, Closes
<1> QED BY <1>1, <1>3, <1>new, TrustQuiet

LEMMA AsksTrust ==
  ASSUME HubTypeOK, HubTypeOK', ColdInv, TrustInv, NEW s \in Streams, AgentAsks(s)
  PROVE  TrustInv'
<1>1. (\A u \in Known' : KeptOrUnchecked(u)) /\ HeldBefore
  BY AsksEffect, GrowsKeeps
<1>2. Closes(SweptSockets(hub), {})
  BY ClosesFacts DEF AgentAsks
<1>3. UNCHANGED <<now, lost, admin, gone, checking, auditing, authing, condemned>>
  BY DEF AgentAsks
<1>new. Newcomers({}, 0)
  BY <1>2 DEF Newcomers, Closes
<1> QED BY <1>1, <1>3, <1>new, TrustQuiet

LEMMA AgentTrust ==
  ASSUME HubTypeOK, HubTypeOK', ColdInv, TrustInv, NEW s \in Streams, NEW k \in Sockets, AgentAttaches(s, k)
  PROVE  TrustInv'
<1>1. (\A u \in Known' : Kept(u)) /\ HeldBefore
  BY AgentEffect DEF Kept, HeldBefore, Holds, Known
<1>2. Closes({}, {k}) /\ New(k) /\ sock'[k].of = s
  BY AgentEffect
<1>3. UNCHANGED <<now, lost, admin, gone, checking, auditing, authing, condemned>>
  BY DEF AgentAttaches
<1>new. Newcomers({k}, s)
  BY <1>2 DEF Newcomers, Closes
<1> QED BY <1>1, <1>3, <1>new, TrustQuiet DEF KeptOrUnchecked

LEMMA DropAgentTrust ==
  ASSUME HubTypeOK, HubTypeOK', ColdInv, TrustInv, DropAgentSessions
  PROVE  TrustInv'
<1>1. PICK g \in Begun : /\ hub' = g
                         /\ sock' = Close(SweptSockets(hub) \cup UNION {g.sess[s].agent : s \in DOMAIN g.sess})
  BY DEF DropAgentSessions
<1>2. Found(g, Expired(hub)) /\ g \in Hub
  BY BegunFacts DEF Found
<1>3. (\A u \in Known' : KeptOrUnchecked(u)) /\ HeldBefore
  BY <1>1, <1>2, SameGrows, GrowsKeeps
<1>4. DOMAIN sock' = DOMAIN sock /\ \A j \in DOMAIN sock : sock'[j].of = sock[j].of /\ sock'[j].role = sock[j].role
  BY <1>1, CloseFacts
<1>5. UNCHANGED <<now, lost, admin, gone, checking, auditing, authing, condemned>>
  BY DEF DropAgentSessions, awaits
<1>new. Newcomers({}, 0)
  BY <1>4 DEF Newcomers
<1> QED BY <1>3, <1>5, <1>new, TrustQuiet

LEMMA DropServerTrust ==
  ASSUME HubTypeOK, HubTypeOK', ColdInv, TrustInv, DropServer
  PROVE  TrustInv'
<1>1. Known' = {} /\ HeldBefore
  BY DropServerEffect DEF HeldBefore
<1>2. DOMAIN sock' = DOMAIN sock /\ \A j \in DOMAIN sock : sock'[j].of = sock[j].of /\ sock'[j].role = sock[j].role
  BY DropServerEffect DEF Closes
<1>3. UNCHANGED <<now, lost, admin, checking, auditing, authing, condemned>> /\ gone'
  BY DEF DropServer, awaits
<1>new. Newcomers({}, 0)
  BY <1>2 DEF Newcomers
<1> QED BY <1>1, <1>3, <1>new, TrustQuiet

LEMMA BeginsTrust ==
  ASSUME HubTypeOK, HubTypeOK', ColdInv, TrustInv, NEW k \in Sockets, AuthBegins(k)
  PROVE  TrustInv'
<1>1. Found(hub', {}) /\ hub' \in Hub
  BY WokenFacts DEF AuthBegins, Found
<1>2. (\A u \in Known' : KeptOrUnchecked(u)) /\ HeldBefore
  BY <1>1, SameGrows, GrowsKeeps
<1>3. /\ DOMAIN sock' = DOMAIN sock
      /\ \A j \in DOMAIN sock : sock'[j].of = sock[j].of /\ sock'[j].role = sock[j].role
  BY CloseFacts DEF AuthBegins
<1>4. UNCHANGED <<now, lost, admin, gone, checking, auditing, condemned>>
  BY DEF AuthBegins
<1>5. /\ k \in DOMAIN sock /\ sock[k].role = "pending" /\ \A x \in authing : x[1] # k
      /\ authing' = authing \/ authing' = authing \cup {<<k, sock[k].of, "identity">>}
  BY DEF AuthBegins, Open
<1>6. AwaitsHeld
  <2>1. \A s \in Streams, j \in Sockets, w \in {"identity", "server"} : <<j, s, w>> \in authing' => Holds(s, j)
    BY <1>5, AwaitHolds DEF Holds
  <2> QED BY <1>4, <2>1, AwaitHolds DEF AwaitsHeld, AwaitsHold, InCheck
<1>7. AnswersAs
  BY <1>5 DEF AnswersAs, TrustInv, WaitInv, Waiting
<1>new. Newcomers({}, 0)
  BY <1>3 DEF Newcomers
<1> QED BY <1>2, <1>4, <1>6, <1>7, <1>new, TrustKept

LEMMA SocketClosesTrust ==
  ASSUME HubTypeOK, HubTypeOK', ColdInv, TrustInv, NEW k \in Sockets, SocketCloses(k)
  PROVE  TrustInv'
<1>1. PICK g : /\ Found(g, {}) /\ DOMAIN hub'.sess = DOMAIN g.sess \ Emptied(g, k)
               /\ \A u \in DOMAIN hub'.sess :
                    /\ hub'.sess[u].user = g.sess[u].user \ {k}
                    /\ hub'.sess[u].checked = g.sess[u].checked /\ hub'.sess[u].revoked = g.sess[u].revoked
               /\ DOMAIN sock' = DOMAIN sock \ {k}
               /\ \A j \in DOMAIN sock \ {k} : sock'[j].of = sock[j].of /\ sock'[j].role = sock[j].role
  BY SocketClosesEffect
<1>2. (\A u \in Known' : KeptOrUnchecked(u)) /\ HeldBefore
  BY <1>1, FoundHolds DEF KeptOrUnchecked, Kept, Cold, HeldBefore, Known
<1>3. UNCHANGED <<now, lost, admin, gone, checking, auditing, authing>> /\ condemned' \subseteq condemned
  BY DEF SocketCloses, awaits
<1>new. Newcomers({}, 0)
  BY <1>1 DEF Newcomers
<1> QED BY <1>2, <1>3, <1>new, TrustQuiet

LEMMA AlarmTrust ==
  ASSUME HubTypeOK, HubTypeOK', ColdInv, TrustInv, Alarm
  PROVE  TrustInv'
<1>1. PICK g \in Hub : /\ Found(g, {}) /\ DOMAIN hub'.sess = DOMAIN g.sess \ Expired(g)
                       /\ \A u \in DOMAIN hub'.sess : hub'.sess[u] = g.sess[u]
                       /\ Closes(SweptSockets(g), {})
  BY AlarmEffect
<1>2. (\A u \in Known' : KeptOrUnchecked(u)) /\ HeldBefore
  BY <1>1, FoundHolds DEF KeptOrUnchecked, Kept, Cold, HeldBefore, Known
<1>3. UNCHANGED <<now, lost, admin, gone, checking, auditing, authing, condemned>>
  BY DEF Alarm, awaits
<1>new. Newcomers({}, 0)
  BY <1>1 DEF Newcomers, Closes
<1> QED BY <1>2, <1>3, <1>new, TrustQuiet

LEMMA EvictTrust ==
  ASSUME HubTypeOK, HubTypeOK', ColdInv, TrustInv, Evict
  PROVE  TrustInv'
<1>1. Known' = {}
  BY NothingKnown DEF Evict, Known
<1>2. authing' = {} /\ checking' = {} /\ auditing' = {} /\ UNCHANGED <<now, sock, lost, admin, gone, condemned>>
  BY DEF Evict
<1>3. \A s \in Streams, k \in Sockets : ~ InCheck(s, k)'
  BY <1>2 DEF InCheck
<1>4. Newcomers({}, 0) /\ HeldBefore /\ AwaitsHeld
  BY <1>1, <1>2, <1>3 DEF Newcomers, HeldBefore, AwaitsHeld
<1>5. OwnInv'
  BY <1>4, OwnKept DEF TrustInv
<1>6. SessInv' /\ CondInv' /\ OnceInv'
  BY <1>1, <1>2 DEF TrustInv, SessInv, CondInv, OnceInv, Allowed
<1>7. ReadInv' /\ WaitInv'
  BY <1>1, <1>2, <1>3 DEF ReadInv, WaitInv
<1> QED BY <1>5, <1>6, <1>7 DEF TrustInv

\* From now on the user has no authority; what was read of him is of this tick.
LEMMA RevokeTrust ==
  ASSUME HubTypeOK, HubTypeOK', ColdInv, TrustInv, Revoke
  PROVE  TrustInv'
<1>1. lost' = now /\ UNCHANGED <<now, hub, sock, authing, checking, auditing, admin, gone, condemned>>
  BY DEF Revoke, awaits
<1>2. \A s \in Streams, k \in Sockets : InCheck(s, k)' <=> InCheck(s, k)
  BY <1>1 DEF InCheck
<1>clear. \A s \in Streams, k \in Sockets : Clear(s, k) => Clear(s, k)'
  BY <1>1 DEF Clear, Known
<1>holds. \A s, k : Holds(s, k)' <=> Holds(s, k)
  BY <1>1 DEF Holds, Known
<1>own. OwnInv'
  BY <1>holds, Zenon DEF TrustInv, OwnInv
<1>wait. WaitInv'
  BY <1>1 DEF TrustInv, WaitInv, Waiting, InCheck, Known
<1>types. \A u \in Known : u \in Streams /\ hub.sess[u].user \subseteq Sockets
  BY SessTypes DEF Known, HubTypeOK
<1>cond. CondInv'
  BY <1>1 DEF TrustInv, CondInv, Allowed, OnceInv
<1>once. OnceInv'
  <2>1. \A u \in Known', k \in Sockets :
          InCheck(u, k)' /\ hub'.sess[u].user # {} /\ ~ hub'.sess[u].revoked => hub'.sess[u].checked = now'
    BY <1>1, <1>2, <1>types DEF TrustInv, OnceInv, Known
  <2> QED BY <1>1, <2>1 DEF TrustInv, OnceInv
<1>5. SessInv'
  BY <1>1, <1>2, <1>types DEF TrustInv, SessInv, Known, Trusted
<1>6. ReadInv'
  BY <1>1, <1>clear DEF TrustInv, ReadInv, Fresh, OnceInv
<1> QED BY <1>own, <1>wait, <1>cond, <1>once, <1>5, <1>6 DEF TrustInv

LEMMA TickTrust ==
  ASSUME HubTypeOK, HubTypeOK', ColdInv, TrustInv, Tick
  PROVE  TrustInv'
<1>1. /\ UNCHANGED <<hub, sock, authing, checking, auditing, lost, admin, gone, condemned>> /\ now' = now + 1
      /\ authing = {} /\ checking = {}
  BY DEF Tick, awaits
<1>2. now \in Nat /\ now <= now'
  BY <1>1, HubAssumption DEF HubTypeOK, Times
<1>3. \A s \in Streams, k \in Sockets : ~ InCheck(s, k)' /\ ~ InCheck(s, k)
  BY <1>1 DEF InCheck
<1>4. OwnInv' /\ WaitInv'
  <2>1. \A s, k : Holds(s, k)' <=> Holds(s, k)
    BY <1>1 DEF Holds, Known
  <2>2. OwnInv'
    BY <2>1, Zenon DEF TrustInv, OwnInv
  <2> QED BY <1>1, <1>3, <2>2 DEF TrustInv, Known, WaitInv, Waiting
<1>5. SessInv'
  <2>1. \A u \in Known' : KeptOrUnchecked(u)
    BY <1>1 DEF KeptOrUnchecked, Kept, Known
  <2> QED BY <1>1, <1>2, <1>3, <2>1, SessKept DEF TrustInv
<1>6. CondInv' /\ OnceInv' /\ ReadInv'
  <2>1. \A u \in Known' : u \in Streams
    BY SessTypes DEF Known, HubTypeOK
  <2> QED BY <1>1, <1>2, <1>3, <2>1 DEF TrustInv, CondInv, Allowed, OnceInv, ReadInv
<1> QED BY <1>4, <1>5, <1>6 DEF TrustInv

LEMMA StutterTrust == ASSUME TrustInv, UNCHANGED hubVars PROVE TrustInv'
<1>1. /\ UNCHANGED <<now, hub, sock, authing, checking, auditing, lost, admin, gone, condemned>>
  BY DEF hubVars, awaits
<1>holds. \A s, k : Holds(s, k)' <=> Holds(s, k)
  BY <1>1 DEF Holds, Known
<1>own. OwnInv'
  BY <1>holds, Zenon DEF TrustInv, OwnInv
<1>2. CondInv' /\ WaitInv'
  BY <1>1 DEF TrustInv, Known, CondInv, Allowed, WaitInv, Waiting, InCheck
<1>3. SessInv' /\ OnceInv'
  BY <1>1 DEF TrustInv, SessInv, Trusted, Known, OnceInv, InCheck
<1>4. ReadInv'
  BY <1>1 DEF TrustInv, ReadInv, Fresh, Clear, Known
<1> QED BY <1>own, <1>2, <1>3, <1>4 DEF TrustInv

\* A session is given to a user who was found with authority in this tick.
LEMMA AttachTrust ==
  ASSUME HubTypeOK, HubTypeOK', TrustInv, NEW s \in Streams, NEW k \in Sockets, NEW h \in Hub,
         \A u \in DOMAIN h.sess : (u \in Known /\ h.sess[u] = hub.sess[u]) \/ h.sess[u] = NewSess,
         Attach(h, s, k), lost = 0 \/ lost = now, k \notin condemned,
         NEW w \in {"identity", "server"}, <<k, s, w>> \in authing, authing' = authing \ {<<k, s, w>>},
         UNCHANGED <<now, lost, admin, gone, checking, auditing, condemned>>
  PROVE  TrustInv'
<1>1. /\ DOMAIN hub'.sess = DOMAIN h.sess
      /\ \A u \in DOMAIN h.sess \ {s} : hub'.sess[u] = h.sess[u]
      /\ s \in DOMAIN h.sess => hub'.sess[s].user = {k} /\ hub'.sess[s].checked = now
      /\ DOMAIN sock' = DOMAIN sock
      /\ \A j \in DOMAIN sock : /\ sock'[j].of = sock[j].of
                                /\ sock'[j].role = (IF j = k THEN "user" ELSE sock[j].role)
  BY AttachFacts
<1>checks. \A t \in Streams, j \in Sockets : InCheck(t, j)' <=> InCheck(t, j)
  BY DEF InCheck
<1>held. Holds(s, k)
  BY DEF Holds
<1>types. \A u \in Known' : u \in Streams
  BY SessTypes DEF HubTypeOK, Known
<1>others. \A u \in Known' \ {s} : Kept(u) \/ (hub'.sess[u].checked = 0 /\ hub'.sess[u].user = {})
  BY <1>1, NewSessFacts DEF Kept, Known
<1>own. OwnInv'
  <2>1. HeldBefore
    BY <1>1, <1>held, NewSessFacts DEF HeldBefore, Known, Holds
  <2>2. Newcomers({}, 0)
    BY <1>1 DEF Newcomers
  <2>3. AwaitsHeld
    BY <1>checks, AwaitHolds DEF AwaitsHeld, AwaitsHold
  <2> QED BY <2>1, <2>2, <2>3, OwnKept DEF TrustInv
<1>n. now \in Nat
  BY HubAssumption DEF HubTypeOK, Times
<1>sess. SessInv'
  <2> SUFFICES ASSUME NEW u \in Known'
               PROVE  /\ hub'.sess[u].checked <= now
                      /\ Trusted(hub'.sess[u]) =>
                           /\ \/ lost = 0 \/ hub'.sess[u].checked <= lost
                              \/ \A j \in hub'.sess[u].user : InCheck(u, j)'
                           /\ \A j \in hub'.sess[u].user \cap condemned : InCheck(u, j)'
    BY DEF SessInv
  <2>1. CASE u = s
    BY <1>1, <1>n, <2>1 DEF Known
  <2>2. CASE u # s /\ Kept(u)
    <3>1. u \in Known /\ u \in Streams /\ hub.sess[u].user \subseteq Sockets
      BY <2>2, SessTypes DEF Kept, Known, HubTypeOK
    <3> QED BY <1>checks, <2>2, <3>1 DEF TrustInv, SessInv, Kept, Trusted
  <2>3. CASE u # s /\ hub'.sess[u].checked = 0
    BY <1>n, <2>3 DEF Trusted
  <2> QED BY <1>others, <2>1, <2>2, <2>3
<1>cond. CondInv'
  BY DEF TrustInv, CondInv, Allowed
<1>once. OnceInv'
  <2>1. ASSUME NEW u \in Known', NEW j \in Sockets, InCheck(u, j)', hub'.sess[u].user # {}, ~ hub'.sess[u].revoked
        PROVE  hub'.sess[u].checked = now
    <3>1. CASE u = s
      BY <1>1, <3>1 DEF Known
    <3>2. CASE u # s
      BY <1>checks, <1>types, <1>others, <2>1, <3>2 DEF Kept, TrustInv, OnceInv
    <3> QED BY <3>1, <3>2
  <2> QED BY <2>1 DEF TrustInv, OnceInv
<1>answer. ReadInv'
  <2>1. ASSUME NEW t \in Streams, NEW j \in Sockets, Clear(t, j) PROVE Clear(t, j)'
    <3>1. ASSUME t \in Known' PROVE hub'.sess[t].user \cap condemned = {}
      <4>1. CASE t = s
        BY <1>1, <3>1, <4>1 DEF Known
      <4>2. CASE t # s
        BY <1>others, <2>1, <3>1, <4>2 DEF Kept, Clear
      <4> QED BY <4>1, <4>2
    <3> QED BY <2>1, <3>1 DEF Clear
  <2> QED BY <2>1 DEF TrustInv, ReadInv, Fresh
<1>wait. WaitInv'
  <2>1. ASSUME NEW j \in Sockets, Waiting(j)' PROVE j # k /\ Waiting(j)
    <3>1. CASE j \in DOMAIN sock' /\ sock'[j].role = "pending"
      BY <1>1, <3>1 DEF Waiting
    <3>2. ASSUME NEW x \in authing', x[1] = j PROVE j # k /\ Waiting(j)
      <4>1. x \in authing /\ x # <<k, s, w>>
        BY <3>2
      <4>2. x[1] # <<k, s, w>>[1]
        BY <4>1 DEF TrustInv, WaitInv
      <4> QED BY <3>2, <4>1, <4>2 DEF Waiting
    <3> QED BY <2>1, <3>1, <3>2 DEF Waiting
  <2>2. ASSUME NEW j \in Sockets, Waiting(j)', NEW t \in Streams
        PROVE  ~ InCheck(t, j)' /\ (t \in Known' => j \notin hub'.sess[t].user)
    <3>1. ~ InCheck(t, j) /\ (t \in Known => j \notin hub.sess[t].user)
      BY <2>1, <2>2 DEF TrustInv, WaitInv
    <3>2. CASE t = s
      BY <1>1, <1>checks, <2>1, <2>2, <3>1, <3>2 DEF Known
    <3>3. CASE t # s
      BY <1>checks, <1>others, <3>1, <3>3 DEF Kept
    <3> QED BY <3>2, <3>3
  <2>3. \A x, y \in authing' : x[1] = y[1] => x = y
    BY DEF TrustInv, WaitInv
  <2> QED BY <2>2, <2>3 DEF WaitInv
<1> QED BY <1>own, <1>sess, <1>cond, <1>once, <1>answer, <1>wait DEF TrustInv

LEMMA IdentifiedTrust ==
  ASSUME HubTypeOK, HubTypeOK', ColdInv, TrustInv, NEW s \in Streams, NEW k \in Sockets, AuthIdentified(s, k)
  PROVE  TrustInv'
<1>1. PICK h, N : /\ h \in Hub /\ h.rebuilt = hub.rebuilt
                  /\ DOMAIN h.sess = Known \cup N /\ N \subseteq {s} \cap (stored \ Known)
                  /\ \A u \in Known : h.sess[u] = hub.sess[u]
                  /\ \A u \in N : h.sess[u] = NewSess
                  /\ \/ /\ lost = 0 /\ admin /\ s \in DOMAIN h.sess
                        /\ Attach(h, s, k) /\ authing' = authing \ {<<k, s, "identity">>}
                     \/ /\ hub' = h /\ (\E K : sock' = Close(K)) /\ UNCHANGED stray
                        /\ AwaitsRow(s, k)
  BY IdentifiedEffect
<1>2. /\ UNCHANGED <<now, lost, admin, gone, checking, auditing, condemned>> /\ Holds(s, k)
      /\ <<k, s, "identity">> \in authing
  BY DEF AuthIdentified, Holds
<1>attach. CASE lost = 0 /\ admin /\ Attach(h, s, k) /\ authing' = authing \ {<<k, s, "identity">>}
  <2>1. condemned = {}
    BY <1>attach DEF TrustInv, CondInv, Allowed
  <2>2. \A u \in DOMAIN h.sess : (u \in Known /\ h.sess[u] = hub.sess[u]) \/ h.sess[u] = NewSess
    BY <1>1
  <2> QED BY <1>1, <1>2, <1>attach, <2>1, <2>2, AttachTrust
<1>closed. CASE hub' = h /\ (\E K : sock' = Close(K)) /\ AwaitsRow(s, k)
  <2>unchecked. (\A u \in Known' : KeptOrUnchecked(u)) /\ HeldBefore
    BY <1>1, <1>closed, NewSessFacts DEF KeptOrUnchecked, Kept, HeldBefore, Holds, Known
  <2>newcomers. Newcomers({}, 0)
    BY <1>closed, CloseFacts DEF Newcomers
  <2>held. AwaitsHeld
    <3>1. \A t \in Streams, j \in Sockets : InCheck(t, j)' => InCheck(t, j)
      BY <1>2 DEF InCheck
    <3>2. \A x \in authing' : x \in authing \/ x = <<k, s, "server">>
      BY <1>closed DEF AwaitsRow
    <3>3. \A t \in Streams, j \in Sockets, w \in {"identity", "server"} : <<j, t, w>> \in authing' => Holds(t, j)
      BY <1>2, <3>2, AwaitHolds DEF AwaitsHold
    <3> QED BY <1>2, <3>1, <3>3, AwaitHolds DEF AwaitsHeld, AwaitsHold
  <2>answers. AnswersAs
    <3>1. \A x, y \in authing' : x[1] = y[1] => x = y
      BY <1>2, <1>closed DEF TrustInv, WaitInv, AwaitsRow
    <3>2. \A x \in authing' : Waiting(x[1])
      BY <1>2, <1>closed DEF Waiting, AwaitsRow
    <3>3. ASSUME lost = 0, ~ admin PROVE Fresh /\ (gone \/ k \notin condemned)
      BY <3>3 DEF Fresh, TrustInv, CondInv, Allowed
    <3>4. ASSUME NEW t \in Streams, NEW j \in Sockets, <<j, t, "server">> \in authing'
          PROVE  <<j, t, "server">> \in authing \/ (Fresh /\ (gone \/ j \notin condemned))
      BY <1>closed, <3>3, <3>4 DEF AwaitsRow
    <3> QED BY <3>1, <3>2, <3>4 DEF AnswersAs
  <2> QED BY <1>2, <2>unchecked, <2>newcomers, <2>held, <2>answers, TrustKept
<1> QED BY <1>1, <1>attach, <1>closed

LEMMA AllowedTrust ==
  ASSUME HubTypeOK, HubTypeOK', ColdInv, TrustInv, NEW s \in Streams, NEW k \in Sockets, AuthAllowed(s, k)
  PROVE  TrustInv'
<1>1. /\ UNCHANGED <<now, lost, admin, gone, checking, auditing, condemned>>
      /\ <<k, s, "server">> \in authing /\ authing' = authing \ {<<k, s, "server">>} /\ hub \in Hub
  BY DEF AuthAllowed, HubTypeOK
<1>2. CASE gone
  <2>closes. sock' = Close({k}) /\ UNCHANGED hub
    BY <1>2 DEF AuthAllowed
  <2>unchecked. (\A u \in Known' : KeptOrUnchecked(u)) /\ HeldBefore
    BY <2>closes DEF KeptOrUnchecked, Kept, HeldBefore, Holds, Known
  <2>newcomers. Newcomers({}, 0)
    BY <2>closes, CloseFacts DEF Newcomers
  <2>held. AwaitsHeld
    BY <1>1, AwaitHolds DEF AwaitsHeld, AwaitsHold, InCheck
  <2>answers. AnswersAs
    BY <1>1 DEF AnswersAs, TrustInv, WaitInv, Waiting
  <2> QED BY <1>1, <2>unchecked, <2>newcomers, <2>held, <2>answers, TrustKept
<1>3. CASE ~ gone
  <2>1. Attach(hub, s, k)
    BY <1>3 DEF AuthAllowed
  <2>2. (lost = 0 \/ lost = now) /\ k \notin condemned
    BY <1>1, <1>3 DEF TrustInv, ReadInv, Fresh
  <2> QED BY <1>1, <2>1, <2>2, AttachTrust DEF Known
<1> QED BY <1>2, <1>3

\* Browsers that wait have no session that is found.
LEMMA FoundWaits ==
  ASSUME HubTypeOK, ColdInv, WaitInv, NEW g, NEW X, Found(g, X), NEW u \in DOMAIN g.sess, NEW j \in g.sess[u].user
  PROVE  ~ Waiting(j)
<1>1. u \in Streams /\ g.sess[u].user \subseteq Sockets
  BY SessTypes DEF Found
<1>2. CASE u \in Known /\ g.sess[u] = hub.sess[u]
  BY <1>1, <1>2 DEF WaitInv
<1>3. CASE ~ hub.rebuilt /\ j \in DOMAIN sock /\ sock[j].role = "user"
  BY <1>3 DEF ColdInv, Waiting
<1> QED BY <1>2, <1>3, FoundHolds

\* A check begins only of a session that has none.
LEMMA NoCheckBefore ==
  ASSUME HubTypeOK, ColdInv, TrustInv, NEW g, Found(g, {}), NEW s \in DOMAIN g.sess,
         ~ Passable(g.sess[s]), ~ g.sess[s].revoked, g.sess[s].user # {}, NEW k \in Sockets
  PROVE  ~ InCheck(s, k)
<1> SUFFICES ASSUME InCheck(s, k) PROVE FALSE
  OBVIOUS
<1>1. hub.rebuilt
  BY DEF InCheck, ColdInv
<1>2. s \in Known /\ g.sess[s] = hub.sess[s]
  BY <1>1 DEF Found
<1>3. hub.sess[s].checked = now /\ now # 0
  BY <1>2 DEF TrustInv, OnceInv
<1>4. now \in Nat /\ CheckEvery \in Nat \ {0}
  BY HubAssumption DEF HubTypeOK, Times
<1> QED BY <1>2, <1>3, <1>4 DEF Passable

LEMMA FrameTrust ==
  ASSUME HubTypeOK, HubTypeOK', ColdInv, TrustInv, NEW s \in Streams, NEW k \in Sockets, Frame(s, k)
  PROVE  TrustInv'
<1>1. PICK g : /\ Found(g, {}) /\ s \in DOMAIN g.sess
               /\ \/ /\ hub' = g /\ UNCHANGED checking
                     /\ auditing' \subseteq auditing \cup ({s} \X g.sess[s].user)
                  \/ /\ ~ Passable(g.sess[s]) /\ UNCHANGED auditing
                     /\ DOMAIN hub'.sess = DOMAIN g.sess
                     /\ \A u \in DOMAIN g.sess \ {s} : hub'.sess[u] = g.sess[u]
                     /\ hub'.sess[s].user = g.sess[s].user
                     /\ hub'.sess[s].revoked = g.sess[s].revoked
                     /\ hub'.sess[s].checked = (IF g.sess[s].revoked THEN g.sess[s].checked ELSE now)
                     /\ checking' = checking \cup ToCheck(g.sess[s], s)
  BY FrameEffect
<1>2. UNCHANGED <<now, sock, authing, admin, lost, gone, condemned>>
  BY DEF Frame
<1>user. /\ g.sess[s].user \subseteq Sockets /\ \A j \in g.sess[s].user : Holds(s, j) /\ g.sess[s].user = {j}
         /\ g.sess[s].revoked \in BOOLEAN
  <2>1. g.sess[s].user \in Singly(Sockets)
    BY <1>1, SessTypes DEF Found, Sess
  <2>2. g.sess[s].user \subseteq Sockets /\ g.sess[s].revoked \in BOOLEAN
    BY <1>1, SessTypes DEF Found
  <2>3. \A j \in g.sess[s].user : Holds(s, j)
    BY <1>1, FoundHolds
  <2> QED BY <2>1, <2>2, <2>3, SinglyFacts
<1>before. \A u \in DOMAIN g.sess :
             \/ u \in Known /\ g.sess[u] = hub.sess[u]
             \/ /\ g.sess[u].checked = 0 /\ ~ hub.rebuilt
                /\ \A j \in g.sess[u].user : j \in DOMAIN sock /\ sock[j].role = "user"
  BY <1>1, FoundHolds
<1>held. HeldBefore
  BY <1>1, FoundHolds DEF HeldBefore, Known
<1>new. Newcomers({}, 0)
  BY <1>2 DEF Newcomers
<1>answers. AnswersAs
  BY <1>2 DEF AnswersAs, TrustInv, WaitInv, Waiting
<1>quiet. ASSUME UNCHANGED checking, auditing' \subseteq auditing \cup ({s} \X g.sess[s].user),
                 \A u \in Known' : KeptOrUnchecked(u)
          PROVE  TrustInv'
  <2>1. AwaitsHeld
    BY <1>2, <1>user, <1>quiet, AwaitHolds DEF AwaitsHeld, AwaitsHold, InCheck
  <2> QED BY <1>2, <1>held, <1>new, <1>answers, <1>quiet, <2>1, TrustKept
<1>passes. CASE hub' = g /\ UNCHANGED checking /\ auditing' \subseteq auditing \cup ({s} \X g.sess[s].user)
  <2>1. \A u \in Known' : KeptOrUnchecked(u)
    BY <1>before, <1>passes DEF KeptOrUnchecked, Kept, Cold, Known
  <2> QED BY <1>quiet, <1>passes, <2>1
<1>revoked. CASE /\ g.sess[s].revoked /\ UNCHANGED <<checking, auditing>>
                 /\ DOMAIN hub'.sess = DOMAIN g.sess
                 /\ \A u \in DOMAIN g.sess \ {s} : hub'.sess[u] = g.sess[u]
                 /\ hub'.sess[s].user = g.sess[s].user /\ hub'.sess[s].revoked = g.sess[s].revoked
                 /\ hub'.sess[s].checked = g.sess[s].checked
  <2>1. ASSUME NEW u \in Known' PROVE KeptOrUnchecked(u)
    <3>1. /\ u \in DOMAIN g.sess /\ hub'.sess[u].user = g.sess[u].user
          /\ hub'.sess[u].checked = g.sess[u].checked /\ hub'.sess[u].revoked = g.sess[u].revoked
      BY <1>revoked DEF Known
    <3>2. CASE u \in Known /\ g.sess[u] = hub.sess[u]
      BY <3>1, <3>2 DEF KeptOrUnchecked, Kept
    <3>3. CASE /\ g.sess[u].checked = 0 /\ ~ hub.rebuilt
               /\ \A j \in g.sess[u].user : j \in DOMAIN sock /\ sock[j].role = "user"
      BY <3>1, <3>3 DEF KeptOrUnchecked, Cold
    <3> QED BY <1>before, <3>1, <3>2, <3>3
  <2> QED BY <1>quiet, <1>revoked, <2>1
<1>begins. CASE /\ ~ Passable(g.sess[s]) /\ ~ g.sess[s].revoked /\ UNCHANGED auditing
                /\ DOMAIN hub'.sess = DOMAIN g.sess
                /\ \A u \in DOMAIN g.sess \ {s} : hub'.sess[u] = g.sess[u]
                /\ hub'.sess[s].user = g.sess[s].user
                /\ hub'.sess[s].checked = now
                /\ checking' = checking \cup ({s} \X g.sess[s].user \X {"identity"})
  <2>checks. ASSUME NEW t \in Streams, NEW j \in Sockets
             PROVE  InCheck(t, j)' <=> InCheck(t, j) \/ (t = s /\ j \in g.sess[s].user)
    BY <1>begins DEF InCheck, Phases
  <2>held. AwaitsHeld
    <3>1. \A t \in Streams, j \in Sockets : InCheck(t, j)' => Holds(t, j)
      BY <1>user, <2>checks, AwaitHolds DEF AwaitsHold
    <3>2. UNCHANGED <<auditing, authing>>
      BY <1>2, <1>begins
    <3> QED BY <3>1, <3>2, AwaitHolds DEF AwaitsHeld, AwaitsHold
  <2>own. OwnInv'
    BY <1>held, <1>new, <2>held, OwnKept DEF TrustInv
  <2>n. now \in Nat
    BY HubAssumption DEF HubTypeOK, Times
  <2>types. \A u \in Known' : u \in Streams /\ u \in DOMAIN g.sess /\ hub'.sess[u].user \subseteq Sockets
    BY <1>begins, SessTypes DEF Known, HubTypeOK
  <2>sess. SessInv'
    <3> SUFFICES ASSUME NEW u \in Known'
                 PROVE  /\ hub'.sess[u].checked <= now
                        /\ Trusted(hub'.sess[u]) =>
                             /\ \/ lost = 0 \/ hub'.sess[u].checked <= lost
                                \/ \A j \in hub'.sess[u].user : InCheck(u, j)'
                             /\ \A j \in hub'.sess[u].user \cap condemned : InCheck(u, j)'
      BY <1>2 DEF SessInv
    <3>1. CASE u = s
      BY <1>begins, <1>user, <2>checks, <2>n, <3>1
    <3>2. CASE u # s /\ u \in Known /\ g.sess[u] = hub.sess[u]
      <4>1. hub'.sess[u] = hub.sess[u] /\ u \in Streams /\ hub'.sess[u].user \subseteq Sockets
        BY <1>begins, <2>types, <3>2
      <4> QED BY <2>checks, <3>2, <4>1 DEF TrustInv, SessInv, Trusted
    <3>3. CASE u # s /\ g.sess[u].checked = 0
      <4>1. hub'.sess[u] = g.sess[u]
        BY <1>begins, <2>types, <3>3
      <4> QED BY <2>n, <3>3, <4>1 DEF Trusted
    <3> QED BY <1>before, <2>types, <3>1, <3>2, <3>3
  <2>cond. CondInv'
    BY <1>2 DEF TrustInv, CondInv, Allowed
  <2>first. \A j \in Sockets : g.sess[s].user # {} => ~ InCheck(s, j)
    BY <1>1, <1>begins, NoCheckBefore
  <2>once. OnceInv'
    <3>1. ASSUME NEW t \in Streams, NEW i \in Sockets, NEW j \in Sockets, NEW v \in Phases, NEW w \in Phases,
                 <<t, i, v>> \in checking', <<t, j, w>> \in checking'
          PROVE  i = j /\ v = w
      <4>1. CASE <<t, i, v>> \in checking /\ <<t, j, w>> \in checking
        BY <4>1 DEF TrustInv, OnceInv
      <4>2. CASE t = s /\ g.sess[s].user # {}
        <5>1. ~ InCheck(s, i) /\ ~ InCheck(s, j)
          BY <2>first, <4>2
        <5>2. <<t, i, v>> \notin checking /\ <<t, j, w>> \notin checking
          BY <4>2, <5>1 DEF InCheck
        <5> QED BY <1>begins, <1>user, <3>1, <5>2
      <4> QED BY <1>begins, <3>1, <4>1, <4>2
    <3>2. ASSUME NEW u \in Known', NEW j \in Sockets, InCheck(u, j)', hub'.sess[u].user # {}, ~ hub'.sess[u].revoked
          PROVE  hub'.sess[u].checked = now
      <4>1. CASE u = s
        BY <1>begins, <4>1
      <4>2. CASE u # s
        <5>1. InCheck(u, j) /\ hub'.sess[u] = g.sess[u]
          BY <1>begins, <2>checks, <2>types, <3>2, <4>2
        <5>2. hub.rebuilt
          BY <5>1 DEF InCheck, ColdInv
        <5>3. u \in Known /\ g.sess[u] = hub.sess[u]
          BY <1>before, <2>types, <5>2
        <5> QED BY <3>2, <5>1, <5>3 DEF TrustInv, OnceInv
      <4> QED BY <4>1, <4>2
    <3> QED BY <1>2, <3>1, <3>2 DEF TrustInv, OnceInv
  <2>answer. ReadInv'
    <3>1. ASSUME NEW t \in Streams, NEW j \in Sockets, <<t, j, "granted">> \in checking, Clear(t, j) PROVE Clear(t, j)'
      <4>1. hub.rebuilt
        BY <3>1 DEF ColdInv
      <4>2. t \in Known' => t \in Known /\ hub'.sess[t].user = hub.sess[t].user
        BY <1>before, <1>begins, <2>types, <4>1
      <4> QED BY <1>2, <3>1, <4>2 DEF Clear
    <3>2. \A t \in Streams, j \in Sockets, v \in {"granted", "refused"} : <<t, j, v>> \in checking' => <<t, j, v>> \in checking
      BY <1>begins
    <3> QED BY <1>2, <3>1, <3>2 DEF TrustInv, ReadInv, Fresh
  <2>wait. WaitInv'
    <3>1. \A x, y \in authing' : x[1] = y[1] => x = y
      BY <1>2 DEF TrustInv, WaitInv
    <3>2. ASSUME NEW j \in Sockets, Waiting(j)', NEW t \in Streams
          PROVE  ~ InCheck(t, j)' /\ (t \in Known' => j \notin hub'.sess[t].user)
      <4>1. Waiting(j)
        BY <1>2, <3>2 DEF Waiting
      <4>2. \A u \in DOMAIN g.sess : j \notin g.sess[u].user
        BY <1>1, <4>1, FoundWaits DEF TrustInv
      <4>3. ~ InCheck(t, j)
        BY <4>1 DEF TrustInv, WaitInv
      <4>4. t \in Known' => hub'.sess[t].user = g.sess[t].user /\ t \in DOMAIN g.sess
        BY <1>begins, <2>types
      <4> QED BY <1>1, <2>checks, <4>2, <4>3, <4>4
    <3> QED BY <3>1, <3>2 DEF WaitInv
  <2> QED BY <2>own, <2>sess, <2>cond, <2>once, <2>answer, <2>wait DEF TrustInv
<1> QED BY <1>1, <1>user, <1>passes, <1>revoked, <1>begins DEF ToCheck

LEMMA AuditedTrust ==
  ASSUME HubTypeOK, HubTypeOK', ColdInv, TrustInv, NEW s \in Streams, NEW k \in Sockets, Audited(s, k)
  PROVE  TrustInv'
<1>1. UNCHANGED <<now, hub, sock, authing, checking, lost, admin, gone, condemned>> /\ auditing' \subseteq auditing
  BY DEF Audited
<1>2. (\A u \in Known' : KeptOrUnchecked(u)) /\ HeldBefore
  BY <1>1 DEF KeptOrUnchecked, Kept, HeldBefore, Holds, Known
<1>3. Newcomers({}, 0)
  BY <1>1 DEF Newcomers
<1>4. AwaitsHeld
  BY <1>1, AwaitHolds DEF AwaitsHeld, AwaitsHold, InCheck
<1>5. AnswersAs
  BY <1>1 DEF AnswersAs, TrustInv, WaitInv, Waiting
<1> QED BY <1>1, <1>2, <1>3, <1>4, <1>5, TrustKept

\* A check that its user passes.
LEMMA GoesOnTrust ==
  ASSUME HubTypeOK, HubTypeOK', ColdInv, TrustInv, NEW s \in Streams, NEW k \in Sockets, NEW w \in Phases,
         UNCHANGED <<now, hub, sock, authing, admin, lost, gone, condemned>>,
         <<s, k, w>> \in checking, checking' = checking \ {<<s, k, w>>},
         auditing' \subseteq auditing \cup {<<s, k>>},
         lost = 0 \/ lost = now, s \in Known => hub.sess[s].user \cap condemned = {}
  PROVE  TrustInv'
<1>less. \A t \in Streams, j \in Sockets : InCheck(t, j)' => InCheck(t, j)
  BY DEF InCheck
<1>others. \A t \in Streams, j \in Sockets : t # s => (InCheck(t, j)' <=> InCheck(t, j))
  BY DEF InCheck
<1>own. OwnInv'
  <2>1. HeldBefore
    BY DEF HeldBefore, Holds, Known
  <2>2. Newcomers({}, 0)
    BY DEF Newcomers
  <2>3. Holds(s, k)
    BY DEF Holds
  <2>4. AwaitsHeld
    BY <1>less, <2>3, AwaitHolds DEF AwaitsHeld, AwaitsHold
  <2> QED BY <2>1, <2>2, <2>4, OwnKept DEF TrustInv
<1>sess. SessInv'
  <2> SUFFICES ASSUME NEW u \in Known
               PROVE  /\ hub.sess[u].checked <= now
                      /\ Trusted(hub.sess[u]) =>
                           /\ lost = 0 \/ hub.sess[u].checked <= lost \/ \A j \in hub.sess[u].user : InCheck(u, j)'
                           /\ \A j \in hub.sess[u].user \cap condemned : InCheck(u, j)'
    BY DEF SessInv, Known
  <2>1. u \in Streams /\ hub.sess[u].user \subseteq Sockets
    BY SessTypes DEF HubTypeOK, Known
  <2>2. CASE u = s
    BY <2>2 DEF TrustInv, SessInv
  <2>3. CASE u # s
    BY <1>others, <2>1, <2>3 DEF TrustInv, SessInv
  <2> QED BY <2>2, <2>3
<1>cond. CondInv'
  BY DEF TrustInv, CondInv, Allowed
<1>once. OnceInv'
  BY <1>less, SessTypes DEF TrustInv, OnceInv, Known, HubTypeOK
<1>answer. ReadInv'
  BY DEF TrustInv, ReadInv, Fresh, Clear, Known
<1>wait. WaitInv'
  BY <1>less DEF TrustInv, WaitInv, Waiting, Known
<1> QED BY <1>own, <1>sess, <1>cond, <1>once, <1>answer, <1>wait DEF TrustInv

\* A check that finds no authority: no other of the session is under way, and the
\* browser is that of no other session.
LEMMA CondemnsTrust ==
  ASSUME HubTypeOK, HubTypeOK', ColdInv, TrustInv, NEW s \in Streams, NEW k \in Sockets, NEW w \in Phases,
         UNCHANGED <<now, authing, admin, lost, gone>>, ~ Allowed, Condemns(s, k),
         <<s, k, w>> \in checking, checking' = checking \ {<<s, k, w>>}
  PROVE  TrustInv'
<1>1. condemned' = condemned \cup {k} /\ UNCHANGED auditing /\ Holds(s, k) /\ InCheck(s, k)
  BY DEF Condemns, Holds, InCheck
<1>hub. /\ Known' = Known
        /\ \A u \in Known \ {s} : hub'.sess[u] = hub.sess[u]
        /\ \A u \in Known : hub'.sess[u].user = hub.sess[u].user /\ hub'.sess[u].checked = hub.sess[u].checked
        /\ s \in Known => hub'.sess[s].revoked
  <2>1. hub' = IF s \in Known THEN [hub EXCEPT !.sess[s].revoked = TRUE] ELSE hub
    BY DEF Condemns
  <2>2. /\ DOMAIN hub'.sess = Known
        /\ \A u \in Known \ {s} : hub'.sess[u] = hub.sess[u]
        /\ s \in Known => /\ hub'.sess[s].user = hub.sess[s].user /\ hub'.sess[s].revoked
                          /\ hub'.sess[s].checked = hub.sess[s].checked
    BY <2>1, RevokesEffect
  <2> QED BY <2>2 DEF Known
<1>sock. /\ DOMAIN sock' = DOMAIN sock
         /\ \A j \in DOMAIN sock : sock'[j].of = sock[j].of /\ sock'[j].role = sock[j].role
  BY CloseFacts DEF Condemns
<1>less. \A t \in Streams, j \in Sockets : InCheck(t, j)' => InCheck(t, j)
  BY DEF InCheck
<1>others. \A t \in Streams, j \in Sockets : t # s => (InCheck(t, j)' <=> InCheck(t, j))
  BY DEF InCheck
<1>types. \A u \in Known : u \in Streams /\ hub.sess[u].user \subseteq Sockets
  BY SessTypes DEF HubTypeOK, Known
<1>apart. \A t \in Streams : t # s => ~ Holds(t, k) /\ (t \in Known => k \notin hub.sess[t].user)
  BY <1>1 DEF TrustInv, OwnInv, Holds
<1>own. OwnInv'
  <2>1. HeldBefore
    BY <1>hub DEF HeldBefore, Holds
  <2>2. Newcomers({}, 0)
    BY <1>sock DEF Newcomers
  <2>3. AwaitsHeld
    BY <1>1, <1>less, AwaitHolds DEF AwaitsHeld, AwaitsHold
  <2> QED BY <2>1, <2>2, <2>3, OwnKept DEF TrustInv
<1>sess. SessInv'
  <2> SUFFICES ASSUME NEW u \in Known
               PROVE  /\ hub'.sess[u].checked <= now
                      /\ Trusted(hub'.sess[u]) =>
                           /\ lost = 0 \/ hub'.sess[u].checked <= lost \/ \A j \in hub'.sess[u].user : InCheck(u, j)'
                           /\ \A j \in hub'.sess[u].user \cap condemned' : InCheck(u, j)'
    BY <1>hub DEF SessInv
  <2>1. CASE u = s
    BY <1>hub, <2>1 DEF Trusted, TrustInv, SessInv
  <2>2. CASE u # s
    <3>1. hub'.sess[u] = hub.sess[u] /\ k \notin hub.sess[u].user
      BY <1>hub, <1>types, <1>apart, <2>2
    <3> QED BY <1>1, <1>others, <1>types, <2>2, <3>1 DEF TrustInv, SessInv
  <2> QED BY <2>1, <2>2
<1>cond. CondInv'
  BY DEF CondInv, Allowed
<1>once. OnceInv'
  <2>1. \A u \in Known', j \in Sockets :
          InCheck(u, j)' /\ hub'.sess[u].user # {} /\ ~ hub'.sess[u].revoked => hub'.sess[u].checked = now
    BY <1>hub, <1>less, <1>types DEF TrustInv, OnceInv
  <2> QED BY <2>1 DEF TrustInv, OnceInv
<1>answer. ReadInv'
  <2>1. ASSUME NEW t \in Streams, NEW j \in Sockets, <<t, j, "granted">> \in checking'
        PROVE  Fresh /\ (gone \/ Clear(t, j)')
    <3>1. <<t, j, "granted">> \in checking /\ InCheck(t, j)
      BY <2>1 DEF InCheck, Phases
    <3>2. t # s
      BY <2>1, <3>1 DEF TrustInv, OnceInv, Phases
    <3>3. j # k
      BY <1>apart, <3>1, <3>2, AwaitHolds DEF AwaitsHold
    <3>4. Fresh /\ (gone \/ Clear(t, j))
      BY <3>1 DEF TrustInv, ReadInv
    <3>5. Clear(t, j) => Clear(t, j)'
      BY <1>1, <1>hub, <1>apart, <3>2, <3>3 DEF Clear
    <3> QED BY <3>4, <3>5
  <2>2. ASSUME NEW t \in Streams, NEW j \in Sockets, <<j, t, "server">> \in authing'
        PROVE  Fresh /\ (gone \/ j \notin condemned')
    <3>1. Waiting(j) /\ Fresh /\ (gone \/ j \notin condemned)
      BY <2>2 DEF Waiting, TrustInv, ReadInv
    <3>2. j # k
      BY <1>1, <3>1 DEF TrustInv, WaitInv
    <3> QED BY <1>1, <3>1, <3>2
  <2>3. \A t \in Streams, j \in Sockets : <<t, j, "refused">> \in checking' => lost # 0
    BY DEF TrustInv, ReadInv
  <2> QED BY <2>1, <2>2, <2>3 DEF ReadInv, Fresh
<1>wait. WaitInv'
  <2>1. \A j \in Sockets : Waiting(j)' => Waiting(j)
    BY <1>sock DEF Waiting
  <2>2. \A x, y \in authing' : x[1] = y[1] => x = y
    BY DEF TrustInv, WaitInv
  <2>3. ASSUME NEW j \in Sockets, Waiting(j), NEW t \in Streams
        PROVE  ~ InCheck(t, j)' /\ (t \in Known' => j \notin hub'.sess[t].user)
    BY <1>hub, <1>less, <2>3 DEF TrustInv, WaitInv
  <2> QED BY <2>1, <2>2, <2>3 DEF WaitInv
<1> QED BY <1>own, <1>sess, <1>cond, <1>once, <1>answer, <1>wait DEF TrustInv

\* A check that has the identity, and awaits the row of the server.
LEMMA AwaitsTrust ==
  ASSUME HubTypeOK, HubTypeOK', ColdInv, TrustInv, NEW s \in Streams, NEW k \in Sockets, NEW a \in {"granted", "refused"},
         UNCHANGED <<now, hub, sock, authing, auditing, admin, lost, gone, condemned>>,
         <<s, k, "identity">> \in checking, ~ (lost = 0 /\ admin), a = "granted" <=> lost = 0,
         checking' = (checking \ {<<s, k, "identity">>}) \cup {<<s, k, a>>}
  PROVE  TrustInv'
<1>same. \A t \in Streams, j \in Sockets : InCheck(t, j)' <=> InCheck(t, j)
  BY DEF InCheck, Phases
<1>kept. (\A u \in Known' : KeptOrUnchecked(u)) /\ HeldBefore
  BY DEF KeptOrUnchecked, Kept, HeldBefore, Holds, Known
<1>own. OwnInv'
  <2>1. Newcomers({}, 0)
    BY DEF Newcomers
  <2>2. AwaitsHeld
    BY <1>same, AwaitHolds DEF AwaitsHeld, AwaitsHold
  <2> QED BY <1>kept, <2>1, <2>2, OwnKept DEF TrustInv
<1>sess. SessInv'
  <2>1. now <= now'
    BY HubAssumption DEF HubTypeOK, Times
  <2> QED BY <1>same, <1>kept, <2>1, SessKept DEF TrustInv
<1>cond. CondInv'
  BY DEF TrustInv, CondInv, Allowed
<1>once. OnceInv'
  <2>1. ASSUME NEW t \in Streams, NEW i \in Sockets, NEW j \in Sockets, NEW v \in Phases, NEW w \in Phases,
               <<t, i, v>> \in checking', <<t, j, w>> \in checking'
        PROVE  i = j /\ v = w
    <3>1. CASE t # s
      BY <2>1, <3>1 DEF TrustInv, OnceInv
    <3>2. CASE t = s
      <4>1. \A x \in Sockets, y \in Phases : <<s, x, y>> \in checking => x = k /\ y = "identity"
        BY DEF TrustInv, OnceInv, Phases
      <4> QED BY <2>1, <3>2, <4>1
    <3> QED BY <3>1, <3>2
  <2>2. \A u \in Known, j \in Sockets :
          InCheck(u, j)' /\ hub.sess[u].user # {} /\ ~ hub.sess[u].revoked => hub.sess[u].checked = now
    BY <1>same, SessTypes DEF TrustInv, OnceInv, Known, HubTypeOK
  <2> QED BY <2>1, <2>2 DEF TrustInv, OnceInv, Known
<1>answer. ReadInv'
  <2>1. ASSUME lost = 0 PROVE Fresh /\ (gone \/ Clear(s, k))
    BY <2>1 DEF Fresh, Clear, TrustInv, CondInv, Allowed
  <2>2. ASSUME NEW t \in Streams, NEW j \in Sockets, <<t, j, "granted">> \in checking'
        PROVE  Fresh /\ (gone \/ Clear(t, j))
    <3>1. CASE <<t, j, "granted">> \in checking
      BY <3>1 DEF TrustInv, ReadInv
    <3>2. CASE <<t, j, "granted">> = <<s, k, a>>
      BY <2>1, <3>2
    <3> QED BY <2>2, <3>1, <3>2
  <2>3. ASSUME NEW t \in Streams, NEW j \in Sockets, <<t, j, "refused">> \in checking' PROVE lost # 0
    BY <2>3 DEF TrustInv, ReadInv
  <2>4. \A t \in Streams, j \in Sockets : <<j, t, "server">> \in authing => Fresh /\ (gone \/ j \notin condemned)
    BY DEF TrustInv, ReadInv
  <2> QED BY <2>2, <2>3, <2>4 DEF ReadInv, Fresh, Clear, Known
<1>wait. WaitInv'
  BY <1>same DEF TrustInv, WaitInv, Waiting, Known
<1> QED BY <1>own, <1>sess, <1>cond, <1>once, <1>answer, <1>wait DEF TrustInv

\* A check that ends without an answer leaves the session trusted: the reads of D1
\* do not fail here.
LEMMA CheckTrust ==
  ASSUME HubTypeOK, HubTypeOK', ColdInv, TrustInv, "d1" \notin Faults,
         NEW s \in Streams, NEW k \in Sockets, CheckIdentity(s, k) \/ CheckServer(s, k)
  PROVE  TrustInv'
<1>rest. UNCHANGED <<now, authing, admin, lost, gone>>
  BY DEF CheckIdentity, CheckServer
<1>cases. \/ \E w \in Phases :
               /\ <<s, k, w>> \in checking /\ checking' = checking \ {<<s, k, w>>}
               /\ \/ GoesOn(s, k) /\ (w = "identity" => lost = 0 /\ admin) /\ (w = "granted" => ~ gone)
                     /\ w # "refused"
                  \/ Condemns(s, k) /\ (w = "identity" => lost > 0) /\ (w = "granted" => gone)
          \/ /\ <<s, k, "identity">> \in checking /\ ~ (lost = 0 /\ admin)
             /\ checking' = (checking \ {<<s, k, "identity">>}) \cup {<<s, k, IF lost = 0 THEN "granted" ELSE "refused">>}
             /\ UNCHANGED <<hub, sock, condemned, auditing>>
  BY DEF CheckIdentity, CheckServer, CheckFails, Phases
<1>ends. ASSUME NEW w \in Phases, <<s, k, w>> \in checking, checking' = checking \ {<<s, k, w>>}
         PROVE  /\ /\ GoesOn(s, k) /\ (w = "identity" => lost = 0 /\ admin) /\ (w = "granted" => ~ gone)
                   /\ w # "refused"
                   => TrustInv'
                /\ Condemns(s, k) /\ (w = "identity" => lost > 0) /\ (w = "granted" => gone) => TrustInv'
  <2>1. ASSUME GoesOn(s, k), w = "identity" => lost = 0 /\ admin, w = "granted" => ~ gone, w # "refused"
        PROVE  TrustInv'
    <3>1. UNCHANGED <<hub, sock, condemned>> /\ auditing' \subseteq auditing \cup {<<s, k>>}
      BY <2>1 DEF GoesOn, Audits
    <3>2. (lost = 0 \/ lost = now) /\ (s \in Known => hub.sess[s].user \cap condemned = {})
      <4>1. CASE w = "identity"
        BY <2>1, <4>1 DEF TrustInv, CondInv, Allowed
      <4>2. CASE w = "granted"
        BY <1>ends, <2>1, <4>2 DEF TrustInv, ReadInv, Fresh, Clear
      <4> QED BY <2>1, <4>1, <4>2 DEF Phases
    <3> QED BY <1>rest, <1>ends, <3>1, <3>2, GoesOnTrust
  <2>2. ASSUME Condemns(s, k), w = "identity" => lost > 0, w = "granted" => gone PROVE TrustInv'
    <3>1. ~ Allowed
      <4>1. CASE w = "identity"
        BY <2>2, <4>1, HubAssumption DEF Allowed, HubTypeOK, Times
      <4>2. CASE w # "identity"
        BY <1>ends, <2>2, <4>2 DEF Allowed, TrustInv, ReadInv, Fresh, Phases
      <4> QED BY <4>1, <4>2
    <3> QED BY <1>rest, <1>ends, <2>2, <3>1, CondemnsTrust
  <2> QED BY <2>1, <2>2
<1>awaits. ASSUME <<s, k, "identity">> \in checking, ~ (lost = 0 /\ admin),
                  checking' = (checking \ {<<s, k, "identity">>}) \cup {<<s, k, IF lost = 0 THEN "granted" ELSE "refused">>},
                  UNCHANGED <<hub, sock, condemned, auditing>>
           PROVE  TrustInv'
  <2>1. CASE lost = 0
    BY <1>rest, <1>awaits, <2>1, AwaitsTrust
  <2>2. CASE lost # 0
    BY <1>rest, <1>awaits, <2>2, AwaitsTrust
  <2> QED BY <2>1, <2>2
<1> QED BY <1>cases, <1>ends, <1>awaits

LEMMA TrustStep ==
  ASSUME "d1" \notin Faults
  PROVE  HubTypeOK /\ ColdInv /\ TrustInv /\ [HubNext]_hubVars => TrustInv'
<1> SUFFICES ASSUME HubTypeOK, ColdInv, TrustInv, [HubNext]_hubVars PROVE TrustInv'
  OBVIOUS
<1>t. HubTypeOK'
  BY HubTypesStep
<1>stream. ASSUME NEW s \in Streams, Create(s) \/ AgentAsks(s) PROVE TrustInv'
  BY <1>stream, <1>t, CreateTrust, AsksTrust
<1>both. ASSUME NEW s \in Streams, NEW k \in Sockets,
                \/ ConnectUser(s, k) \/ AuthIdentified(s, k) \/ AuthAllowed(s, k)
                \/ AgentAttaches(s, k) \/ Frame(s, k) \/ Audited(s, k)
                \/ CheckIdentity(s, k) \/ CheckServer(s, k)
         PROVE  TrustInv'
  BY <1>both, <1>t, ConnectTrust, IdentifiedTrust, AllowedTrust, AgentTrust, FrameTrust, AuditedTrust, CheckTrust
<1>socket. ASSUME NEW k \in Sockets, AuthBegins(k) \/ SocketCloses(k) PROVE TrustInv'
  BY <1>socket, <1>t, BeginsTrust, SocketClosesTrust
<1>whole. CASE DropAgentSessions \/ DropServer \/ Alarm \/ Evict \/ Revoke \/ Tick
  BY <1>whole, <1>t, DropAgentTrust, DropServerTrust, AlarmTrust, EvictTrust, RevokeTrust, TickTrust
<1>stutter. CASE UNCHANGED hubVars
  BY <1>stutter, StutterTrust
<1> QED BY <1>stream, <1>both, <1>socket, <1>whole, <1>stutter DEF HubNext

\* A frame is admitted when it comes, or when it has been checked.
LEMMA Silent ==
  ASSUME HubTypeOK, HubNext, NEW k \in Sockets, Admitted(k)
  PROVE  \E s \in Streams, j \in Sockets : Frame(s, j) \/ CheckIdentity(s, j) \/ CheckServer(s, j)
<1>unheard. through' # {} \/ auditing' # auditing
  BY DEF Admitted
<1>gained. auditing \subseteq auditing'
  BY DEF Admitted
<1>1. ASSUME NEW s \in Streams, Create(s) \/ AgentAsks(s) PROVE FALSE
  BY <1>unheard, <1>1 DEF Create, AgentAsks, awaits
<1>2. ASSUME NEW s \in Streams, NEW j \in Sockets,
             ConnectUser(s, j) \/ AuthIdentified(s, j) \/ AuthAllowed(s, j) \/ AgentAttaches(s, j)
      PROVE  FALSE
  BY <1>unheard, <1>2 DEF ConnectUser, AuthIdentified, AuthAllowed, AgentAttaches, awaits
<1>3. ASSUME NEW j \in Sockets, AuthBegins(j) \/ SocketCloses(j) PROVE FALSE
  BY <1>unheard, <1>3 DEF AuthBegins, SocketCloses, awaits
<1>4. CASE DropAgentSessions \/ DropServer \/ Alarm \/ Revoke \/ Tick
  BY <1>unheard, <1>4 DEF DropAgentSessions, DropServer, Alarm, Revoke, Tick, awaits
<1>5. CASE Evict
  BY <1>unheard, <1>gained, <1>5 DEF Evict
<1>6. ASSUME NEW s \in Streams, NEW j \in Sockets, Audited(s, j) PROVE FALSE
  BY <1>gained, <1>6 DEF Audited
<1> QED BY <1>1, <1>2, <1>3, <1>4, <1>5, <1>6 DEF HubNext

\* What is promised of the frames of browser k in one step.
Verdict(k) ==
  Admitted(k) => /\ k \in condemned' => UnderCheck(k)'
                 /\ lost' > 0 => now' < lost' + CheckEvery \/ UnderCheck(k)'

LEMMA UnderChecks == ASSUME NEW s \in Streams, NEW k PROVE InCheck(s, k)' => UnderCheck(k)'
BY DEF InCheck, UnderCheck

\* A frame passes at once only on a session that is trusted.
LEMMA FrameVerdict ==
  ASSUME HubTypeOK, ColdInv, TrustInv, NEW s \in Streams, NEW j \in Sockets, Frame(s, j),
         NEW k \in Sockets, Admitted(k)
  PROVE  Verdict(k)
<1>1. PICK g : /\ Found(g, {}) /\ s \in DOMAIN g.sess
               /\ \/ /\ Passable(g.sess[s]) /\ UNCHANGED checking
                     /\ through' \subseteq g.sess[s].user
                     /\ auditing' \subseteq auditing \cup ({s} \X g.sess[s].user)
                  \/ through' = {} /\ UNCHANGED auditing
  BY FrameEffect
<1>2. UNCHANGED <<now, lost, condemned>>
  BY DEF Frame
<1>3. Passable(g.sess[s]) /\ UNCHANGED checking /\ k \in g.sess[s].user
  BY <1>1 DEF Admitted
<1>4. g.sess[s].checked # 0 /\ ~ g.sess[s].revoked /\ now < g.sess[s].checked + CheckEvery
  BY <1>3 DEF Passable
<1>5. s \in Known /\ g.sess[s] = hub.sess[s]
  BY <1>1, <1>4, FoundHolds
<1>6. /\ lost = 0 \/ hub.sess[s].checked <= lost \/ InCheck(s, k)
      /\ k \in condemned => InCheck(s, k)
  BY <1>3, <1>4, <1>5 DEF TrustInv, SessInv, Trusted
<1>7. now \in Nat /\ lost \in Nat /\ hub.sess[s].checked \in Nat /\ CheckEvery \in Nat
  <2>1. hub \in Hub
    BY DEF HubTypeOK
  <2> QED BY <1>5, <2>1, SessTypes, HubAssumption, SMTT(30) DEF HubTypeOK, Times, Known
<1>8. InCheck(s, k) => UnderCheck(k)'
  BY <1>3, UnderChecks DEF InCheck
<1>9. hub.sess[s].checked <= lost => now < lost + CheckEvery
  BY <1>4, <1>5, <1>7
<1>10. lost > 0 => now < lost + CheckEvery \/ UnderCheck(k)'
  BY <1>6, <1>7, <1>8, <1>9
<1> QED BY <1>2, <1>6, <1>8, <1>10 DEF Verdict

\* A frame passes after a check only if the user still passed it.
LEMMA CheckVerdict ==
  ASSUME HubTypeOK, ColdInv, TrustInv, "d1" \notin Faults, NEW s \in Streams, NEW j \in Sockets,
         CheckIdentity(s, j) \/ CheckServer(s, j), NEW k \in Sockets, Admitted(k)
  PROVE  Verdict(k)
<1>1. UNCHANGED <<now, lost>>
  BY DEF CheckIdentity, CheckServer
<1>2. \/ GoesOn(s, j) /\ lost = 0 /\ admin
      \/ GoesOn(s, j) /\ <<s, j, "granted">> \in checking /\ ~ gone
  BY DEF CheckIdentity, CheckServer, Condemns, CheckFails, Admitted
<1>3. /\ UNCHANGED condemned
      /\ k = j \/ (s \in Known /\ k \in hub.sess[s].user)
  <2>1. GoesOn(s, j)
    BY <1>2
  <2>2. CASE k \in through'
    BY <2>1, <2>2 DEF GoesOn, Audits
  <2>3. ASSUME NEW t \in Streams, <<t, k>> \in auditing' \ auditing PROVE UNCHANGED condemned /\ k = j
    <3>1. auditing' = auditing \cup {<<s, j>>} /\ UNCHANGED condemned
      BY <2>1, <2>3 DEF GoesOn, Audits
    <3>2. <<t, k>> = <<s, j>>
      BY <2>3, <3>1
    <3> QED BY <3>1, <3>2
  <2> QED BY <2>2, <2>3 DEF Admitted
<1>4. now \in Nat /\ lost \in Nat /\ CheckEvery \in Nat \ {0}
  BY HubAssumption DEF HubTypeOK, Times
<1>5. CASE lost = 0 /\ admin
  <2>1. condemned = {}
    BY <1>5 DEF TrustInv, CondInv, Allowed
  <2> QED BY <1>1, <1>3, <1>5, <2>1 DEF Verdict
<1>6. CASE <<s, j, "granted">> \in checking /\ ~ gone
  <2>1. Fresh /\ Clear(s, j)
    BY <1>6 DEF TrustInv, ReadInv
  <2>2. k \notin condemned
    BY <1>3, <2>1 DEF Clear
  <2>3. lost > 0 => now < lost + CheckEvery
    BY <1>4, <2>1 DEF Fresh
  <2> QED BY <1>1, <1>3, <2>2, <2>3 DEF Verdict
<1> QED BY <1>2, <1>5, <1>6

LEMMA VerdictStep ==
  ASSUME HubTypeOK, ColdInv, TrustInv, "d1" \notin Faults, HubNext, NEW k \in Sockets
  PROVE  Verdict(k)
<1>1. ASSUME Admitted(k) PROVE Verdict(k)
  <2>1. PICK s \in Streams, j \in Sockets : Frame(s, j) \/ CheckIdentity(s, j) \/ CheckServer(s, j)
    BY <1>1, Silent
  <2> QED BY <1>1, <2>1, FrameVerdict, CheckVerdict
<1> QED BY <1>1 DEF Verdict

LEMMA TrustInit == HubInit => TrustInv
<1> SUFFICES ASSUME HubInit PROVE TrustInv
  OBVIOUS
<1>1. Known = {} /\ DOMAIN sock = {} /\ authing = {} /\ checking = {} /\ auditing = {} /\ condemned = {} /\ now = 1
  BY NothingKnown DEF HubInit, Known
<1> QED BY <1>1 DEF TrustInv, OwnInv, SessInv, CondInv, OnceInv, ReadInv, WaitInv, Waiting, InCheck, Holds

\* What every step keeps.
Authority == HubTypeOK /\ ColdInv /\ TrustInv

LEMMA AuthorityKept ==
  ASSUME "d1" \notin Faults
  PROVE  /\ HubInit => Authority
         /\ Authority /\ [HubNext]_hubVars => Authority'
BY HubTypesInit, TrustInit, HubTypesStep, TrustStep DEF Authority

\* Once a check has found a user without authority, none of the frames that were
\* under way, nor any later one, is admitted, on either side of the session
\* (do-terminal.js:1606-1649), if no read of D1 fails: what goes on is a file
\* operation that was admitted before and awaited its audit record (:1275).
THEOREM VerdictIsKept == ASSUME "d1" \notin Faults PROVE HubSpec => VerdictHolds
<1> DEFINE Held == \A k \in condemned' : Admitted(k) => UnderCheck(k)'
<1>1. Authority /\ [HubNext]_hubVars => [Held]_hubVars
  <2> SUFFICES ASSUME Authority, HubNext PROVE Held
    OBVIOUS
  <2>1. condemned' \subseteq Sockets
    BY HubTypesStep DEF Authority, HubTypeOK
  <2>2. \A k \in Sockets : Verdict(k)
    BY VerdictStep DEF Authority
  <2> QED BY <2>1, <2>2 DEF Verdict
<1>2. HubSpec => [][Held]_hubVars
  <2> HIDE DEF Held
  <2> QED BY <1>1, AuthorityKept, PTL DEF HubSpec
<1> QED BY <1>2 DEF VerdictHolds

\* Authority that was lost lets frames be admitted for one interval of the checks at
\* most, whatever is evicted meanwhile (do-terminal.js:1606-1649), if no read of D1
\* fails.
THEOREM LostAuthorityEnds == ASSUME "d1" \notin Faults PROVE HubSpec => AuthorityIsRecent
<1> DEFINE Recent == \A k \in Sockets : lost' > 0 /\ Admitted(k) => now' < lost' + CheckEvery \/ UnderCheck(k)'
<1>1. Authority /\ [HubNext]_hubVars => [Recent]_hubVars
  <2> SUFFICES ASSUME Authority, HubNext PROVE Recent
    OBVIOUS
  <2>1. \A k \in Sockets : Verdict(k)
    BY VerdictStep DEF Authority
  <2> QED BY <2>1 DEF Verdict
<1>2. HubSpec => [][Recent]_hubVars
  <2> HIDE DEF Recent
  <2> QED BY <1>1, AuthorityKept, PTL DEF HubSpec
<1> QED BY <1>2 DEF AuthorityIsRecent

(* Sessions: the alarm comes for every open socket. *)

\* The session an object has, or will find when it comes into memory.
Alive(s) == IF hub.rebuilt THEN s \in Known ELSE Ends(s) # {}

InTime(a, s) == \E t \in a : t <= created[s] + Abs + 1 \/ t <= now + AuthTimeout + 1

Side(x, role) == IF role = "user" THEN x.user ELSE x.agent

\* The alarm is set for every session that is in order, and for every browser that
\* has yet to authenticate.
AlarmInv ==
  /\ \A s \in Streams \ stray : Alive(s) => InTime(alarm, s)
  /\ \A k \in DOMAIN sock : sock[k].role = "pending" =>
       /\ sock[k].deadline <= now + AuthTimeout
       /\ Open(k) => \E t \in alarm : t <= sock[k].deadline + 1

\* A session in order has at most one socket of each side, and knows them; one
\* that was removed closed them and is not found in storage again.
LinkInv ==
  \A k \in DOMAIN sock : sock[k].role \in {"user", "agent"} /\ sock[k].of \notin stray =>
    /\ \A j \in Sockets_(sock[k].role, sock[k].of) : j = k
    /\ hub.rebuilt /\ sock[k].of \in Known => k \in Side(hub.sess[sock[k].of], sock[k].role)
    /\ hub.rebuilt /\ sock[k].of \notin Known => sock[k].closing /\ sock[k].of \notin stored

\* Storage has no session that memory, or the sockets, have not.
StoredInv == IF hub.rebuilt THEN stored \subseteq Known ELSE \A s \in stored : Ends(s) # {}

\* Nothing refers to a stream before it is created.
CreatedInv ==
  /\ now # 0
  /\ \A s \in Streams : created[s] = 0 =>
       /\ s \notin Known /\ s \notin stored /\ s \notin opening
       /\ \A k \in DOMAIN sock : sock[k].of # s
       /\ \A x \in authing : x[2] # s

LimitInv == AlarmInv /\ LinkInv /\ StoredInv /\ CreatedInv

\* The sessions that an event finds are those that are alive, but what was swept.
LEMMA FoundAlive ==
  ASSUME HubTypeOK, ColdInv, NEW g, NEW X, Found(g, X)
  PROVE  /\ \A s \in DOMAIN g.sess : s \in Streams /\ Alive(s)
         /\ hub.rebuilt => \A s \in DOMAIN g.sess : s \in Known /\ g.sess[s] = hub.sess[s]
         /\ \A s \in Streams : Alive(s) => s \in DOMAIN g.sess \/ (hub.rebuilt /\ s \in X)
<1>1. \A s \in DOMAIN g.sess : s \in Streams
  BY SessTypes DEF Found
<1> QED BY <1>1 DEF Found, Alive, Known

LEMMA FoundStored ==
  ASSUME HubTypeOK, ColdInv, StoredInv, NEW g, NEW X, Found(g, X)
  PROVE  stored \ X \subseteq DOMAIN g.sess
BY DEF Found, StoredInv, HubTypeOK

LEMMA FoundCreated ==
  ASSUME HubTypeOK, ColdInv, CreatedInv, NEW g, NEW X, Found(g, X)
  PROVE  \A s \in DOMAIN g.sess : created[s] # 0
<1>1. ASSUME NEW s \in DOMAIN g.sess PROVE created[s] # 0
  <2>1. s \in Streams /\ Alive(s)
    BY FoundAlive
  <2>2. CASE hub.rebuilt
    BY <2>1, <2>2 DEF Alive, CreatedInv
  <2>3. CASE ~ hub.rebuilt
    BY <2>1, <2>3 DEF Alive, CreatedInv, Ends, Sockets_
  <2> QED BY <2>2, <2>3
<1> QED BY <1>1

LEMMA FoundLink ==
  ASSUME HubTypeOK, ColdInv, LinkInv, NEW g, NEW X, Found(g, X),
         NEW k \in DOMAIN sock, sock[k].role \in {"user", "agent"}, sock[k].of \notin stray
  PROVE  LET s == sock[k].of IN
         /\ s \in Streams
         /\ s \in DOMAIN g.sess => k \in Side(g.sess[s], sock[k].role)
         /\ s \notin DOMAIN g.sess =>
              \/ s \notin Known /\ sock[k].closing /\ s \notin stored
              \/ hub.rebuilt /\ s \in Known /\ s \in X /\ k \in Side(hub.sess[s], sock[k].role)
<1> DEFINE s == sock[k].of
<1>1. s \in Streams /\ k \in Sockets_(sock[k].role, s)
  BY SockFacts DEF Sockets_
<1>2. CASE hub.rebuilt
  BY <1>1, <1>2 DEF LinkInv, Found
<1>3. CASE ~ hub.rebuilt
  <2>1. Ends(s) # {}
    BY <1>1, EndsFacts
  <2>2. s \in DOMAIN g.sess /\ FromSockets(s, g.sess[s])
    BY <1>1, <1>3, <2>1 DEF Found
  <2>3. Sockets_(sock[k].role, s) \subseteq {k}
    BY DEF LinkInv
  <2>4. k \in Side(g.sess[s], sock[k].role)
    <3>1. CASE sock[k].role = "user"
      BY <1>1, <2>2, <2>3, <3>1 DEF FromSockets, Side
    <3>2. CASE sock[k].role = "agent"
      BY <1>1, <2>2, <2>3, <3>2 DEF FromSockets, Side
    <3> QED BY <3>1, <3>2
  <2> QED BY <1>1, <2>2, <2>4
<1> QED BY <1>2, <1>3

\* What the sweep of a request leaves the alarm set for.
LEMMA SweepInTime ==
  ASSUME HubTypeOK, ColdInv, LimitInv, NEW g, Found(g, Expired(hub)),
         NEW s \in DOMAIN g.sess, s \notin stray
  PROVE  InTime(SweptAlarm(hub), s)
<1>h. hub \in Hub
  BY DEF HubTypeOK
<1>1. s \in Streams /\ Alive(s)
  BY FoundAlive
<1>2. created[s] \in Nat /\ now \in Nat /\ Ttl \in Nat /\ Abs \in Nat /\ Ttl < Abs
  BY <1>1, HubAssumption DEF HubTypeOK, Times
<1>3. CASE Pressing(hub) = {}
  <2>1. SweptAlarm(hub) = alarm
    BY <1>h, <1>3, SweptAlarmFacts
  <2> QED BY <1>1, <2>1 DEF LimitInv, AlarmInv
<1>4. CASE Pressing(hub) # {}
  <2>1. PICK t \in Pressing(hub) : /\ t \in Nat /\ SweptAlarm(hub) = {t + 1}
                                   /\ \A x \in Pressing(hub) : x \in Nat /\ t <= x
    BY <1>h, <1>4, SweptAlarmFacts
  <2>2. CASE hub.rebuilt
    <3>1. s \in Known \ Expired(hub)
      BY <2>2 DEF Found
    <3>2. created[s] + (IF Unattached(hub, s) THEN Ttl ELSE Abs) \in Pressing(hub)
      BY <3>1 DEF Pressing, Known
    <3>3. t <= created[s] + Abs
      BY <1>2, <2>1, <3>2
    <3>4. t + 1 <= created[s] + Abs + 1
      BY <1>2, <2>1, <3>3
    <3> QED BY <2>1, <3>4 DEF InTime
  <2>3. CASE ~ hub.rebuilt
    <3>1. t \in {sock[k].deadline : k \in {x \in DOMAIN sock : sock[x].role = "pending"} \ Late}
      BY <2>1, <2>3 DEF Pressing, ColdInv, Known
    <3>2. t <= now + AuthTimeout
      BY <3>1 DEF LimitInv, AlarmInv
    <3>3. t + 1 <= now + AuthTimeout + 1
      BY <1>2, <2>1, <3>2, HubAssumption
    <3> QED BY <2>1, <3>3 DEF InTime
  <2> QED BY <2>2, <2>3
<1> QED BY <1>3, <1>4

LEMMA SweepPending ==
  ASSUME HubTypeOK, NEW h \in Hub, NEW k \in DOMAIN sock, sock[k].role = "pending", k \notin Late
  PROVE  \E t \in SweptAlarm(h) : t \in Nat /\ t <= sock[k].deadline + 1
<1>1. sock[k].deadline \in Pressing(h)
  BY DEF Pressing
<1>2. PICK t \in Pressing(h) : /\ t \in Nat /\ SweptAlarm(h) = {t + 1}
                               /\ \A x \in Pressing(h) : x \in Nat /\ t <= x
  BY <1>1, SweptAlarmFacts
<1>3. t + 1 <= sock[k].deadline + 1 /\ t + 1 \in Nat
  BY <1>1, <1>2, SockFacts
<1> QED BY <1>2, <1>3

\* A request that sweeps leaves N new sessions, which have no sockets, and J new
\* sockets, which have to authenticate.
SweepsAndAdds(g, N, K, J) ==
  /\ Found(g, Expired(hub)) /\ Grows(g, N) /\ Closes(K, J)
  /\ SweptSockets(hub) \subseteq K
  /\ \A s \in N : \A k \in DOMAIN sock : sock[k].of # s
  /\ \A j \in J : sock'[j].role = "pending"
  /\ stored' \subseteq (stored \ Expired(hub)) \cup N
  /\ UNCHANGED <<now, stray>>

\* Who is swept with a socket loses it.
LEMMA ExpiredCloses ==
  ASSUME HubTypeOK, NEW h \in Hub, NEW s \in Expired(h), NEW k, k \in h.sess[s].user \cup h.sess[s].agent
  PROVE  s \in DOMAIN h.sess /\ k \in SweptSockets(h)
<1>1. s \in DOMAIN h.sess /\ Tired(h, s)
  BY DEF Expired, Unattached
<1> QED BY <1>1 DEF SweptSockets

LEMMA SweepLinks ==
  ASSUME HubTypeOK, HubTypeOK', ColdInv, LimitInv, NEW g, NEW N, NEW K, NEW J, SweepsAndAdds(g, N, K, J)
  PROVE  LinkInv' /\ StoredInv'
<1>f. Found(g, Expired(hub)) /\ Grows(g, N) /\ Closes(K, J) /\ hub \in Hub /\ LinkInv
  BY DEF SweepsAndAdds, LimitInv, HubTypeOK
<1>1. hub'.rebuilt
  BY <1>f DEF Found, Grows
<1>2. StoredInv'
  <2>1. stored \ Expired(hub) \subseteq DOMAIN g.sess
    BY <1>f, FoundStored DEF LimitInv
  <2>2. stored' \subseteq Known'
    BY <2>1 DEF SweepsAndAdds, Grows, Known
  <2> QED BY <1>1, <2>2 DEF StoredInv
<1>3. ASSUME NEW k \in DOMAIN sock', sock'[k].role \in {"user", "agent"}, sock'[k].of \notin stray'
      PROVE  /\ \A j \in Sockets_(sock[k].role, sock[k].of)' : j = k
             /\ sock'[k].of \in Known' => k \in Side(hub'.sess[sock'[k].of], sock'[k].role)
             /\ sock'[k].of \notin Known' => sock'[k].closing /\ sock'[k].of \notin stored'
  <2> DEFINE s == sock[k].of
  <2>1. /\ k \in DOMAIN sock /\ sock[k].role \in {"user", "agent"} /\ s \notin stray
        /\ sock'[k].role = sock[k].role /\ sock'[k].of = s
        /\ sock'[k].closing <=> sock[k].closing \/ k \in K
    BY <1>3 DEF SweepsAndAdds, Closes
  <2>2. s \notin N
    BY <2>1 DEF SweepsAndAdds
  <2>3. \A j \in Sockets_(sock[k].role, s)' : j = k
    <3>1. Sockets_(sock[k].role, s)' \subseteq Sockets_(sock[k].role, s)
      BY <1>3, <2>1 DEF SweepsAndAdds, Closes, Sockets_
    <3> QED BY <1>f, <2>1, <3>1 DEF LinkInv
  <2>4. /\ s \in DOMAIN g.sess => k \in Side(g.sess[s], sock[k].role)
        /\ s \notin DOMAIN g.sess =>
              \/ s \notin Known /\ sock[k].closing /\ s \notin stored
              \/ s \in Known /\ s \in Expired(hub) /\ k \in Side(hub.sess[s], sock[k].role)
    BY <1>f, <2>1, FoundLink
  <2>5. ASSUME s \in Known' PROVE k \in Side(hub'.sess[s], sock[k].role)
    <3>1. s \in DOMAIN g.sess /\ hub'.sess[s] = g.sess[s]
      BY <1>f, <2>2, <2>5 DEF Grows, Known
    <3> QED BY <2>4, <3>1
  <2>6. ASSUME s \notin Known' PROVE sock'[k].closing /\ s \notin stored'
    <3>1. s \notin DOMAIN g.sess
      BY <1>f, <2>6 DEF Grows, Known
    <3>2. CASE s \notin Known /\ sock[k].closing /\ s \notin stored
      BY <2>1, <2>2, <3>2 DEF SweepsAndAdds
    <3>3. CASE s \in Expired(hub) /\ k \in Side(hub.sess[s], sock[k].role)
      <4>1. k \in SweptSockets(hub)
        BY <1>f, <3>3, ExpiredCloses DEF Side
      <4> QED BY <2>1, <2>2, <3>3, <4>1 DEF SweepsAndAdds
    <3> QED BY <2>4, <3>1, <3>2, <3>3
  <2> QED BY <2>1, <2>3, <2>5, <2>6
<1>4. LinkInv'
  BY <1>1, <1>3 DEF LinkInv
<1> QED BY <1>2, <1>4

\* The alarm is left as the sweep sets it, or set earlier.
LEMMA SweepAlarms ==
  ASSUME HubTypeOK, HubTypeOK', ColdInv, LimitInv, NEW g, NEW N, NEW K, NEW J, SweepsAndAdds(g, N, K, J),
         \A t \in SweptAlarm(hub) : \E x \in alarm' : x \in Nat /\ x <= t,
         \A s \in Streams \ N : created'[s] = created[s],
         \A s \in N : InTime(alarm, s)',
         \A j \in J : /\ sock'[j].deadline <= now' + AuthTimeout
                      /\ \E t \in alarm' : t <= sock'[j].deadline + 1
  PROVE  AlarmInv'
<1>f. Found(g, Expired(hub)) /\ Grows(g, N) /\ Closes(K, J) /\ hub \in Hub /\ now' = now /\ stray' = stray
  BY DEF SweepsAndAdds, HubTypeOK
<1>1. hub'.rebuilt
  BY <1>f DEF Found, Grows
<1>t. \A t \in SweptAlarm(hub) : t \in Nat
  <2>1. SweptAlarm(hub) \in Singly(AlarmTimes)
    BY <1>f, SweptAlarmFacts
  <2> QED BY <2>1, SinglyFacts, HubAssumption DEF AlarmTimes
<1>2. ASSUME NEW s \in Streams \ stray', Alive(s)' PROVE InTime(alarm, s)'
  <2>1. s \in Known'
    BY <1>1, <1>2 DEF Alive
  <2>2. CASE s \in N
    BY <2>2
  <2>3. CASE s \notin N
    <3>1. s \in DOMAIN g.sess
      BY <1>f, <2>1, <2>3 DEF Grows, Known
    <3>2. InTime(SweptAlarm(hub), s)
      BY <1>f, <1>2, <3>1, SweepInTime
    <3>3. created'[s] = created[s] /\ created[s] \in Nat /\ now \in Nat
      BY <1>2, <2>3, HubAssumption DEF HubTypeOK, Times
    <3>4. PICK t \in SweptAlarm(hub) : t <= created[s] + Abs + 1 \/ t <= now + AuthTimeout + 1
      BY <3>2 DEF InTime
    <3>5. PICK x \in alarm' : x \in Nat /\ x <= t
      BY <3>4
    <3>6. t \in Nat
      BY <1>t, <3>4
    <3>7. x <= created[s] + Abs + 1 \/ x <= now + AuthTimeout + 1
      BY <3>3, <3>4, <3>5, <3>6, HubAssumption
    <3> QED BY <1>f, <3>3, <3>5, <3>7 DEF InTime
  <2> QED BY <2>2, <2>3
<1>3. ASSUME NEW k \in DOMAIN sock', sock'[k].role = "pending"
      PROVE  /\ sock'[k].deadline <= now' + AuthTimeout
             /\ Open(k)' => \E t \in alarm' : t <= sock'[k].deadline + 1
  <2>1. CASE k \in J
    BY <2>1
  <2>2. CASE k \notin J
    <3>1. /\ k \in DOMAIN sock /\ sock[k].role = "pending" /\ sock'[k].deadline = sock[k].deadline
          /\ sock'[k].closing <=> sock[k].closing \/ k \in K
      BY <1>f, <1>3, <2>2 DEF Closes
    <3>2. sock'[k].deadline <= now' + AuthTimeout
      BY <1>f, <3>1 DEF LimitInv, AlarmInv
    <3>3. ASSUME Open(k)' PROVE \E t \in alarm' : t <= sock'[k].deadline + 1
      <4>1. k \notin Late
        <5>1. k \notin K /\ SweptSockets(hub) \subseteq K
          BY <3>1, <3>3 DEF Open, SweepsAndAdds
        <5>2. Late \subseteq SweptSockets(hub)
          BY DEF SweptSockets
        <5> QED BY <5>1, <5>2
      <4>2. PICK t \in SweptAlarm(hub) : t \in Nat /\ t <= sock[k].deadline + 1
        BY <1>f, <3>1, <4>1, SweepPending
      <4>3. PICK x \in alarm' : x \in Nat /\ x <= t
        BY <4>2
      <4>4. x <= sock[k].deadline + 1
        BY <3>1, <4>2, <4>3, SockFacts
      <4> QED BY <3>1, <4>3, <4>4
    <3> QED BY <3>2, <3>3
  <2> QED BY <2>1, <2>2
<1> QED BY <1>2, <1>3 DEF AlarmInv

\* A stream that comes into use had been created.
LEMMA CreatedKept ==
  ASSUME HubTypeOK, CreatedInv, now' # 0, UNCHANGED created,
         \A s \in Known' \cup stored' \cup opening' : s \in Streams => created[s] # 0,
         \A k \in DOMAIN sock' : created[sock'[k].of] # 0 \/ (k \in DOMAIN sock /\ sock'[k].of = sock[k].of),
         \A x \in authing' : x \in authing \/ (x[2] \in Streams => created[x[2]] # 0)
  PROVE  CreatedInv'
BY DEF CreatedInv

LEMMA NoNewSession ==
  ASSUME HubTypeOK, ColdInv, StoredInv, NEW g, NEW X, Found(g, X), NEW N, N \subseteq stored \ X, N \cap DOMAIN g.sess = {}
  PROVE  N = {}
BY FoundStored

LEMMA SweptAlarmEarlier ==
  ASSUME HubTypeOK, NEW h \in Hub
  PROVE  \A t \in SweptAlarm(h) : \E x \in SweptAlarm(h) : x \in Nat /\ x <= t
<1>1. SweptAlarm(h) \subseteq AlarmTimes /\ AlarmTimes \subseteq Nat
  BY SweptAlarmFacts, SinglyFacts, HubAssumption DEF AlarmTimes
<1>2. \A t \in Nat : t <= t
  OBVIOUS
<1> QED BY <1>1, <1>2

LEMMA CreateLimit ==
  ASSUME HubTypeOK, HubTypeOK', ColdInv, LimitInv, NEW s \in Streams, Create(s)
  PROVE  LimitInv'
<1>i. AlarmInv /\ LinkInv /\ StoredInv /\ CreatedInv /\ hub \in Hub
  BY DEF LimitInv, HubTypeOK
<1>1. PICK g : Found(g, Expired(hub)) /\ Grows(g, {s})
  BY CreateEffect
<1>2. /\ sock' = Close(SweptSockets(hub)) /\ stored' = (stored \ Expired(hub)) \cup {s}
      /\ alarm' = Earlier(SweptAlarm(hub), now + Ttl + 1) /\ created' = [created EXCEPT ![s] = now]
      /\ created[s] = 0 /\ UNCHANGED <<now, authing, opening, stray>>
  BY DEF Create, awaits
<1>3. Closes(SweptSockets(hub), {})
  BY <1>2, ClosesFacts
<1>4. \A k \in DOMAIN sock : sock[k].of # s
  BY <1>i, <1>2 DEF CreatedInv
<1>5. SweepsAndAdds(g, {s}, SweptSockets(hub), {})
  BY <1>1, <1>2, <1>3, <1>4 DEF SweepsAndAdds
<1>6. LinkInv' /\ StoredInv'
  BY <1>5, SweepLinks
<1>n. now \in Nat /\ now \in Times /\ Ttl \in Nat /\ Abs \in Nat /\ Ttl < Abs
  BY HubAssumption DEF HubTypeOK, Times
<1>7. /\ SweptAlarm(hub) \in Singly(AlarmTimes) /\ now + Ttl + 1 \in AlarmTimes
  BY <1>i, <1>n, AlarmTypes, Bounds
<1>8. /\ \A t \in SweptAlarm(hub) : \E x \in alarm' : x \in Nat /\ x <= t
      /\ \E x \in alarm' : x \in Nat /\ x <= now + Ttl + 1
  BY <1>2, <1>7, EarlierFacts
<1>9. created'[s] = now /\ \A u \in Streams \ {s} : created'[u] = created[u]
  BY <1>2 DEF HubTypeOK
<1>10. \A u \in {s} : InTime(alarm, u)'
  <2>1. PICK x \in alarm' : x \in Nat /\ x <= now + Ttl + 1
    BY <1>8
  <2>2. x <= created'[s] + Abs + 1
    BY <1>n, <1>9, <2>1
  <2> QED BY <2>1, <2>2 DEF InTime
<1>11. AlarmInv'
  BY <1>5, <1>8, <1>9, <1>10, SweepAlarms
<1>12. CreatedInv'
  <2>1. now' # 0
    BY <1>i, <1>2 DEF CreatedInv
  <2>2. ASSUME NEW u \in Streams, created'[u] = 0
        PROVE  /\ u # s /\ created[u] = 0
               /\ u \notin Known' /\ u \notin stored' /\ u \notin opening'
               /\ \A k \in DOMAIN sock' : sock'[k].of # u
               /\ \A x \in authing' : x[2] # u
    <3>1. u # s /\ created[u] = 0
      BY <1>2, <1>9, <2>1, <2>2
    <3>2. u \notin Known'
      BY <1>1, <1>i, <3>1, FoundCreated DEF Grows, Known
    <3>3. \A k \in DOMAIN sock' : sock'[k].of # u
      BY <1>i, <1>3, <3>1 DEF Closes, CreatedInv
    <3> QED BY <1>i, <1>2, <3>1, <3>2, <3>3 DEF CreatedInv
  <2> QED BY <2>1, <2>2 DEF CreatedInv
<1> QED BY <1>6, <1>11, <1>12 DEF LimitInv

LEMMA ConnectLimit ==
  ASSUME HubTypeOK, HubTypeOK', ColdInv, LimitInv, NEW s \in Streams, NEW k \in Sockets, ConnectUser(s, k)
  PROVE  LimitInv'
<1>i. AlarmInv /\ LinkInv /\ StoredInv /\ CreatedInv /\ hub \in Hub
  BY DEF LimitInv, HubTypeOK
<1>1. PICK g, N : /\ Found(g, Expired(hub)) /\ Grows(g, N) /\ s \in DOMAIN hub'.sess
                  /\ N \subseteq stored \ Expired(hub) /\ N \cap DOMAIN g.sess = {}
  BY ConnectEffect
<1>2. N = {}
  BY <1>i, <1>1, NoNewSession
<1>3. /\ Closes(SweptSockets(hub), {k})
      /\ sock'[k].role = "pending" /\ sock'[k].of = s /\ sock'[k].deadline = now + AuthTimeout
  BY ConnectEffect
<1>4. /\ stored' = stored \ Expired(hub) /\ alarm' = Earlier(SweptAlarm(hub), now + AuthTimeout)
      /\ UNCHANGED <<now, created, authing, opening, stray>>
  BY DEF ConnectUser, awaits
<1>5. SweepsAndAdds(g, {}, SweptSockets(hub), {k})
  BY <1>1, <1>2, <1>3, <1>4 DEF SweepsAndAdds
<1>6. LinkInv' /\ StoredInv'
  BY <1>5, SweepLinks
<1>n. now \in Nat /\ now \in Times /\ AuthTimeout \in Nat
  BY HubAssumption DEF HubTypeOK, Times
<1>7. SweptAlarm(hub) \in Singly(AlarmTimes) /\ now + AuthTimeout \in AlarmTimes
  BY <1>i, <1>n, AlarmTypes, Bounds
<1>8. /\ \A t \in SweptAlarm(hub) : \E x \in alarm' : x \in Nat /\ x <= t
      /\ \E x \in alarm' : x \in Nat /\ x <= now + AuthTimeout
  BY <1>4, <1>7, EarlierFacts
<1>9. \A j \in {k} : /\ sock'[j].deadline <= now' + AuthTimeout
                     /\ \E t \in alarm' : t <= sock'[j].deadline + 1
  <2>1. PICK x \in alarm' : x \in Nat /\ x <= now + AuthTimeout
    BY <1>8
  <2>2. x <= now + AuthTimeout + 1 /\ now + AuthTimeout <= now + AuthTimeout
    BY <1>n, <2>1
  <2> QED BY <1>3, <1>4, <2>1, <2>2
<1>10. AlarmInv'
  <2>swept. \A t \in SweptAlarm(hub) : \E x \in alarm' : x \in Nat /\ x <= t
    BY <1>8
  <2>others. \A u \in Streams \ {} : created'[u] = created[u]
    BY <1>4
  <2>none. \A u \in {} : InTime(alarm, u)'
    OBVIOUS
  <2> QED BY <1>5, <1>9, <2>swept, <2>others, <2>none, SweepAlarms
<1>11. CreatedInv'
  <2>known. \A u \in Known' : created[u] # 0
    BY <1>1, <1>2, <1>i, FoundCreated DEF Grows, Known
  <2>streams. s \in Known' /\ Known' \subseteq Streams
    BY <1>1, SessTypes DEF Known, HubTypeOK
  <2>sockets. \A j \in DOMAIN sock' : created[sock'[j].of] # 0 \/ (j \in DOMAIN sock /\ sock'[j].of = sock[j].of)
    BY <1>3, <2>known, <2>streams DEF Closes
  <2>kept. \A u \in Streams : u \in stored' \cup opening' => created[u] # 0
    BY <1>4, <1>i DEF CreatedInv
  <2>clock. now' # 0
    BY <1>i, <1>4 DEF CreatedInv
  <2> QED BY <1>i, <1>4, <2>known, <2>sockets, <2>kept, <2>clock, CreatedKept
<1> QED BY <1>6, <1>10, <1>11 DEF LimitInv

LEMMA AsksLimit ==
  ASSUME HubTypeOK, HubTypeOK', ColdInv, LimitInv, NEW s \in Streams, AgentAsks(s)
  PROVE  LimitInv'
<1>i. AlarmInv /\ LinkInv /\ StoredInv /\ CreatedInv /\ hub \in Hub
  BY DEF LimitInv, HubTypeOK
<1>1. PICK g, N : /\ Found(g, Expired(hub)) /\ Grows(g, N) /\ s \in DOMAIN hub'.sess
                  /\ N \subseteq stored \ Expired(hub) /\ N \cap DOMAIN g.sess = {}
  BY AsksEffect
<1>2. N = {}
  BY <1>i, <1>1, NoNewSession
<1>3. /\ stored' = stored \ Expired(hub) /\ alarm' = SweptAlarm(hub) /\ sock' = Close(SweptSockets(hub))
      /\ opening' = opening \cup {s} /\ UNCHANGED <<now, created, authing, stray>>
  BY DEF AgentAsks
<1>4. Closes(SweptSockets(hub), {})
  BY <1>3, ClosesFacts
<1>5. SweepsAndAdds(g, {}, SweptSockets(hub), {})
  BY <1>1, <1>2, <1>3, <1>4 DEF SweepsAndAdds
<1>6. LinkInv' /\ StoredInv'
  BY <1>5, SweepLinks
<1>7. \A t \in SweptAlarm(hub) : \E x \in alarm' : x \in Nat /\ x <= t
  BY <1>i, <1>3, SweptAlarmEarlier
<1>8. AlarmInv'
  BY <1>3, <1>5, <1>7, SweepAlarms
<1>9. CreatedInv'
  <2>known. \A u \in Known' : created[u] # 0
    BY <1>1, <1>2, <1>i, FoundCreated DEF Grows, Known
  <2>sockets. \A j \in DOMAIN sock' : j \in DOMAIN sock /\ sock'[j].of = sock[j].of
    BY <1>4 DEF Closes
  <2>kept. \A u \in Streams : u \in stored' \cup opening' => created[u] # 0
    BY <1>1, <1>3, <1>i, <2>known DEF CreatedInv, Known
  <2>clock. now' # 0
    BY <1>i, <1>3 DEF CreatedInv
  <2> QED BY <1>i, <1>3, <2>known, <2>sockets, <2>kept, <2>clock, CreatedKept
<1> QED BY <1>6, <1>8, <1>9 DEF LimitInv

LEMMA DropAgentLimit ==
  ASSUME HubTypeOK, HubTypeOK', ColdInv, LimitInv, DropAgentSessions
  PROVE  LimitInv'
<1>i. AlarmInv /\ LinkInv /\ StoredInv /\ CreatedInv /\ hub \in Hub
  BY DEF LimitInv, HubTypeOK
<1>1. PICK g \in Begun : /\ hub' = g
                         /\ sock' = Close(SweptSockets(hub) \cup UNION {g.sess[s].agent : s \in DOMAIN g.sess})
  BY DEF DropAgentSessions
<1> DEFINE K == SweptSockets(hub) \cup UNION {g.sess[s].agent : s \in DOMAIN g.sess}
<1>2. Found(g, Expired(hub)) /\ Grows(g, {})
  BY <1>1, BegunFacts, SameGrows DEF Found
<1>3. Closes(K, {}) /\ SweptSockets(hub) \subseteq K
  BY <1>1, ClosesFacts
<1> HIDE DEF K
<1>4. /\ stored' = stored \ Expired(hub) /\ alarm' = SweptAlarm(hub)
      /\ UNCHANGED <<now, created, authing, opening, stray>>
  BY DEF DropAgentSessions, awaits
<1>5. SweepsAndAdds(g, {}, K, {})
  BY <1>2, <1>3, <1>4 DEF SweepsAndAdds
<1>6. LinkInv' /\ StoredInv'
  BY <1>5, SweepLinks
<1>7. \A t \in SweptAlarm(hub) : \E x \in alarm' : x \in Nat /\ x <= t
  BY <1>i, <1>4, SweptAlarmEarlier
<1>8. AlarmInv'
  BY <1>4, <1>5, <1>7, SweepAlarms
<1>9. CreatedInv'
  <2>known. \A u \in Known' : created[u] # 0
    BY <1>2, <1>i, FoundCreated DEF Grows, Known
  <2>sockets. \A j \in DOMAIN sock' : j \in DOMAIN sock /\ sock'[j].of = sock[j].of
    BY <1>3 DEF Closes
  <2>kept. \A u \in Streams : u \in stored' \cup opening' => created[u] # 0
    BY <1>4, <1>i DEF CreatedInv
  <2>clock. now' # 0
    BY <1>i, <1>4 DEF CreatedInv
  <2> QED BY <1>i, <1>4, <2>known, <2>sockets, <2>kept, <2>clock, CreatedKept
<1> QED BY <1>6, <1>8, <1>9 DEF LimitInv

LEMMA AlarmKept ==
  ASSUME HubTypeOK, AlarmInv, UNCHANGED <<now, created, alarm>>, stray \subseteq stray',
         \A s \in Streams \ stray' : Alive(s)' => Alive(s),
         \A k \in DOMAIN sock' : sock'[k].role = "pending" =>
           /\ k \in DOMAIN sock /\ sock[k].role = "pending" /\ sock'[k].deadline = sock[k].deadline
           /\ sock[k].closing => sock'[k].closing
  PROVE  AlarmInv'
<1>1. ASSUME NEW s \in Streams \ stray', Alive(s)' PROVE InTime(alarm, s)'
  <2>1. InTime(alarm, s)
    BY <1>1 DEF AlarmInv
  <2> QED BY <2>1 DEF InTime
<1>2. ASSUME NEW k \in DOMAIN sock', sock'[k].role = "pending"
      PROVE  /\ sock'[k].deadline <= now' + AuthTimeout
             /\ Open(k)' => \E t \in alarm' : t <= sock'[k].deadline + 1
  BY <1>2 DEF AlarmInv, Open
<1> QED BY <1>1, <1>2 DEF AlarmInv

\* A frame, or the answer it awaits, is served: the sessions that are found stay, and
\* so do their sockets, of which K are to close.
Serves(g, K) ==
  /\ Found(g, {}) /\ hub'.rebuilt /\ DOMAIN hub'.sess = DOMAIN g.sess
  /\ \A u \in DOMAIN g.sess : hub'.sess[u].user = g.sess[u].user /\ hub'.sess[u].agent = g.sess[u].agent
  /\ Closes(K, {})
  /\ UNCHANGED <<now, created, stored, alarm, opening, stray>>

LEMMA ServesLimit ==
  ASSUME HubTypeOK, HubTypeOK', ColdInv, LimitInv, NEW g, NEW K, Serves(g, K),
         \A x \in authing' : x \in authing \/ (x[2] \in Streams => created[x[2]] # 0)
  PROVE  LimitInv'
<1>i. AlarmInv /\ LinkInv /\ StoredInv /\ CreatedInv /\ Found(g, {}) /\ Closes(K, {})
  BY DEF LimitInv, Serves
<1>1. AlarmInv'
  <2>1. \A s \in Streams \ stray' : Alive(s)' => Alive(s)
    BY <1>i, FoundAlive DEF Serves, Alive, Known
  <2> QED BY <1>i, <2>1, AlarmKept DEF Serves, Closes
<1>2. StoredInv'
  <2>1. stored \subseteq DOMAIN g.sess
    BY <1>i, FoundStored
  <2> QED BY <2>1 DEF Serves, StoredInv, Known
<1>3. LinkInv'
  <2> SUFFICES ASSUME NEW k \in DOMAIN sock', sock'[k].role \in {"user", "agent"}, sock'[k].of \notin stray'
               PROVE  /\ \A j \in Sockets_(sock[k].role, sock[k].of)' : j = k
                      /\ sock'[k].of \in Known' => k \in Side(hub'.sess[sock'[k].of], sock'[k].role)
                      /\ sock'[k].of \notin Known' => sock'[k].closing /\ sock'[k].of \notin stored'
    BY DEF LinkInv, Serves
  <2> DEFINE s == sock[k].of
  <2>was. /\ k \in DOMAIN sock /\ sock[k].role \in {"user", "agent"} /\ s \notin stray
          /\ sock'[k].role = sock[k].role /\ sock'[k].of = s
          /\ sock[k].closing => sock'[k].closing
    BY DEF Serves, Closes
  <2>only. \A j \in Sockets_(sock[k].role, s)' : j = k
    <3>1. Sockets_(sock[k].role, s)' \subseteq Sockets_(sock[k].role, s)
      BY <1>i, <2>was DEF Closes, Sockets_
    <3> QED BY <1>i, <2>was, <3>1 DEF LinkInv
  <2>side. /\ s \in DOMAIN g.sess => k \in Side(g.sess[s], sock[k].role)
           /\ s \notin DOMAIN g.sess => sock[k].closing /\ s \notin stored
    BY <1>i, <2>was, FoundLink
  <2> QED BY <2>was, <2>only, <2>side DEF Serves, Known, Side
<1>4. CreatedInv'
  <2>known. \A u \in Known' : created[u] # 0
    BY <1>i, FoundCreated DEF Serves, Known
  <2>sockets. \A j \in DOMAIN sock' : j \in DOMAIN sock /\ sock'[j].of = sock[j].of
    BY <1>i DEF Closes
  <2>kept. \A u \in Streams : u \in stored' \cup opening' => created[u] # 0
    BY <1>i DEF CreatedInv, Serves
  <2>clock. now' # 0 /\ UNCHANGED created
    BY <1>i DEF CreatedInv, Serves
  <2> QED BY <1>i, <2>known, <2>sockets, <2>kept, <2>clock, CreatedKept
<1> QED BY <1>1, <1>2, <1>3, <1>4 DEF LimitInv

LEMMA MemoryFound == ASSUME HubTypeOK, NEW h \in Hub, h.rebuilt, hub.rebuilt, h.sess = hub.sess, NEW X, X = {} PROVE Found(h, X)
BY DEF Found, Known

LEMMA BeginsLimit ==
  ASSUME HubTypeOK, HubTypeOK', ColdInv, LimitInv, NEW k \in Sockets, AuthBegins(k)
  PROVE  LimitInv'
<1>1. Found(hub', {}) /\ hub'.rebuilt
  BY WokenFacts DEF AuthBegins, Found
<1>2. k \in DOMAIN sock /\ UNCHANGED <<now, created, stored, alarm, opening, stray>>
  BY DEF AuthBegins, Open
<1>3. PICK K : Closes(K, {})
  <2>1. CASE sock' = Close({k})
    BY <2>1, ClosesFacts
  <2>2. CASE UNCHANGED sock
    BY <2>2, NoneClose
  <2> QED BY <2>1, <2>2 DEF AuthBegins
<1>4. Serves(hub', K)
  BY <1>1, <1>2, <1>3 DEF Serves
<1>5. \A x \in authing' : x \in authing \/ (x[2] \in Streams => created[x[2]] # 0)
  <2>1. created[sock[k].of] # 0
    BY <1>2, SockFacts DEF LimitInv, CreatedInv
  <2> QED BY <2>1 DEF AuthBegins
<1> QED BY <1>4, <1>5, ServesLimit

LEMMA FrameLimit ==
  ASSUME HubTypeOK, HubTypeOK', ColdInv, LimitInv, NEW s \in Streams, NEW k \in Sockets, Frame(s, k)
  PROVE  LimitInv'
<1>1. PICK g : /\ Found(g, {}) /\ s \in DOMAIN g.sess
               /\ \/ hub' = g
                  \/ /\ hub'.rebuilt /\ DOMAIN hub'.sess = DOMAIN g.sess
                     /\ \A u \in DOMAIN g.sess \ {s} : hub'.sess[u] = g.sess[u]
                     /\ hub'.sess[s].user = g.sess[s].user /\ hub'.sess[s].agent = g.sess[s].agent
  BY FrameEffect
<1>2. UNCHANGED <<now, created, stored, alarm, sock, authing, opening, stray>>
  BY DEF Frame
<1>3. Closes({}, {})
  BY <1>2, NoneClose
<1>4. /\ hub'.rebuilt /\ DOMAIN hub'.sess = DOMAIN g.sess
      /\ \A u \in DOMAIN g.sess : hub'.sess[u].user = g.sess[u].user /\ hub'.sess[u].agent = g.sess[u].agent
  <2>1. CASE hub' = g
    BY <1>1, <2>1 DEF Found
  <2>2. CASE /\ hub'.rebuilt /\ DOMAIN hub'.sess = DOMAIN g.sess
             /\ \A u \in DOMAIN g.sess \ {s} : hub'.sess[u] = g.sess[u]
             /\ hub'.sess[s].user = g.sess[s].user /\ hub'.sess[s].agent = g.sess[s].agent
    BY <2>2
  <2> QED BY <1>1, <2>1, <2>2
<1>5. Serves(g, {})
  BY <1>1, <1>2, <1>3, <1>4 DEF Serves
<1> QED BY <1>2, <1>5, ServesLimit

LEMMA CheckLimit ==
  ASSUME HubTypeOK, HubTypeOK', ColdInv, LimitInv, NEW s \in Streams, NEW k \in Sockets,
         CheckIdentity(s, k) \/ CheckServer(s, k)
  PROVE  LimitInv'
<1>goes. CheckGoes(s, k)
  BY CheckGoesOn
<1>1. hub.rebuilt /\ hub \in Hub
  BY <1>goes DEF CheckGoes, HubTypeOK
<1>2. UNCHANGED <<now, created, stored, alarm, authing, opening, stray>>
  BY <1>goes DEF CheckGoes
<1>3. Found(hub, {})
  BY <1>1, MemoryFound
<1>4. /\ hub'.rebuilt /\ DOMAIN hub'.sess = Known
      /\ \A u \in Known : hub'.sess[u].user = hub.sess[u].user /\ hub'.sess[u].agent = hub.sess[u].agent
  <2>1. CASE UNCHANGED hub
    BY <1>1, <2>1 DEF Known
  <2>2. CASE hub' = IF s \in Known THEN [hub EXCEPT !.sess[s].revoked = TRUE] ELSE hub
    BY <1>1, <2>2, RevokesEffect
  <2> QED BY <1>goes, <2>1, <2>2 DEF CheckGoes, GoesOn, Condemns, CheckFails
<1>5. PICK K : Closes(K, {})
  <2>1. CASE sock' = Close({k})
    BY <2>1, ClosesFacts
  <2>2. CASE UNCHANGED sock
    BY <2>2, NoneClose
  <2> QED BY <1>goes, <2>1, <2>2 DEF CheckGoes, GoesOn, Condemns, CheckFails
<1>6. Serves(hub, K)
  BY <1>2, <1>3, <1>4, <1>5 DEF Serves, Known
<1> QED BY <1>2, <1>6, ServesLimit

\* Who awaits an answer for a stream is a socket of that stream, if it still is one.
AuthingInv == \A x \in authing : x[1] \in DOMAIN sock => sock[x[1]].of = x[2]

LEMMA AuthingKept ==
  ASSUME HubTypeOK, AuthingInv,
         \A j \in DOMAIN sock' : (j \in DOMAIN sock /\ sock'[j].of = sock[j].of) \/ New(j),
         \A x \in authing' : \/ x \in authing
                             \/ x[1] \in DOMAIN sock /\ x[2] = sock[x[1]].of
                             \/ \E y \in authing : x[1] = y[1] /\ x[2] = y[2]
  PROVE  AuthingInv'
<1> SUFFICES ASSUME NEW x \in authing', x[1] \in DOMAIN sock' PROVE sock'[x[1]].of = x[2]
  BY DEF AuthingInv
<1>1. ASSUME NEW y \in authing, x[1] = y[1], x[2] = y[2] PROVE sock'[x[1]].of = x[2]
  <2>1. PICK k \in Sockets, s \in Streams, w \in {"identity", "server"} : y = <<k, s, w>>
    BY DEF HubTypeOK
  <2>2. ~ New(k)
    BY <2>1 DEF New, Holds
  <2> QED BY <1>1, <2>1, <2>2 DEF AuthingInv
<1>2. CASE x[1] \in DOMAIN sock /\ x[2] = sock[x[1]].of
  BY <1>2, SockFacts DEF New, Holds
<1> QED BY <1>1, <1>2

LEMMA OldSockets ==
  ASSUME HubTypeOK, NEW K, Closes(K, {})
  PROVE  \A j \in DOMAIN sock' : (j \in DOMAIN sock /\ sock'[j].of = sock[j].of) \/ New(j)
BY DEF Closes

LEMMA AuthingStep == HubTypeOK /\ ColdInv /\ AuthingInv /\ [HubNext]_hubVars => AuthingInv'
<1> SUFFICES ASSUME HubTypeOK, ColdInv, AuthingInv, [HubNext]_hubVars PROVE AuthingInv'
  OBVIOUS
<1>adds. ASSUME UNCHANGED authing, NEW J, \A j \in J : New(j), NEW K, Closes(K, J) PROVE AuthingInv'
  <2>1. \A j \in DOMAIN sock' : (j \in DOMAIN sock /\ sock'[j].of = sock[j].of) \/ New(j)
    BY <1>adds DEF Closes
  <2> QED BY <1>adds, <2>1, AuthingKept
<1>closes. ASSUME UNCHANGED authing, NEW K, Closes(K, {}) PROVE AuthingInv'
  BY <1>adds, <1>closes
<1>same. ASSUME UNCHANGED <<authing, sock>> PROVE AuthingInv'
  BY <1>same DEF AuthingInv
<1>direct. ASSUME NEW K, sock' = Close(K), UNCHANGED authing PROVE AuthingInv'
  BY <1>closes, <1>direct, ClosesFacts
<1>stream. ASSUME NEW s \in Streams, Create(s) \/ AgentAsks(s) PROVE AuthingInv'
  BY <1>direct, <1>stream DEF Create, AgentAsks, awaits
<1>connect. ASSUME NEW s \in Streams, NEW k \in Sockets, ConnectUser(s, k) PROVE AuthingInv'
  <2>1. Closes(SweptSockets(hub), {k}) /\ New(k)
    BY <1>connect, ConnectEffect
  <2> QED BY <1>adds, <1>connect, <2>1 DEF ConnectUser, awaits
<1>attach. ASSUME NEW s \in Streams, NEW k \in Sockets, AgentAttaches(s, k) PROVE AuthingInv'
  <2>1. Closes({}, {k}) /\ New(k)
    BY <1>attach, AgentEffect
  <2> QED BY <1>adds, <1>attach, <2>1 DEF AgentAttaches
<1>identified. ASSUME NEW s \in Streams, NEW k \in Sockets, AuthIdentified(s, k) PROVE AuthingInv'
  <2>1. PICK h : \/ h \in Hub /\ Attach(h, s, k) /\ authing' \subseteq authing
                 \/ (\E K : sock' = Close(K)) /\ authing' \subseteq authing \cup {<<k, s, "server">>}
    BY <1>identified, IdentifiedEffect DEF AwaitsRow
  <2>2. \A j \in DOMAIN sock' : j \in DOMAIN sock /\ sock'[j].of = sock[j].of
    BY <2>1, AttachFacts, CloseFacts
  <2>3. <<k, s, "identity">> \in authing
    BY <1>identified DEF AuthIdentified
  <2>4. \A x \in authing' : x \in authing \/ \E y \in authing : x[1] = y[1] /\ x[2] = y[2]
    BY <2>1, <2>3
  <2> QED BY <2>2, <2>4, AuthingKept
<1>allowed. ASSUME NEW s \in Streams, NEW k \in Sockets, AuthAllowed(s, k) PROVE AuthingInv'
  <2>1. authing' \subseteq authing /\ hub \in Hub /\ (Attach(hub, s, k) \/ sock' = Close({k}))
    BY <1>allowed DEF AuthAllowed, HubTypeOK
  <2>2. \A j \in DOMAIN sock' : j \in DOMAIN sock /\ sock'[j].of = sock[j].of
    BY <2>1, AttachFacts, CloseFacts
  <2> QED BY <2>1, <2>2, AuthingKept
<1>frame. ASSUME NEW s \in Streams, NEW k \in Sockets, Frame(s, k) PROVE AuthingInv'
  BY <1>same, <1>frame DEF Frame
<1>audited. ASSUME NEW s \in Streams, NEW k \in Sockets, Audited(s, k) PROVE AuthingInv'
  BY <1>same, <1>audited DEF Audited
<1>checked. ASSUME NEW s \in Streams, NEW k \in Sockets, CheckIdentity(s, k) \/ CheckServer(s, k) PROVE AuthingInv'
  BY <1>same, <1>direct, <1>checked, CheckGoesOn DEF CheckGoes, GoesOn, Condemns, CheckFails
<1>begins. ASSUME NEW k \in Sockets, AuthBegins(k) PROVE AuthingInv'
  <2>1. CASE sock' = Close({k}) /\ UNCHANGED authing
    BY <1>direct, <2>1
  <2>2. CASE authing' = authing \cup {<<k, sock[k].of, "identity">>} /\ UNCHANGED sock
    <3>1. k \in DOMAIN sock
      BY <1>begins DEF AuthBegins, Open
    <3> QED BY <2>2, <3>1 DEF AuthingInv
  <2> QED BY <1>begins, <2>1, <2>2 DEF AuthBegins
<1>leaves. ASSUME NEW k \in Sockets, SocketCloses(k) PROVE AuthingInv'
  <2>1. DOMAIN sock' = DOMAIN sock \ {k} /\ \A j \in DOMAIN sock \ {k} : sock'[j].of = sock[j].of
    BY <1>leaves, SocketClosesEffect
  <2> QED BY <1>leaves, <2>1 DEF AuthingInv, SocketCloses, awaits
<1>drops. CASE DropAgentSessions \/ DropServer
  BY <1>direct, <1>drops DEF DropAgentSessions, DropServer, awaits
<1>alarm. CASE Alarm
  <2>1. PICK g \in Hub : Closes(SweptSockets(g), {})
    BY <1>alarm, AlarmEffect
  <2> QED BY <1>closes, <1>alarm, <2>1 DEF Alarm, awaits
<1>evict. CASE Evict
  BY <1>evict DEF Evict, AuthingInv
<1>stutter. CASE Revoke \/ Tick \/ UNCHANGED hubVars
  BY <1>same, <1>stutter DEF Revoke, Tick, hubVars, awaits
<1> QED BY <1>stream, <1>connect, <1>attach, <1>identified, <1>allowed, <1>frame, <1>audited, <1>checked,
           <1>begins, <1>leaves, <1>drops, <1>alarm, <1>evict, <1>stutter DEF HubNext

LEMMA AttachLimit ==
  ASSUME HubTypeOK, HubTypeOK', ColdInv, LimitInv, AuthingInv, NEW s \in Streams, NEW k \in Sockets, NEW h \in Hub,
         h.rebuilt, hub.rebuilt, h.sess = hub.sess, Attach(h, s, k),
         NEW w \in {"identity", "server"}, <<k, s, w>> \in authing, authing' \subseteq authing,
         UNCHANGED <<now, created, stored, alarm, opening>>
  PROVE  LimitInv'
<1>i. AlarmInv /\ LinkInv /\ StoredInv /\ CreatedInv
  BY DEF LimitInv
<1>1. /\ hub'.rebuilt /\ Known' = Known
      /\ \A u \in Known \ {s} : hub'.sess[u] = hub.sess[u]
      /\ s \in Known => hub'.sess[s].user = {k} /\ hub'.sess[s].agent = hub.sess[s].agent
      /\ DOMAIN sock' = DOMAIN sock
      /\ \A j \in DOMAIN sock : /\ sock'[j].role = (IF j = k THEN "user" ELSE sock[j].role)
                                /\ sock'[j].of = sock[j].of /\ sock'[j].deadline = sock[j].deadline
                                /\ sock'[j].closing = sock[j].closing
      /\ stray \subseteq stray'
      /\ s \notin Known => s \in stray'
      /\ s \in Known /\ hub.sess[s].user \cap DOMAIN sock # {} => s \in stray'
  BY AttachFacts DEF Known
<1>2. k \in DOMAIN sock => sock[k].of = s
  BY DEF AuthingInv
<1>3. AlarmInv'
  <2>1. \A u \in Streams \ stray' : Alive(u)' => Alive(u)
    BY <1>1 DEF Alive
  <2> QED BY <1>i, <1>1, <2>1, AlarmKept
<1>4. StoredInv'
  BY <1>i, <1>1 DEF StoredInv
<1>5. LinkInv'
  <2> SUFFICES ASSUME NEW j \in DOMAIN sock', sock'[j].role \in {"user", "agent"}, sock'[j].of \notin stray'
               PROVE  /\ \A i \in Sockets_(sock[j].role, sock[j].of)' : i = j
                      /\ sock'[j].of \in Known' => j \in Side(hub'.sess[sock'[j].of], sock'[j].role)
                      /\ sock'[j].of \notin Known' => sock'[j].closing /\ sock'[j].of \notin stored'
    BY DEF LinkInv
  <2> DEFINE u == sock[j].of
             r == sock[j].role
  <2>was. j \in DOMAIN sock /\ sock'[j].of = u /\ u \notin stray
    BY <1>1
  <2>2. CASE j # k
    <3>1. sock'[j].role = r
      BY <1>1, <2>was, <2>2
    <3>2. /\ \A i \in Sockets_(r, u) : i = j
          /\ u \in Known => j \in Side(hub.sess[u], r)
          /\ u \notin Known => sock[j].closing /\ u \notin stored
      BY <1>i, <2>was, <3>1 DEF LinkInv
    <3>3. ~ (u = s /\ r = "user")
      BY <1>1, <2>was, <3>2 DEF Side
    <3>4. \A i \in Sockets_(r, u)' : i = j
      <4> SUFFICES ASSUME NEW i \in DOMAIN sock, sock'[i].role = r, sock[i].of = u PROVE i = j
        BY <1>1, <2>was, <3>1 DEF Sockets_
      <4>1. i # k
        BY <1>1, <1>2, <3>3
      <4>2. sock[i].role = r
        BY <1>1, <4>1
      <4> QED BY <3>2, <4>2 DEF Sockets_
    <3>5. u \in Known' => j \in Side(hub'.sess[u], r)
      BY <1>1, <3>2, <3>3, <3>1 DEF Side
    <3> QED BY <1>1, <2>was, <3>1, <3>2, <3>4, <3>5
  <2>3. CASE j = k
    <3>1. u = s /\ sock'[j].role = "user" /\ s \in Known /\ hub.sess[s].user \cap DOMAIN sock = {}
      BY <1>1, <1>2, <2>was, <2>3
    <3>2. ASSUME NEW i \in DOMAIN sock, sock'[i].role = "user", sock[i].of = s PROVE i = k
      <4>1. SUFFICES ASSUME i # k PROVE FALSE
        OBVIOUS
      <4>2. i \in DOMAIN sock /\ sock[i].role = "user" /\ sock[i].of = s
        BY <1>1, <3>2, <4>1
      <4>3. i \in hub.sess[s].user
        BY <1>i, <2>was, <3>1, <4>2 DEF LinkInv, Side
      <4> QED BY <3>1, <4>2, <4>3
    <3>3. k \in Side(hub'.sess[s], "user")
      BY <1>1, <3>1 DEF Side
    <3>4. \A i \in Sockets_(r, u)' : i = j
      BY <1>1, <2>was, <2>3, <3>1, <3>2 DEF Sockets_
    <3> QED BY <1>1, <2>was, <2>3, <3>1, <3>3, <3>4
  <2> QED BY <2>2, <2>3
<1>6. CreatedInv'
  <2>1. \A x \in Known' \cup stored' \cup opening' : x \in Streams => created[x] # 0
    BY <1>i, <1>1 DEF CreatedInv
  <2>2. now' # 0
    BY <1>i DEF CreatedInv
  <2> QED BY <1>i, <1>1, <2>1, <2>2, CreatedKept
<1> QED BY <1>3, <1>4, <1>5, <1>6 DEF LimitInv

LEMMA IdentifiedLimit ==
  ASSUME HubTypeOK, HubTypeOK', ColdInv, LimitInv, AuthingInv, NEW s \in Streams, NEW k \in Sockets,
         AuthIdentified(s, k)
  PROVE  LimitInv'
<1>1. /\ <<k, s, "identity">> \in authing /\ hub.rebuilt
      /\ UNCHANGED <<now, created, stored, alarm, opening>>
  BY DEF AuthIdentified, ColdInv
<1>found. PICK h, N : /\ h \in Hub /\ h.rebuilt = hub.rebuilt
                      /\ DOMAIN h.sess = Known \cup N /\ N \subseteq {s} \cap (stored \ Known)
                      /\ \A u \in Known : h.sess[u] = hub.sess[u]
                      /\ \A u \in N : h.sess[u] = NewSess
                      /\ \/ /\ lost = 0 /\ admin /\ s \in DOMAIN h.sess
                            /\ Attach(h, s, k) /\ authing' = authing \ {<<k, s, "identity">>}
                         \/ /\ hub' = h /\ (\E K : sock' = Close(K)) /\ UNCHANGED stray
                            /\ AwaitsRow(s, k)
  BY IdentifiedEffect
<1>3. N = {}
  BY <1>1, <1>found DEF LimitInv, StoredInv
<1>4. h.sess = hub.sess
  <2>1. \A x \in Hub : x.sess \in [DOMAIN x.sess -> Sess]
    BY PartialFacts DEF Hub
  <2>2. h.sess \in [DOMAIN h.sess -> Sess] /\ hub.sess \in [DOMAIN hub.sess -> Sess]
    BY <1>found, <2>1 DEF HubTypeOK
  <2> QED BY <1>found, <1>3, <2>2 DEF Known
<1>5. CASE Attach(h, s, k) /\ authing' = authing \ {<<k, s, "identity">>}
  BY <1>1, <1>found, <1>4, <1>5, AttachLimit
<1>6. CASE /\ hub' = h /\ (\E K : sock' = Close(K)) /\ UNCHANGED stray
           /\ AwaitsRow(s, k)
  <2>1. PICK K : Closes(K, {})
    BY <1>6, ClosesFacts
  <2>2. Found(h, {})
    BY <1>1, <1>found, <1>4, MemoryFound
  <2>3. Serves(h, K)
    BY <1>1, <1>found, <1>6, <2>1, <2>2 DEF Serves
  <2>4. created[s] # 0
    BY <1>1 DEF LimitInv, CreatedInv
  <2>5. \A x \in authing' : x \in authing \/ (x[2] \in Streams => created[x[2]] # 0)
    BY <1>6, <2>4 DEF AwaitsRow
  <2> QED BY <2>3, <2>5, ServesLimit
<1> QED BY <1>found, <1>5, <1>6

LEMMA AllowedLimit ==
  ASSUME HubTypeOK, HubTypeOK', ColdInv, LimitInv, AuthingInv, NEW s \in Streams, NEW k \in Sockets,
         AuthAllowed(s, k)
  PROVE  LimitInv'
<1>1. /\ <<k, s, "server">> \in authing /\ authing' \subseteq authing /\ hub.rebuilt /\ hub \in Hub
      /\ UNCHANGED <<now, created, stored, alarm, opening>>
  BY DEF AuthAllowed, ColdInv, HubTypeOK
<1>2. CASE Attach(hub, s, k)
  BY <1>1, <1>2, AttachLimit
<1>3. CASE sock' = Close({k}) /\ UNCHANGED <<hub, stray>>
  <2>1. Closes({k}, {}) /\ Found(hub, {})
    BY <1>1, <1>3, ClosesFacts, MemoryFound
  <2>2. Serves(hub, {k})
    BY <1>1, <1>3, <2>1 DEF Serves
  <2> QED BY <1>1, <2>2, ServesLimit
<1> QED BY <1>2, <1>3 DEF AuthAllowed

LEMMA AgentLimit ==
  ASSUME HubTypeOK, HubTypeOK', ColdInv, LimitInv, NEW s \in Streams, NEW k \in Sockets, AgentAttaches(s, k)
  PROVE  LimitInv'
<1>i. AlarmInv /\ LinkInv /\ StoredInv /\ CreatedInv
  BY DEF LimitInv
<1>k. Known' = Known
  BY AgentEffect DEF Known
<1>e. /\ hub'.rebuilt = hub.rebuilt
      /\ \A u \in Known : /\ hub'.sess[u].user = hub.sess[u].user
                          /\ hub'.sess[u].agent = (IF u = s THEN {k} ELSE hub.sess[u].agent)
      /\ stray' = stray \cup {x \in {s} : s \in Known => hub.sess[s].agent # {}}
      /\ Closes({}, {k}) /\ k \notin DOMAIN sock
      /\ sock'[k].role = "agent" /\ sock'[k].of = s
  BY AgentEffect
<1>1. /\ hub'.rebuilt = hub.rebuilt /\ Known' = Known
      /\ \A u \in Known : /\ hub'.sess[u].user = hub.sess[u].user
                          /\ hub'.sess[u].agent = (IF u = s THEN {k} ELSE hub.sess[u].agent)
      /\ stray' = stray \cup {x \in {s} : s \in Known => hub.sess[s].agent # {}}
      /\ Closes({}, {k}) /\ k \notin DOMAIN sock
      /\ sock'[k].role = "agent" /\ sock'[k].of = s
  BY <1>k, <1>e
<1>2. s \in opening /\ hub.rebuilt /\ opening' = opening \ {s}
  BY DEF AgentAttaches, ColdInv
<1>3. UNCHANGED <<now, created, stored, alarm, authing>>
  BY DEF AgentAttaches
<1>was. /\ DOMAIN sock' = DOMAIN sock \cup {k}
        /\ \A j \in DOMAIN sock : /\ sock'[j].role = sock[j].role /\ sock'[j].of = sock[j].of
                                  /\ sock'[j].deadline = sock[j].deadline
                                  /\ sock'[j].closing <=> sock[j].closing
  BY <1>1 DEF Closes
<1>5. AlarmInv'
  <2>1. \A u \in Streams \ stray' : Alive(u)' => Alive(u)
    BY <1>1, <1>2 DEF Alive
  <2> QED BY <1>i, <1>1, <1>3, <1>was, <2>1, AlarmKept
<1>6. StoredInv'
  BY <1>i, <1>1, <1>2, <1>3 DEF StoredInv
<1>7. LinkInv'
  <2> SUFFICES ASSUME NEW j \in DOMAIN sock', sock'[j].role \in {"user", "agent"}, sock'[j].of \notin stray'
               PROVE  /\ \A i \in DOMAIN sock' : sock'[i].role = sock'[j].role /\ sock'[i].of = sock'[j].of => i = j
                      /\ sock'[j].of \in Known' => j \in Side(hub'.sess[sock'[j].of], sock'[j].role)
                      /\ sock'[j].of \notin Known' => sock'[j].closing /\ sock'[j].of \notin stored'
    BY DEF LinkInv, Sockets_
  <2>1. CASE j = k
    <3>1. s \notin stray /\ s \in Known /\ hub.sess[s].agent = {}
      BY <1>1, <2>1
    <3>2. ASSUME NEW i \in DOMAIN sock, sock[i].role = "agent", sock[i].of = s PROVE FALSE
      <4>1. i \in hub.sess[s].agent
        BY <1>i, <1>2, <3>1, <3>2 DEF LinkInv, Side
      <4> QED BY <3>1, <4>1
    <3>3. k \in Side(hub'.sess[s], "agent")
      BY <1>1, <3>1 DEF Side
    <3> QED BY <1>1, <1>was, <2>1, <3>1, <3>2, <3>3
  <2>2. CASE j # k
    <3>1. /\ j \in DOMAIN sock /\ sock[j].role \in {"user", "agent"} /\ sock[j].of \notin stray
          /\ sock'[j].role = sock[j].role /\ sock'[j].of = sock[j].of
      BY <1>1, <1>was, <2>2
    <3>2. /\ \A i \in DOMAIN sock : sock[i].role = sock[j].role /\ sock[i].of = sock[j].of => i = j
          /\ sock[j].of \in Known => j \in Side(hub.sess[sock[j].of], sock[j].role)
          /\ sock[j].of \notin Known => sock[j].closing /\ sock[j].of \notin stored
      BY <1>i, <1>2, <3>1 DEF LinkInv, Sockets_
    <3>3. ~ (sock[j].of = s /\ sock[j].role = "agent")
      <4>1. SUFFICES ASSUME sock[j].of = s, sock[j].role = "agent" PROVE FALSE
        OBVIOUS
      <4>2. s \in Known /\ hub.sess[s].agent = {}
        BY <1>1, <2>2, <3>1, <4>1
      <4> QED BY <3>2, <4>1, <4>2 DEF Side
    <3>4. \A i \in DOMAIN sock' : sock'[i].role = sock'[j].role /\ sock'[i].of = sock'[j].of => i = j
      BY <1>1, <1>was, <3>1, <3>2, <3>3
    <3>5. sock[j].of \in Known => j \in Side(hub'.sess[sock[j].of], sock[j].role)
      BY <1>1, <3>1, <3>2, <3>3 DEF Side
    <3> QED BY <1>1, <1>3, <1>was, <3>1, <3>2, <3>4, <3>5
  <2> QED BY <2>1, <2>2
<1>8. CreatedInv'
  <2>known. \A x \in Known' \cup stored' \cup opening' : x \in Streams => created[x] # 0
    BY <1>i, <1>1, <1>2, <1>3 DEF CreatedInv
  <2>clock. now' # 0 /\ created[s] # 0
    BY <1>i, <1>2, <1>3 DEF CreatedInv
  <2>sockets. \A j \in DOMAIN sock' : created[sock'[j].of] # 0 \/ (j \in DOMAIN sock /\ sock'[j].of = sock[j].of)
    BY <1>1, <1>was, <2>clock
  <2> QED BY <1>i, <1>3, <2>known, <2>clock, <2>sockets, CreatedKept
<1> QED BY <1>5, <1>6, <1>7, <1>8 DEF LimitInv

LEMMA EvictLimit ==
  ASSUME HubTypeOK, HubTypeOK', ColdInv, LimitInv, "evict" \notin Faults, Evict
  PROVE  LimitInv'
<1>i. AlarmInv /\ LinkInv /\ StoredInv /\ CreatedInv
  BY DEF LimitInv
<1>1. /\ ~ hub'.rebuilt /\ authing' = {} /\ opening' = {} /\ UNCHANGED <<now, created, stored, alarm, sock>>
      /\ \A s \in stored : Ends(s) # {}
      /\ stray' = stray \cup {s \in Streams \ stored : Ends(s) # {}}
  BY DEF Evict, Ends
<1>2. Known' = {}
  BY NothingKnown DEF Evict, Known
<1>3. AlarmInv'
  <2>1. ASSUME NEW s \in Streams \ stray', Alive(s)' PROVE Alive(s)
    <3>1. Ends(s) # {}
      BY <1>1, <2>1 DEF Alive, Ends, Sockets_
    <3>2. s \in stored
      BY <1>1, <2>1, <3>1
    <3> QED BY <1>i, <3>1, <3>2 DEF Alive, StoredInv
  <2> QED BY <1>i, <1>1, <2>1, AlarmKept
<1>4. StoredInv'
  BY <1>1 DEF StoredInv, Ends, Sockets_
<1>5. LinkInv'
  BY <1>i, <1>1 DEF LinkInv, Sockets_
<1>6. CreatedInv'
  BY <1>i, <1>1, <1>2 DEF CreatedInv
<1> QED BY <1>3, <1>4, <1>5, <1>6 DEF LimitInv

LEMMA StillLimit == ASSUME LimitInv, UNCHANGED <<now, created, hub, stored, alarm, sock, authing, opening, stray>> PROVE LimitInv'
<1>1. AlarmInv'
  <2>1. Known' = Known /\ \A k \in DOMAIN sock : Open(k)' <=> Open(k)
    BY DEF Known, Open
  <2> QED BY <2>1 DEF LimitInv, AlarmInv, Alive, InTime, Ends, Sockets_, Open
<1>2. LinkInv'
  BY DEF LimitInv, LinkInv, Side, Known, Sockets_
<1>3. StoredInv'
  BY DEF LimitInv, StoredInv, Known, Ends, Sockets_
<1>4. CreatedInv'
  BY DEF LimitInv, CreatedInv, Known
<1> QED BY <1>1, <1>2, <1>3, <1>4 DEF LimitInv

LEMMA TickLimit ==
  ASSUME HubTypeOK, HubTypeOK', LimitInv, Tick
  PROVE  LimitInv'
<1>1. now' = now + 1 /\ UNCHANGED <<created, hub, stored, alarm, sock, authing, opening, stray>>
  BY DEF Tick, awaits
<1>2. now \in Nat /\ AuthTimeout \in Nat
  BY HubAssumption DEF HubTypeOK, Times
<1>t. \A t \in alarm : t \in Nat
  BY SinglyFacts, HubAssumption DEF HubTypeOK
<1>3. ASSUME NEW s \in Streams \ stray', Alive(s)' PROVE InTime(alarm, s)'
  <2>1. InTime(alarm, s)
    BY <1>1, <1>3 DEF LimitInv, AlarmInv, Alive, Known, Ends, Sockets_
  <2>2. PICK t \in alarm : t <= created[s] + Abs + 1 \/ t <= now + AuthTimeout + 1
    BY <2>1 DEF InTime
  <2>3. t <= created[s] + Abs + 1 \/ t <= now + 1 + AuthTimeout + 1
    BY <1>2, <1>t, <2>2
  <2> QED BY <1>1, <2>3 DEF InTime
<1>4. ASSUME NEW k \in DOMAIN sock, sock[k].role = "pending"
      PROVE  /\ sock[k].deadline <= now + 1 + AuthTimeout
             /\ Open(k) => \E t \in alarm : t <= sock[k].deadline + 1
  <2>1. sock[k].deadline <= now + AuthTimeout /\ sock[k].deadline \in Nat
    BY <1>4, SockFacts DEF LimitInv, AlarmInv
  <2> QED BY <1>2, <1>4, <2>1 DEF LimitInv, AlarmInv
<1>5. AlarmInv'
  BY <1>1, <1>3, <1>4 DEF AlarmInv, Open
<1>6. LinkInv'
  BY <1>1 DEF LimitInv, LinkInv, Side, Known, Sockets_
<1>7. StoredInv'
  BY <1>1 DEF LimitInv, StoredInv, Known, Ends, Sockets_
<1>8. CreatedInv'
  BY <1>1, <1>2 DEF LimitInv, CreatedInv, Known
<1> QED BY <1>5, <1>6, <1>7, <1>8 DEF LimitInv

LEMMA DropServerLimit ==
  ASSUME HubTypeOK, HubTypeOK', ColdInv, LimitInv, DropServer
  PROVE  LimitInv'
<1>i. AlarmInv /\ LinkInv /\ StoredInv /\ CreatedInv /\ hub \in Hub
  BY DEF LimitInv, HubTypeOK
<1>1. PICK g :
        /\ Found(g, Expired(hub))
        /\ Closes(SweptSockets(hub) \cup UNION {g.sess[s].user \cup g.sess[s].agent : s \in DOMAIN g.sess}, {})
        /\ stored' = stored \ (Expired(hub) \cup DOMAIN g.sess)
  BY DropServerEffect
<1>2. hub'.rebuilt /\ Known' = {}
  BY DropServerEffect
<1>3. alarm' = SweptAlarm(hub) /\ UNCHANGED <<now, created, authing, opening, stray>>
  BY DEF DropServer, awaits
<1> DEFINE K == SweptSockets(hub) \cup UNION {g.sess[s].user \cup g.sess[s].agent : s \in DOMAIN g.sess}
<1>closed. /\ DOMAIN sock' = DOMAIN sock
           /\ \A k \in DOMAIN sock : /\ sock'[k].role = sock[k].role /\ sock'[k].of = sock[k].of
                                     /\ sock'[k].deadline = sock[k].deadline
                                     /\ sock'[k].closing <=> sock[k].closing \/ k \in K
  BY <1>1 DEF Closes
<1>5. /\ \A k \in SweptSockets(hub) : k \in K
      /\ \A s \in DOMAIN g.sess : \A k \in g.sess[s].user \cup g.sess[s].agent : k \in K
  OBVIOUS
<1> HIDE DEF K
<1>6. StoredInv'
  <2>1. stored \ Expired(hub) \subseteq DOMAIN g.sess
    BY <1>i, <1>1, FoundStored
  <2> QED BY <1>1, <1>2, <2>1 DEF StoredInv
<1>7. LinkInv'
  <2> SUFFICES ASSUME NEW k \in DOMAIN sock, sock[k].role \in {"user", "agent"}, sock[k].of \notin stray
               PROVE  /\ \A j \in DOMAIN sock : sock[j].role = sock[k].role /\ sock[j].of = sock[k].of => j = k
                      /\ sock'[k].closing /\ sock[k].of \notin stored'
    BY <1>2, <1>3, <1>closed DEF LinkInv, Sockets_
  <2>1. \A j \in DOMAIN sock : sock[j].role = sock[k].role /\ sock[j].of = sock[k].of => j = k
    BY <1>i DEF LinkInv, Sockets_
  <2>2. CASE sock[k].of \in DOMAIN g.sess
    <3>1. k \in Side(g.sess[sock[k].of], sock[k].role)
      BY <1>i, <1>1, <2>2, FoundLink
    <3> QED BY <1>1, <1>closed, <1>5, <2>1, <2>2, <3>1 DEF Side
  <2>3. CASE sock[k].of \notin DOMAIN g.sess
    <3>1. \/ sock[k].closing /\ sock[k].of \notin stored
          \/ sock[k].of \in Expired(hub) /\ k \in Side(hub.sess[sock[k].of], sock[k].role)
      BY <1>i, <1>1, <2>3, FoundLink
    <3>2. CASE sock[k].closing /\ sock[k].of \notin stored
      BY <1>1, <1>closed, <2>1, <3>2
    <3>3. CASE sock[k].of \in Expired(hub) /\ k \in Side(hub.sess[sock[k].of], sock[k].role)
      <4>1. k \in SweptSockets(hub)
        BY <1>i, <3>3, ExpiredCloses DEF Side
      <4> QED BY <1>1, <1>closed, <1>5, <2>1, <3>3, <4>1
    <3> QED BY <3>1, <3>2, <3>3
  <2> QED BY <2>2, <2>3
<1>8. AlarmInv'
  <2>1. ASSUME NEW k \in DOMAIN sock, sock[k].role = "pending"
        PROVE  /\ sock[k].deadline <= now + AuthTimeout
               /\ ~ sock'[k].closing => \E t \in SweptAlarm(hub) : t <= sock[k].deadline + 1
    <3>1. sock[k].deadline <= now + AuthTimeout
      BY <1>i, <2>1 DEF AlarmInv
    <3>2. ASSUME ~ sock'[k].closing PROVE \E t \in SweptAlarm(hub) : t <= sock[k].deadline + 1
      <4>1. k \notin SweptSockets(hub)
        BY <1>closed, <1>5, <3>2
      <4>2. k \notin Late
        BY <4>1 DEF SweptSockets
      <4> QED BY <1>i, <2>1, <4>2, SweepPending
    <3> QED BY <3>1, <3>2
  <2>2. \A s \in Streams : ~ Alive(s)'
    BY <1>2 DEF Alive
  <2> QED BY <1>3, <1>closed, <2>1, <2>2 DEF AlarmInv, Open
<1>9. CreatedInv'
  <2>sockets. \A j \in DOMAIN sock' : j \in DOMAIN sock /\ sock'[j].of = sock[j].of
    BY <1>closed
  <2>kept. \A u \in Streams : u \in stored' \cup opening' => created[u] # 0
    BY <1>1, <1>3, <1>i DEF CreatedInv
  <2>clock. now' # 0
    BY <1>i, <1>3 DEF CreatedInv
  <2> QED BY <1>i, <1>2, <1>3, <2>sockets, <2>kept, <2>clock, CreatedKept
<1> QED BY <1>6, <1>7, <1>8, <1>9 DEF LimitInv

LEMMA SocketClosesLimit ==
  ASSUME HubTypeOK, HubTypeOK', ColdInv, LimitInv, NEW k \in Sockets, SocketCloses(k)
  PROVE  LimitInv'
<1>i. AlarmInv /\ LinkInv /\ StoredInv /\ CreatedInv
  BY DEF LimitInv
<1>1. PICK g : /\ Found(g, {})
               /\ hub' \in Hub /\ hub'.rebuilt /\ DOMAIN hub'.sess = DOMAIN g.sess \ Emptied(g, k)
               /\ \A u \in DOMAIN hub'.sess :
                    /\ hub'.sess[u].user = g.sess[u].user \ {k} /\ hub'.sess[u].agent = g.sess[u].agent \ {k}
                    /\ hub'.sess[u].checked = g.sess[u].checked /\ hub'.sess[u].revoked = g.sess[u].revoked
               /\ sock' \in Partial(Sockets, Sock) /\ DOMAIN sock' = DOMAIN sock \ {k}
               /\ \A j \in DOMAIN sock \ {k} :
                    /\ sock'[j].role = sock[j].role /\ sock'[j].of = sock[j].of
                    /\ sock'[j].deadline = sock[j].deadline
                    /\ sock'[j].closing <=> sock[j].closing \/ j \in Partners(g, k)
               /\ stored' = stored \ Emptied(g, k)
  BY SocketClosesEffect
<1>2. UNCHANGED <<now, created, alarm, authing, opening, stray>>
  BY DEF SocketCloses, awaits
<1>3. AlarmInv'
  <2>1. \A s \in Streams \ stray' : Alive(s)' => Alive(s)
    BY <1>1, FoundAlive DEF Alive, Known
  <2>2. \A j \in DOMAIN sock' : sock'[j].role = "pending" =>
          /\ j \in DOMAIN sock /\ sock[j].role = "pending" /\ sock'[j].deadline = sock[j].deadline
          /\ sock[j].closing => sock'[j].closing
    BY <1>1
  <2> QED BY <1>i, <1>2, <2>1, <2>2, AlarmKept
<1>4. StoredInv'
  <2>1. stored \ {} \subseteq DOMAIN g.sess
    BY <1>i, <1>1, FoundStored
  <2> QED BY <1>1, <2>1 DEF StoredInv, Known
<1>5. LinkInv'
  <2> SUFFICES ASSUME NEW j \in DOMAIN sock \ {k}, sock[j].role \in {"user", "agent"}, sock[j].of \notin stray
               PROVE  /\ \A i \in DOMAIN sock : sock[i].role = sock[j].role /\ sock[i].of = sock[j].of => i = j
                      /\ sock[j].of \in Known' => j \in Side(hub'.sess[sock[j].of], sock[j].role)
                      /\ sock[j].of \notin Known' => sock'[j].closing /\ sock[j].of \notin stored'
    BY <1>1, <1>2 DEF LinkInv, Sockets_
  <2>1. \A i \in DOMAIN sock : sock[i].role = sock[j].role /\ sock[i].of = sock[j].of => i = j
    BY <1>i DEF LinkInv, Sockets_
  <2>2. /\ sock[j].of \in DOMAIN g.sess => j \in Side(g.sess[sock[j].of], sock[j].role)
        /\ sock[j].of \notin DOMAIN g.sess => sock[j].closing /\ sock[j].of \notin stored
    BY <1>i, <1>1, FoundLink
  <2>3. sock[j].of \in Known' => j \in Side(hub'.sess[sock[j].of], sock[j].role)
    BY <1>1, <2>2 DEF Known, Side
  <2>4. ASSUME sock[j].of \notin Known' PROVE sock'[j].closing /\ sock[j].of \notin stored'
    <3>1. sock[j].of \notin DOMAIN g.sess
      <4>1. SUFFICES ASSUME sock[j].of \in Emptied(g, k), sock[j].of \in DOMAIN g.sess PROVE FALSE
        BY <1>1, <2>4 DEF Known
      <4>2. g.sess[sock[j].of].user \subseteq {k} /\ g.sess[sock[j].of].agent \subseteq {k}
        BY <4>1 DEF Emptied
      <4> QED BY <2>2, <4>1, <4>2 DEF Side
    <3> QED BY <1>1, <2>2, <3>1
  <2> QED BY <2>1, <2>3, <2>4
<1>6. CreatedInv'
  <2>known. \A u \in Known' : created[u] # 0
    BY <1>1, <1>i, FoundCreated DEF Known
  <2>sockets. \A j \in DOMAIN sock' : j \in DOMAIN sock /\ sock'[j].of = sock[j].of
    BY <1>1
  <2>kept. \A u \in Streams : u \in stored' \cup opening' => created[u] # 0
    BY <1>1, <1>2, <1>i DEF CreatedInv
  <2>clock. now' # 0
    BY <1>i, <1>2 DEF CreatedInv
  <2> QED BY <1>i, <1>2, <2>known, <2>sockets, <2>kept, <2>clock, CreatedKept
<1> QED BY <1>3, <1>4, <1>5, <1>6 DEF LimitInv

\* Nothing that presses is past.
LEMMA PressingFuture ==
  ASSUME HubTypeOK, NEW h \in Hub
  PROVE  \A x \in Pressing(h) : now <= x
<1>n. now \in Nat /\ Ttl \in Nat /\ Abs \in Nat
  BY HubAssumption DEF HubTypeOK, Times
<1>1. ASSUME NEW s \in DOMAIN h.sess \ Expired(h)
      PROVE  now <= created[s] + (IF Unattached(h, s) THEN Ttl ELSE Abs)
  <2>1. s \in Streams
    BY SessTypes
  <2>2. created[s] \in Nat
    BY <2>1, HubAssumption DEF HubTypeOK, Times
  <2>3. ~ Tired(h, s) /\ ~ (Unattached(h, s) /\ now > created[s] + Ttl)
    BY DEF Expired
  <2> QED BY <1>n, <2>2, <2>3 DEF Tired
<1>2. ASSUME NEW k \in DOMAIN sock, sock[k].role = "pending", k \notin Late PROVE now <= sock[k].deadline
  <2>1. sock[k].deadline \in Nat /\ ~ (sock[k].deadline <= now)
    BY <1>2, SockFacts DEF Late
  <2> QED BY <1>n, <2>1
<1> QED BY <1>1, <1>2 DEF Pressing

LEMMA AlarmLimit ==
  ASSUME HubTypeOK, HubTypeOK', ColdInv, LimitInv, Alarm
  PROVE  LimitInv'
<1>i. AlarmInv /\ LinkInv /\ StoredInv /\ CreatedInv
  BY DEF LimitInv
<1>1. PICK g \in Hub :
        /\ Found(g, {})
        /\ hub' \in Hub /\ hub'.rebuilt /\ DOMAIN hub'.sess = DOMAIN g.sess \ Expired(g)
        /\ \A u \in DOMAIN hub'.sess : hub'.sess[u] = g.sess[u]
        /\ Closes(SweptSockets(g), {})
        /\ stored' = stored \ Expired(g)
        /\ alarm' = {t \in SweptAlarm(g) : t > now}
  BY AlarmEffect
<1>2. UNCHANGED <<now, created, authing, opening, stray>>
  BY DEF Alarm, awaits
<1>3. /\ DOMAIN sock' = DOMAIN sock
      /\ \A k \in DOMAIN sock : /\ sock'[k].role = sock[k].role /\ sock'[k].of = sock[k].of
                                /\ sock'[k].deadline = sock[k].deadline
                                /\ sock'[k].closing <=> sock[k].closing \/ k \in SweptSockets(g)
  BY <1>1 DEF Closes
<1>n. now \in Nat /\ Ttl \in Nat /\ Abs \in Nat /\ Ttl < Abs
  BY HubAssumption DEF HubTypeOK, Times
\* What presses is what the alarm is set for.
<1>4. ASSUME NEW p \in Pressing(g) PROVE \E t \in alarm' : t \in Nat /\ t <= p + 1
  <2>1. PICK t \in Pressing(g) : /\ t \in Nat /\ SweptAlarm(g) = {t + 1}
                                 /\ \A x \in Pressing(g) : x \in Nat /\ t <= x
    BY SweptAlarmFacts
  <2>2. now <= t
    BY PressingFuture
  <2>3. t + 1 > now /\ t + 1 <= p + 1 /\ t + 1 \in Nat
    BY <1>n, <2>1, <2>2
  <2> QED BY <1>1, <2>1, <2>3
<1>5. AlarmInv'
  <2>1. ASSUME NEW s \in Streams \ stray', Alive(s)' PROVE InTime(alarm, s)'
    <3>1. s \in DOMAIN g.sess \ Expired(g)
      BY <1>1, <2>1 DEF Alive, Known
    <3>2. created[s] + (IF Unattached(g, s) THEN Ttl ELSE Abs) \in Pressing(g)
      BY <3>1 DEF Pressing
    <3>3. PICK t \in alarm' : t \in Nat /\ t <= created[s] + (IF Unattached(g, s) THEN Ttl ELSE Abs) + 1
      BY <1>4, <3>2
    <3>4. created[s] \in Nat
      BY <2>1, HubAssumption DEF HubTypeOK, Times
    <3>5. t <= created[s] + Abs + 1
      BY <1>n, <3>3, <3>4
    <3> QED BY <1>2, <3>5 DEF InTime
  <2>2. ASSUME NEW k \in DOMAIN sock, sock[k].role = "pending"
        PROVE  /\ sock[k].deadline <= now + AuthTimeout
               /\ ~ sock'[k].closing => \E t \in alarm' : t <= sock[k].deadline + 1
    <3>1. sock[k].deadline <= now + AuthTimeout
      BY <1>i, <2>2 DEF AlarmInv
    <3>2. ASSUME ~ sock'[k].closing PROVE \E t \in alarm' : t <= sock[k].deadline + 1
      <4>1. k \notin SweptSockets(g)
        BY <1>3, <3>2
      <4>2. k \notin Late
        BY <4>1 DEF SweptSockets
      <4>3. sock[k].deadline \in Pressing(g)
        BY <2>2, <4>2 DEF Pressing
      <4> QED BY <1>4, <4>3
    <3> QED BY <3>1, <3>2
  <2> QED BY <1>2, <1>3, <2>1, <2>2 DEF AlarmInv, Open
<1>6. StoredInv'
  <2>1. stored \ {} \subseteq DOMAIN g.sess
    BY <1>i, <1>1, FoundStored
  <2> QED BY <1>1, <2>1 DEF StoredInv, Known
<1>7. LinkInv'
  <2> SUFFICES ASSUME NEW k \in DOMAIN sock, sock[k].role \in {"user", "agent"}, sock[k].of \notin stray
               PROVE  /\ \A j \in DOMAIN sock : sock[j].role = sock[k].role /\ sock[j].of = sock[k].of => j = k
                      /\ sock[k].of \in Known' => k \in Side(hub'.sess[sock[k].of], sock[k].role)
                      /\ sock[k].of \notin Known' => sock'[k].closing /\ sock[k].of \notin stored'
    BY <1>2, <1>3 DEF LinkInv, Sockets_
  <2>only. \A j \in DOMAIN sock : sock[j].role = sock[k].role /\ sock[j].of = sock[k].of => j = k
    BY <1>i DEF LinkInv, Sockets_
  <2>side. /\ sock[k].of \in DOMAIN g.sess => k \in Side(g.sess[sock[k].of], sock[k].role)
           /\ sock[k].of \notin DOMAIN g.sess => sock[k].closing /\ sock[k].of \notin stored
    BY <1>i, <1>1, FoundLink
  <2>gone. ASSUME sock[k].of \notin Known' PROVE sock'[k].closing /\ sock[k].of \notin stored'
    <3>1. CASE sock[k].of \notin DOMAIN g.sess
      BY <1>1, <1>3, <2>side, <3>1
    <3>2. CASE sock[k].of \in Expired(g)
      <4>1. sock[k].of \in DOMAIN g.sess
        BY <3>2 DEF Expired
      <4>2. k \in g.sess[sock[k].of].user \cup g.sess[sock[k].of].agent
        BY <2>side, <4>1 DEF Side
      <4>3. k \in SweptSockets(g)
        BY <3>2, <4>2, ExpiredCloses
      <4> QED BY <1>1, <1>3, <3>2, <4>3
    <3> QED BY <1>1, <2>gone, <3>1, <3>2 DEF Known
  <2> QED BY <1>1, <2>only, <2>side, <2>gone DEF Known
<1>8. CreatedInv'
  <2>known. \A u \in Known' : created[u] # 0
    BY <1>1, <1>i, FoundCreated DEF Known
  <2>sockets. \A j \in DOMAIN sock' : j \in DOMAIN sock /\ sock'[j].of = sock[j].of
    BY <1>3
  <2>kept. \A u \in Streams : u \in stored' \cup opening' => created[u] # 0
    BY <1>1, <1>2, <1>i DEF CreatedInv
  <2>clock. now' # 0
    BY <1>i, <1>2 DEF CreatedInv
  <2> QED BY <1>i, <1>2, <2>known, <2>sockets, <2>kept, <2>clock, CreatedKept
<1> QED BY <1>5, <1>6, <1>7, <1>8 DEF LimitInv

LEMMA LimitStep ==
  ASSUME "evict" \notin Faults
  PROVE  HubTypeOK /\ ColdInv /\ AuthingInv /\ LimitInv /\ [HubNext]_hubVars => LimitInv'
<1> SUFFICES ASSUME HubTypeOK, ColdInv, AuthingInv, LimitInv, [HubNext]_hubVars PROVE LimitInv'
  OBVIOUS
<1>t. HubTypeOK'
  BY HubTypesStep
<1>stream. ASSUME NEW s \in Streams, Create(s) \/ AgentAsks(s) PROVE LimitInv'
  BY <1>stream, <1>t, CreateLimit, AsksLimit
<1>both. ASSUME NEW s \in Streams, NEW k \in Sockets,
                \/ ConnectUser(s, k) \/ AuthIdentified(s, k) \/ AuthAllowed(s, k)
                \/ AgentAttaches(s, k) \/ Frame(s, k)
                \/ CheckIdentity(s, k) \/ CheckServer(s, k)
         PROVE  LimitInv'
  BY <1>both, <1>t, ConnectLimit, IdentifiedLimit, AllowedLimit, AgentLimit, FrameLimit, CheckLimit
<1>socket. ASSUME NEW k \in Sockets, AuthBegins(k) \/ SocketCloses(k) PROVE LimitInv'
  BY <1>socket, <1>t, BeginsLimit, SocketClosesLimit
<1>whole. CASE DropAgentSessions \/ DropServer \/ Alarm \/ Evict \/ Tick
  BY <1>whole, <1>t, DropAgentLimit, DropServerLimit, AlarmLimit, EvictLimit, TickLimit
<1>audited. ASSUME NEW s \in Streams, NEW k \in Sockets, Audited(s, k) PROVE LimitInv'
  BY <1>audited, StillLimit DEF Audited
<1>revoke. CASE Revoke
  BY <1>revoke, StillLimit DEF Revoke, awaits
<1>stutter. CASE UNCHANGED hubVars
  BY <1>stutter, StillLimit DEF hubVars, awaits
<1> QED BY <1>stream, <1>both, <1>socket, <1>whole, <1>audited, <1>revoke, <1>stutter DEF HubNext

\* A browser that never authenticates is closed at its deadline, and an open socket
\* of a session at the end of its longest life, by the one alarm (maybeSweep,
\* ensureAlarm, do-terminal.js:719-750), if the object is not evicted while a session
\* waits for its first socket.
THEOREM SocketsAreTimed == ASSUME "evict" \notin Faults PROVE HubSpec => []LifeIsLimited
<1> DEFINE Inv == HubTypeOK /\ ColdInv /\ AuthingInv /\ LimitInv
<1>1. HubInit => Inv
  <2> SUFFICES ASSUME HubInit PROVE Inv
    OBVIOUS
  <2>1. Known = {} /\ DOMAIN sock = {} /\ authing = {} /\ stored = {} /\ opening = {} /\ hub.rebuilt /\ now = 1
    BY NothingKnown DEF HubInit, Known
  <2>2. AuthingInv /\ LimitInv
    BY <2>1 DEF AuthingInv, LimitInv, AlarmInv, LinkInv, StoredInv, CreatedInv, Alive
  <2> QED BY <2>2, HubTypesInit
<1>2. Inv /\ [HubNext]_hubVars => Inv'
  BY HubTypesStep, AuthingStep, LimitStep
<1>3. Inv => LifeIsLimited
  <2> SUFFICES ASSUME Inv, NEW k \in DOMAIN sock, Open(k)
               PROVE  CASE sock[k].role = "pending" -> \E t \in alarm : t <= sock[k].deadline + 1
                        [] sock[k].role \in {"user", "agent"} ->
                             \/ sock[k].of \in stray
                             \/ \E t \in alarm : t <= created[sock[k].of] + Abs + 1 \/ t <= now + AuthTimeout + 1
                        [] OTHER -> TRUE
    BY DEF LifeIsLimited
  <2>pending. CASE sock[k].role = "pending"
    BY <2>pending DEF LimitInv, AlarmInv
  <2>serving. CASE sock[k].role \in {"user", "agent"} /\ sock[k].of \notin stray
    <3>1. sock[k].of \in Streams /\ ~ sock[k].closing
      BY SockFacts DEF Open
    <3>2. Alive(sock[k].of)
      <4>1. CASE hub.rebuilt
        BY <2>serving, <3>1, <4>1 DEF LimitInv, LinkInv, Alive
      <4>2. CASE ~ hub.rebuilt
        BY <2>serving, <3>1, <4>2, EndsFacts DEF Alive
      <4> QED BY <4>1, <4>2
    <3>3. InTime(alarm, sock[k].of)
      BY <2>serving, <3>1, <3>2 DEF LimitInv, AlarmInv
    <3> QED BY <2>serving, <3>3 DEF InTime
  <2>stray. CASE sock[k].role \in {"user", "agent"} /\ sock[k].of \in stray
    BY <2>stray
  <2> QED BY <2>pending, <2>serving, <2>stray
<1> QED BY <1>1, <1>2, <1>3, PTL DEF HubSpec

(* Viewers: types. *)

LEMMA TokenSets ==
  /\ Logins \subseteq Tokens /\ Pats \subseteq Tokens
  /\ \A t \in Tokens : t \in Pats <=> t \notin Logins
  /\ \A scope : Used(scope) \subseteq Tokens
BY AuthAssumption DEF Tokens, Used

\* A set of at most one element, and what a function makes of it.
LEMMA OneOf ==
  ASSUME NEW S
  PROVE  /\ {} \in AtMostOneOf(S)
         /\ \A x \in S : {x} \in AtMostOneOf(S)
         /\ \A m \in AtMostOneOf(S) : m \subseteq S /\ (m = {} \/ \E x \in S : m = {x})
BY DEF AtMostOneOf

LEMMA ImageOfOne ==
  ASSUME NEW S, NEW f \in [S -> S], NEW m \in AtMostOneOf(S)
  PROVE  {f[x] : x \in m} \in AtMostOneOf(S)
<1>1. CASE m = {}
  <2>1. {f[x] : x \in m} = {} /\ {} \in AtMostOneOf(S)
    BY <1>1, OneOf
  <2> QED BY <2>1
<1>2. ASSUME NEW y \in S, m = {y} PROVE {f[x] : x \in m} \in AtMostOneOf(S)
  <2>1. {f[x] : x \in m} = {f[y]} /\ f[y] \in S
    BY <1>2
  <2>2. {f[y]} \in AtMostOneOf(S)
    BY <2>1, OneOf
  <2> QED BY <2>1, <2>2
<1> QED BY <1>1, <1>2, OneOf

LEMMA CheckTypes ==
  /\ [pc |-> "asksFirst"] \in Checking
  /\ \A n \in 0..AuthTtl : [pc |-> "asks", age |-> n] \in Checking
  /\ \A g \in Grants \cup {"gone"} : [pc |-> "answeredFirst", grant |-> g] \in Checking
  /\ \A g \in Grants \cup {"gone"}, n \in 0..AuthTtl : [pc |-> "answered", grant |-> g, age |-> n] \in Checking
  /\ \A g \in Grants : [pc |-> "shows", grant |-> g] \in Checking
  /\ \A x \in Checking :
       /\ x.pc \in {"asks", "answered"} => x.age \in 0..AuthTtl
       /\ x.pc \in {"answeredFirst", "answered"} => x.grant \in Grants \cup {"gone"}
       /\ x.pc = "shows" => x.grant \in Grants
BY DEF Checking

LEMMA EntryTypes ==
  /\ \A g \in Grants \cup {"gone"}, n \in 0..AuthTtl : [grant |-> g, age |-> n] \in Entry
  /\ \A c \in Entry : c.grant \in Grants \cup {"gone"} /\ c.age \in 0..AuthTtl
BY DEF Entry

\* Ages and terms stay within their bounds.
LEMMA OlderTypes ==
  /\ \A n \in 0..AuthTtl : Older(n) \in 0..AuthTtl /\ n <= Older(n)
  /\ \A m, n \in 0..AuthTtl : m <= n => Older(m) <= Older(n)
  /\ \A n \in 0..ViewerTimeout : Nearer(n) \in 0..ViewerTimeout
BY AuthAssumption DEF Older, Nearer

\* What a tick makes of an entry and of a check.
OlderEntry == [c \in Entry |-> [c EXCEPT !.age = Older(@)]]
OlderCheck == [x \in Checking |-> IF x.pc = "asks" THEN [x EXCEPT !.age = Older(@)] ELSE x]

LEMMA TickTypes == OlderEntry \in [Entry -> Entry] /\ OlderCheck \in [Checking -> Checking]
<1>1. ASSUME NEW c \in Entry PROVE OlderEntry[c] \in Entry
  BY OlderTypes DEF OlderEntry, Entry
<1>2. ASSUME NEW x \in Checking PROVE OlderCheck[x] \in Checking
  <2>1. CASE x \in [pc : {"asks"}, age : 0..AuthTtl]
    BY <2>1, OlderTypes DEF OlderCheck, Checking
  <2>2. CASE x \notin [pc : {"asks"}, age : 0..AuthTtl]
    BY <2>2 DEF OlderCheck, Checking
  <2> QED BY <2>1, <2>2
<1> QED BY <1>1, <1>2 DEF OlderEntry, OlderCheck

\* JWTs grant everything or nothing; nobody with one asks D1.
LoginInv ==
  /\ \A t \in Logins : grant[t] # "some" /\ \A c \in authCache[t] : c.grant = "all" /\ grant[t] # "new"
  /\ \A v \in Viewers : who[v] \in Logins =>
       /\ socket[v] = "viewer" => grant[who[v]] # "new"
       /\ \A x \in check[v] : x.pc = "shows"

LEMMA AuthInitType == AuthInit => AuthTypeOK /\ LoginInv
<1> SUFFICES ASSUME AuthInit PROVE AuthTypeOK /\ LoginInv
  OBVIOUS
<1>1. (CHOOSE t \in Used(about) : TRUE) \in Tokens
  BY UsedAssumption, TokenSets DEF AuthInit
<1>2. 0 \in 0..ViewerTimeout /\ AuthTtl \in 0..AuthTtl
  BY AuthAssumption
<1>3. who \in [Viewers -> Tokens]
  BY <1>1 DEF AuthInit
<1>4. AuthTypeOK
  BY <1>2, <1>3 DEF AuthInit, AuthTypeOK, AtMostOneOf
<1> QED BY <1>4, TokenSets DEF AuthInit, LoginInv

LEMMA AuthNextType ==
  AuthTypeOK /\ LoginInv /\ [AuthNext]_authVars => AuthTypeOK'
<1> SUFFICES ASSUME AuthTypeOK, LoginInv, [AuthNext]_authVars PROVE AuthTypeOK'
  OBVIOUS
<1> USE TokenSets, EntryTypes, CheckTypes DEF AuthTypeOK
<1> DEFINE TokenPart == /\ about' \in AuthScopes
                        /\ grant' \in [Tokens -> Grants \cup {"new", "gone"}]
                        /\ lapse' \in [Tokens -> [Grants -> 0..AuthTtl]]
                        /\ settled' \in [Tokens -> SUBSET Grants]
                        /\ clearing' \in BOOLEAN
           CachePart == authCache' \in [Tokens -> AtMostOneOf(Entry)]
           CheckPart == check' \in [Viewers -> AtMostOneOf(Checking)]
           SocketPart == socket' \in [Viewers -> {"pending", "viewer", "closed"}]
           PendingPart == /\ who' \in [Viewers -> Tokens]
                          /\ deadline' \in [Viewers -> 0..ViewerTimeout]
                          /\ authAlarm' \in AtMostOneOf(0..ViewerTimeout)
                          /\ untimed' \in SUBSET Viewers
           Parts == TokenPart /\ CachePart /\ CheckPart /\ SocketPart /\ PendingPart
<1> SUFFICES Parts
  OBVIOUS
<1>a. /\ {} \in AtMostOneOf(Checking) /\ \A x \in Checking : {x} \in AtMostOneOf(Checking)
      /\ {} \in AtMostOneOf(Entry) /\ \A e \in Entry : {e} \in AtMostOneOf(Entry)
      /\ {} \in AtMostOneOf(0..ViewerTimeout)
      /\ \A n \in 0..ViewerTimeout : {n} \in AtMostOneOf(0..ViewerTimeout)
  BY OneOf
<1>b. ASSUME NEW t \in Tokens PROVE authCache[t] \subseteq Entry
  BY OneOf
<1>d. ASSUME NEW v \in Viewers PROVE check[v] \subseteq Checking
  BY OneOf
<1>z. 0 \in 0..AuthTtl
  BY AuthAssumption
<1>t. UNCHANGED <<tokenVars, clearing>> => TokenPart
  BY DEF tokenVars
<1>c. UNCHANGED authCache => CachePart
  OBVIOUS
<1>e. ASSUME NEW v \in Viewers, NEW e \in Entry, Remember(v, e) PROVE CachePart
  BY <1>a, <1>e DEF Remember
<1>k. UNCHANGED check => CheckPart
  OBVIOUS
<1>x. ASSUME NEW v \in Viewers, Done(v) \/ \E x \in Checking : Checks(v, x) PROVE CheckPart
  BY <1>a, <1>x DEF Done, Checks
<1>s. UNCHANGED socket => SocketPart
  OBVIOUS
<1>o. ASSUME NEW S, CloseViewers(S) PROVE SocketPart
  BY <1>o DEF CloseViewers
<1>p. UNCHANGED pendingVars => PendingPart
  BY DEF pendingVars
<1>token. ASSUME NEW t \in Tokens, Issue(t) \/ Expire(t) \/ Change(t) PROVE Parts
  <2>1. PICK g \in Grants \cup {"gone"} : Grant(t, g)
    BY <1>token DEF Issue, Expire, Change, Grants
  <2>2. clearing' \in BOOLEAN
    BY <1>token DEF Issue, Expire, Change
  <2>3. TokenPart
    BY <2>1, <2>2, AuthAssumption DEF Grant
  <2> QED BY <2>1, <2>3, <1>c, <1>k, <1>s, <1>p DEF Grant
<1>clear. CASE ClearAuthCache
  <2>1. TokenPart
    <3>1. settled' \in [Tokens -> SUBSET Grants]
      <4>1. ASSUME NEW t \in Tokens PROVE (IF Crosses(t) THEN settled[t] ELSE Grants \ {grant[t]}) \in SUBSET Grants
        <5>1. CASE Crosses(t)
          BY <5>1
        <5>2. CASE ~ Crosses(t)
          BY <5>2
        <5> QED BY <5>1, <5>2
      <4>2. \/ settled' = settled
            \/ settled' = [t \in Tokens |-> IF Crosses(t) THEN settled[t] ELSE Grants \ {grant[t]}]
        BY <1>clear DEF ClearAuthCache
      <4>3. [t \in Tokens |-> IF Crosses(t) THEN settled[t] ELSE Grants \ {grant[t]}] \in [Tokens -> SUBSET Grants]
        BY <4>1, Zenon
      <4> QED BY <4>2, <4>3
    <3> QED BY <1>clear, <3>1, <1>t DEF ClearAuthCache, tokenVars
  <2>2. CachePart
    BY <1>clear, <1>a DEF ClearAuthCache
  <2> QED BY <1>clear, <2>1, <2>2, <1>k, <1>s, <1>p DEF ClearAuthCache
<1>connect. ASSUME NEW v \in Viewers, Connect(v) PROVE Parts
  <2>1. ViewerTimeout \in 0..ViewerTimeout
    BY AuthAssumption
  <2>2. PendingPart
    <3>1. who' \in [Viewers -> Tokens] /\ untimed' \in SUBSET Viewers
      BY <1>connect DEF Connect
    <3>2. deadline' \in [Viewers -> 0..ViewerTimeout]
      BY <1>connect, <2>1 DEF Connect
    <3>3. authAlarm' = authAlarm \/ authAlarm' = {ViewerTimeout}
      BY <1>connect DEF Connect, Scheduled
    <3>4. authAlarm' \in AtMostOneOf(0..ViewerTimeout)
      BY <1>a, <2>1, <3>3
    <3> QED BY <3>1, <3>2, <3>4
  <2>3. SocketPart
    BY <1>connect DEF Connect
  <2> QED BY <1>connect, <2>2, <2>3, <1>t, <1>c, <1>k DEF Connect
<1>admit. ASSUME NEW v \in Viewers, NEW g \in Grants, Admit(v, g) PROVE CachePart /\ SocketPart
  <2>1. [grant |-> g, age |-> 0] \in Entry
    BY <1>z
  <2> QED BY <1>admit, <1>e, <2>1 DEF Admit
<1>first. ASSUME NEW v \in Viewers, FirstFrame(v) PROVE Parts
  <2>1. CachePart /\ SocketPart /\ CheckPart
    BY <1>first, <1>admit, <1>c, <1>k, <1>s, <1>x DEF FirstFrame
  <2> QED BY <1>first, <2>1, <1>t, <1>p DEF FirstFrame
<1>leaves. ASSUME NEW v \in Viewers, BadFrame(v) \/ Leaves(v) PROVE Parts
  BY <1>leaves, <1>o, <1>t, <1>c, <1>k, <1>p DEF BadFrame, Leaves, CloseViewer
<1>alarm. CASE AlarmFires
  <2>1. ASSUME NEW S \in SUBSET Viewers, S # {} PROVE Rearmed(S) \in AtMostOneOf(0..ViewerTimeout)
    <3> DEFINE D == {deadline[v] : v \in S}
    <3>1. D \subseteq 0..ViewerTimeout /\ D # {}
      BY <2>1
    <3> HIDE DEF D
    <3>2. D \subseteq Nat
      BY <3>1
    <3>3. Min(D) \in D
      BY <3>1, <3>2, MinBounds
    <3>4. Rearmed(S) = {Min(D)}
      BY <2>1 DEF Rearmed, D
    <3> QED BY <1>a, <3>1, <3>3, <3>4
  <2>2. {} \in AtMostOneOf(0..ViewerTimeout) /\ Rearmed({}) = {}
    BY <1>a DEF Rearmed
  <2>3. PendingPart
    <3>1. PICK S \in SUBSET Viewers : authAlarm' \in {{}, Rearmed(S)} /\ untimed' \in {untimed, untimed \cup S}
      <4> DEFINE left == {v \in Pending : deadline[v] > 0}
      <4>1. left \in SUBSET Viewers
        BY DEF Pending
      <4>2. authAlarm' \in {{}, Rearmed(left)} /\ untimed' \in {untimed, untimed \cup left}
        BY <1>alarm DEF AlarmFires
      <4> QED BY <4>1, <4>2
    <3>2. authAlarm' \in AtMostOneOf(0..ViewerTimeout)
      BY <2>1, <2>2, <3>1
    <3> QED BY <1>alarm, <3>1, <3>2 DEF AlarmFires
  <2> QED BY <1>alarm, <2>3, <1>o, <1>t, <1>c, <1>k DEF AlarmFires
<1>asks. ASSUME NEW v \in Viewers, Asks(v) PROVE Parts
  <2>view. ASSUME NEW g \in Grants \cup {"gone"}, ShowsOrCloses(v, g) PROVE CheckPart /\ SocketPart
    BY <2>view, <1>s, <1>o, <1>x DEF ShowsOrCloses, CloseViewer
  <2>closes. CASE who[v] \in Logins /\ grant[who[v]] = "gone" /\ CloseViewer(v) /\ UNCHANGED <<check, authCache>>
    BY <1>asks, <2>closes, <1>t, <1>c, <1>k, <1>o, <1>p DEF Asks, CloseViewer
  <2>hit. ASSUME NEW c \in Usable(who[v]), ShowsOrCloses(v, c.grant), Hit(v, c) PROVE Parts
    <3>1. c.grant \in Grants \cup {"gone"}
      BY <1>b DEF Usable
    <3> QED BY <1>asks, <2>view, <2>hit, <3>1, <1>t, <1>c, <1>p DEF Asks, Hit
  <2>asks. CASE Checks(v, [pc |-> "asks", age |-> 0]) /\ UNCHANGED <<socket, authCache>>
    <3>1. [pc |-> "asks", age |-> 0] \in Checking
      BY <1>z
    <3> QED BY <1>asks, <2>asks, <3>1, <1>t, <1>c, <1>s, <1>x, <1>p DEF Asks
  <2>miss. CASE /\ who[v] \in Logins /\ grant[who[v]] # "gone"
                /\ ShowsOrCloses(v, grant[who[v]]) /\ Remember(v, [grant |-> grant[who[v]], age |-> 0])
    <3>1. grant[who[v]] \in Grants
      BY <1>asks, <2>miss DEF Asks, LoginInv, Grants
    <3>2. [grant |-> grant[who[v]], age |-> 0] \in Entry
      BY <3>1, <1>z
    <3> QED BY <1>asks, <2>view, <2>miss, <3>1, <3>2, <1>t, <1>e, <1>p DEF Asks
  <2> QED BY <1>asks, <2>closes, <2>hit, <2>asks, <2>miss DEF Asks
<1>answers. ASSUME NEW v \in Viewers, D1Answers(v) PROVE Parts
  <2>answer. Granted(who[v]) \in Grants \cup {"gone"}
    BY DEF Granted
  <2>picked. PICK x \in check[v] : \/ Checks(v, [pc |-> "answeredFirst", grant |-> Granted(who[v])])
                                   \/ /\ x.pc = "asks"
                                      /\ Checks(v, [pc |-> "answered", grant |-> Granted(who[v]), age |-> x.age])
                                   \/ Done(v)
    BY <1>answers DEF D1Answers
  <2>typed. x \in Checking
    BY <1>d
  <2>check. CheckPart
    BY <2>answer, <2>picked, <2>typed, <1>x
  <2> QED BY <1>answers, <2>check, <1>t, <1>c, <1>s, <1>p DEF D1Answers
<1>takes. ASSUME NEW v \in Viewers, TakesAnswer(v) PROVE Parts
  <2>picked. PICK x \in check[v] :
                \/ /\ x.pc = "answeredFirst" /\ Done(v)
                   /\ IF x.grant = "gone" THEN CloseViewer(v) /\ UNCHANGED authCache ELSE Admit(v, x.grant)
                \/ /\ x.pc = "answered"
                   /\ Remember(v, [grant |-> x.grant, age |-> x.age])
                   /\ ShowsOrCloses(v, x.grant)
    BY <1>takes DEF TakesAnswer
  <2>typed. x \in Checking
    BY <1>d
  <2>first. CASE x.pc = "answeredFirst"
    BY <1>takes, <2>picked, <2>typed, <2>first, <1>admit, <1>o, <1>t, <1>c, <1>x, <1>p DEF
       TakesAnswer, CloseViewer
  <2>later. CASE x.pc = "answered"
    <3>1. [grant |-> x.grant, age |-> x.age] \in Entry
      BY <2>typed, <2>later
    <3> QED BY <1>takes, <2>picked, <2>typed, <2>later, <3>1, <1>e, <1>o, <1>s, <1>t, <1>x, <1>p
            DEF TakesAnswer, ShowsOrCloses, CloseViewer
  <2> QED BY <2>picked, <2>first, <2>later
<1>shows. ASSUME NEW v \in Viewers, Shows(v) PROVE Parts
  BY <1>shows, <1>t, <1>c, <1>s, <1>x, <1>p DEF Shows
<1>hibernates. CASE Hibernates
  <2>1. CachePart
    BY <1>hibernates, <1>a DEF Hibernates
  <2> QED BY <1>hibernates, <2>1, <1>t, <1>k, <1>s, <1>p DEF Hibernates
<1>tick. CASE AuthTick
  <2>cache. CachePart
    <3>1. ASSUME NEW t \in Tokens PROVE authCache'[t] \in AtMostOneOf(Entry)
      <4>1. authCache'[t] = {OlderEntry[c] : c \in authCache[t]}
        BY <1>tick, <1>b DEF AuthTick, OlderEntry
      <4>2. authCache[t] \in AtMostOneOf(Entry)
        OBVIOUS
      <4>3. {OlderEntry[c] : c \in authCache[t]} \in AtMostOneOf(Entry)
        BY ONLY <4>2, TickTypes, ImageOfOne, Zenon
      <4> QED BY <4>1, <4>3
    <3> QED BY <1>tick, <3>1 DEF AuthTick
  <2>check. CheckPart
    <3>1. ASSUME NEW v \in Viewers PROVE check'[v] \in AtMostOneOf(Checking)
      <4>1. check'[v] = {OlderCheck[x] : x \in check[v]}
        BY <1>tick, <1>d DEF AuthTick, OlderCheck
      <4>2. check[v] \in AtMostOneOf(Checking)
        OBVIOUS
      <4>3. {OlderCheck[x] : x \in check[v]} \in AtMostOneOf(Checking)
        BY ONLY <4>2, TickTypes, ImageOfOne, Zenon
      <4> QED BY <4>1, <4>3
    <3> QED BY <1>tick, <3>1 DEF AuthTick
  <2>tokens. TokenPart
    BY <1>tick, OlderTypes DEF AuthTick
  <2>pending. PendingPart
    <3> DEFINE F == [a \in 0..ViewerTimeout |-> Nearer(a)]
    <3>1. authAlarm' \in AtMostOneOf(0..ViewerTimeout)
      <4>1. F \in [0..ViewerTimeout -> 0..ViewerTimeout]
        BY OlderTypes
      <4>2. authAlarm' = {F[a] : a \in authAlarm}
        <5>1. authAlarm \subseteq 0..ViewerTimeout
          BY OneOf
        <5> QED BY <1>tick, <5>1 DEF AuthTick
      <4>3. authAlarm \in AtMostOneOf(0..ViewerTimeout)
        OBVIOUS
      <4> HIDE DEF F
      <4>4. {F[a] : a \in authAlarm} \in AtMostOneOf(0..ViewerTimeout)
        BY ONLY <4>1, <4>3, ImageOfOne, Zenon
      <4> QED BY <4>2, <4>4
    <3> QED BY <1>tick, <3>1, OlderTypes DEF AuthTick
  <2> QED BY <1>tick, <2>cache, <2>check, <2>tokens, <2>pending, <1>s DEF AuthTick
<1>stutter. CASE UNCHANGED authVars
  BY <1>stutter, <1>t, <1>c, <1>k, <1>s, <1>p DEF authVars
<1> QED BY <1>token, <1>clear, <1>connect, <1>first, <1>leaves, <1>alarm, <1>asks, <1>answers,
           <1>takes, <1>shows, <1>hibernates, <1>tick, <1>stutter DEF AuthNext

LEMMA NextLogin == AuthTypeOK /\ LoginInv /\ [AuthNext]_authVars => LoginInv'
<1> SUFFICES ASSUME AuthTypeOK, LoginInv, [AuthNext]_authVars PROVE LoginInv'
  OBVIOUS
<1> USE TokenSets DEF AuthTypeOK, LoginInv
<1>token. ASSUME NEW t \in Tokens, Issue(t) \/ Expire(t) \/ Change(t) PROVE LoginInv'
  <2>change. PICK g \in Grants \cup {"gone"} : Grant(t, g) /\ (t \in Logins => g # "some")
    BY <1>token DEF Issue, Expire, Change, Grants
  <2>rest. UNCHANGED <<authCache, check, socket, who>> /\ grant' = [grant EXCEPT ![t] = g]
    BY <2>change DEF Grant, pendingVars
  <2>newer. \A u \in Tokens : grant'[u] = "new" => grant[u] = "new"
    BY <2>rest DEF Grants
  <2>some. \A u \in Logins : grant'[u] # "some"
    BY <2>change, <2>rest
  <2> QED BY <2>rest, <2>newer, <2>some
<1>clear. CASE ClearAuthCache \/ Hibernates
  BY <1>clear DEF ClearAuthCache, Hibernates, tokenVars, pendingVars
<1>connect. ASSUME NEW v \in Viewers, Connect(v) PROVE LoginInv'
  BY <1>connect DEF Connect, tokenVars
<1>first. ASSUME NEW v \in Viewers, FirstFrame(v) PROVE LoginInv'
  <2>rest. UNCHANGED <<grant, who>>
    BY <1>first DEF FirstFrame, tokenVars, pendingVars
  <2>2. CASE who[v] \in Pats
    BY <1>first, <2>rest, <2>2 DEF FirstFrame, Checks
  <2>login. CASE who[v] \in Logins
    <3>1. grant[who[v]] = "all"
      BY <1>first, <2>login DEF FirstFrame, Grants
    <3>2. \A u \in Viewers : u # v => socket'[u] = socket[u]
      BY <1>first, <2>login DEF FirstFrame, Admit
    <3>3. UNCHANGED check /\ authCache' = [authCache EXCEPT ![who[v]] = {[grant |-> "all", age |-> 0]}]
      BY <1>first, <2>login, <3>1 DEF FirstFrame, Admit, Remember
    <3> QED BY <2>rest, <2>login, <3>1, <3>2, <3>3
  <2> QED BY <2>2, <2>login
<1>leaves. ASSUME NEW v \in Viewers, BadFrame(v) \/ Leaves(v) \/ Shows(v) PROVE LoginInv'
  BY <1>leaves DEF BadFrame, Leaves, Shows, CloseViewer, CloseViewers, Done, tokenVars, pendingVars
<1>alarm. CASE AlarmFires
  BY <1>alarm DEF AlarmFires, CloseViewers, tokenVars
<1>asks. ASSUME NEW v \in Viewers, Asks(v) PROVE LoginInv'
  <2>rest. UNCHANGED <<grant, who>> /\ socket[v] = "viewer"
    BY <1>asks DEF Asks, tokenVars, pendingVars
  <2>viewers. \A u \in Viewers : socket'[u] = "viewer" => socket[u] = "viewer"
    BY <1>asks DEF Asks, ShowsOrCloses, CloseViewer, CloseViewers
  <2>own. ASSUME NEW u \in Viewers, who[u] \in Logins PROVE \A x \in check'[u] : x.pc = "shows"
    <3>1. CASE u # v
      BY <1>asks, <2>own, <3>1 DEF Asks, ShowsOrCloses, Checks, Done
    <3>2. CASE u = v
      BY <1>asks, <2>own, <3>2 DEF Asks, ShowsOrCloses, Checks, Done
    <3> QED BY <3>1, <3>2
  <2>logins. ASSUME NEW t \in Logins, NEW c \in authCache'[t] PROVE c.grant = "all" /\ grant[t] # "new"
    <3>1. CASE c \in authCache[t]
      BY <3>1
    <3>2. CASE c \notin authCache[t]
      <4>1. t = who[v] /\ c = [grant |-> grant[t], age |-> 0] /\ grant[t] # "gone"
        BY <1>asks, <2>logins, <3>2 DEF Asks, Hit, Remember
      <4> QED BY <2>rest, <4>1 DEF Grants
    <3> QED BY <3>1, <3>2
  <2> QED BY <2>rest, <2>viewers, <2>own, <2>logins
<1>answers. ASSUME NEW v \in Viewers, D1Answers(v) PROVE LoginInv'
  BY <1>answers DEF D1Answers, Checks, Done, tokenVars, pendingVars
<1>takes. ASSUME NEW v \in Viewers, TakesAnswer(v) PROVE LoginInv'
  <2>rest. UNCHANGED <<grant, who>> /\ who[v] \notin Logins
    BY <1>takes DEF TakesAnswer, tokenVars, pendingVars
  <2>others. \A u \in Viewers : u # v => socket'[u] = socket[u] /\ check'[u] = check[u]
    BY <1>takes DEF TakesAnswer, Admit, ShowsOrCloses, CloseViewer, CloseViewers, Checks, Done
  <2>tokens. \A t \in Tokens : t # who[v] => authCache'[t] = authCache[t]
    BY <1>takes DEF TakesAnswer, Admit, Remember
  <2> QED BY <2>rest, <2>others, <2>tokens
<1>tick. CASE AuthTick
  <2>rest. UNCHANGED <<grant, socket, who>>
    BY <1>tick DEF AuthTick
  <2>cached. ASSUME NEW t \in Logins, NEW c \in authCache'[t] PROVE c.grant = "all" /\ grant[t] # "new"
    <3>1. authCache'[t] = {[e EXCEPT !.age = Older(@)] : e \in authCache[t]}
      BY <1>tick DEF AuthTick
    <3>2. PICK e \in authCache[t] : c = [e EXCEPT !.age = Older(@)]
      BY <2>cached, <3>1
    <3>3. e \in Entry
      BY OneOf
    <3> QED BY <3>2, <3>3 DEF Entry
  <2>checked. ASSUME NEW v \in Viewers, who[v] \in Logins, NEW x \in check'[v] PROVE x.pc = "shows"
    <3>1. check'[v] = {IF y.pc = "asks" THEN [y EXCEPT !.age = Older(@)] ELSE y : y \in check[v]}
      BY <1>tick DEF AuthTick
    <3> QED BY <2>checked, <3>1
  <2> QED BY <2>rest, <2>cached, <2>checked
<1>stutter. CASE UNCHANGED authVars
  BY <1>stutter DEF authVars
<1> QED BY <1>token, <1>clear, <1>connect, <1>first, <1>leaves, <1>alarm, <1>asks, <1>answers,
           <1>takes, <1>tick, <1>stutter DEF AuthNext

LEMMA AuthTypeInductive == AuthSpec => [](AuthTypeOK /\ LoginInv)
BY AuthInitType, AuthNextType, NextLogin, PTL DEF AuthSpec

\* Tokens, cache, checks, sockets and alarm keep their types.
THEOREM AuthTypeCorrect == AuthSpec => []AuthTypeOK
BY AuthTypeInductive, PTL

(* Viewers: what may still be shown. *)

\* If t does not grant g, it did so that many ticks ago at most, and g need not be out
\* of the cache.
Recent(t, g, age) == g \in Grants /\ g # grant[t] => lapse[t][g] <= age /\ g \notin settled[t]

GrantInv == \A t \in Tokens : grant[t] \notin settled[t]
CacheInv == \A t \in Tokens : \A c \in authCache[t] : Recent(t, c.grant, c.age)
AnswerInv == \A v \in Viewers : \A x \in check[v] : x.pc \in Answered => Recent(who[v], x.grant, 0)
FreshInv == GrantInv /\ CacheInv /\ AnswerInv

LEMMA ElementTypes ==
  ASSUME AuthTypeOK
  PROVE  /\ \A t \in Tokens : \A c \in authCache[t] : c \in Entry
         /\ \A v \in Viewers : \A x \in check[v] : x \in Checking
<1>1. ASSUME NEW t \in Tokens PROVE authCache[t] \subseteq Entry
  BY OneOf DEF AuthTypeOK
<1>2. ASSUME NEW v \in Viewers PROVE check[v] \subseteq Checking
  BY OneOf DEF AuthTypeOK
<1> QED BY <1>1, <1>2

\* What is recent stays so when a token changes: what it granted until now lapses now.
LEMMA GrantKeeps ==
  ASSUME AuthTypeOK, GrantInv, NEW t \in Tokens, NEW g \in Grants \cup {"gone"}, Grant(t, g),
         NEW u \in Tokens, NEW h, NEW n \in Nat, Recent(u, h, n)
  PROVE  Recent(u, h, n)' /\ grant'[u] \notin settled'[u]
<1> USE DEF AuthTypeOK, GrantInv, Recent
<1>1. CASE u # t
  BY <1>1 DEF Grant
<1>2. CASE u = t
  <2>1. grant'[t] = g /\ settled'[t] = settled[t] \ {g}
    BY DEF Grant
  <2>2. \A k \in Grants : lapse'[t][k] = IF k \in {g, grant[t]} THEN 0 ELSE lapse[t][k]
    BY DEF Grant
  <2> QED BY <1>2, <2>1, <2>2
<1> QED BY <1>1, <1>2

LEMMA NextFresh == AuthTypeOK /\ LoginInv /\ FreshInv /\ [AuthNext]_authVars => FreshInv'
<1> SUFFICES ASSUME AuthTypeOK, LoginInv, FreshInv, [AuthNext]_authVars PROVE FreshInv'
  OBVIOUS
<1> USE TokenSets DEF FreshInv
<1>w. who \in [Viewers -> Tokens]
  BY DEF AuthTypeOK
<1>t. ASSUME UNCHANGED tokenVars PROVE /\ GrantInv'
                                      /\ \A t, g, n : Recent(t, g, n)' <=> Recent(t, g, n)
  BY <1>t DEF tokenVars, GrantInv, Recent
<1>token. ASSUME NEW t \in Tokens, Issue(t) \/ Expire(t) \/ Change(t) PROVE FreshInv'
  <2>change. PICK g \in Grants \cup {"gone"} : Grant(t, g)
    BY <1>token DEF Issue, Expire, Change, Grants
  <2>rest. UNCHANGED <<authCache, check, who>>
    BY <2>change DEF Grant, pendingVars
  <2>grants. GrantInv'
    <3>1. ASSUME NEW u \in Tokens PROVE grant'[u] \notin settled'[u]
      BY <2>change, GrantKeeps DEF Recent
    <3> QED BY <3>1 DEF GrantInv
  <2>cached. CacheInv'
    <3>1. ASSUME NEW u \in Tokens, NEW c \in authCache[u] PROVE Recent(u, c.grant, c.age)'
      <4>1. c.age \in Nat /\ Recent(u, c.grant, c.age)
        BY ElementTypes, EntryTypes DEF CacheInv
      <4> QED BY <2>change, <4>1, GrantKeeps
    <3> QED BY <2>rest, <3>1 DEF CacheInv
  <2>answers. AnswerInv'
    <3>1. ASSUME NEW v \in Viewers, NEW x \in check[v], x.pc \in Answered PROVE Recent(who[v], x.grant, 0)'
      <4>1. Recent(who[v], x.grant, 0)
        BY <3>1 DEF AnswerInv
      <4> QED BY <1>w, <2>change, <2>rest, <4>1, GrantKeeps
    <3> QED BY <2>rest, <3>1 DEF AnswerInv
  <2> QED BY <2>grants, <2>cached, <2>answers
<1>clear. CASE ClearAuthCache
  <2>rest. UNCHANGED <<grant, lapse, check, who>>
    BY <1>clear DEF ClearAuthCache, pendingVars
  <2>settled. ASSUME NEW t \in Tokens PROVE grant'[t] \notin settled'[t]
    <3>1. settled'[t] = settled[t] \/ settled'[t] = Grants \ {grant[t]}
      BY <1>clear DEF ClearAuthCache, AuthTypeOK
    <3> QED BY <2>rest, <3>1 DEF GrantInv
  <2>cached. CacheInv'
    <3>1. CASE UNCHANGED <<authCache, settled>>
      BY <2>rest, <3>1 DEF CacheInv, Recent
    <3>2. CASE authCache' = [t \in Tokens |-> {}]
      BY <3>2 DEF CacheInv
    <3> QED BY <1>clear, <3>1, <3>2 DEF ClearAuthCache
  <2>answered. ASSUME NEW v \in Viewers, NEW x \in check[v], x.pc \in Answered PROVE Recent(who[v], x.grant, 0)'
    <3>1. Crosses(who[v]) /\ Recent(who[v], x.grant, 0)
      BY <2>answered DEF Crosses, AnswerInv
    <3>2. settled'[who[v]] = settled[who[v]]
      BY <1>clear, <1>w, <3>1 DEF ClearAuthCache, AuthTypeOK
    <3> QED BY <2>rest, <3>1, <3>2 DEF Recent
  <2> QED BY <2>rest, <2>settled, <2>cached, <2>answered DEF GrantInv, AnswerInv
<1>connect. ASSUME NEW v \in Viewers, Connect(v) PROVE FreshInv'
  <2>rest. UNCHANGED <<tokenVars, authCache, check>> /\ check[v] = {} /\ \A u \in Viewers : u # v => who'[u] = who[u]
    BY <1>connect DEF Connect, AuthTypeOK
  <2>cached. CacheInv'
    BY <1>t, <2>rest DEF CacheInv
  <2>answers. AnswerInv'
    BY <1>t, <2>rest DEF AnswerInv
  <2> QED BY <1>t, <2>rest, <2>cached, <2>answers
<1>first. ASSUME NEW v \in Viewers, FirstFrame(v) PROVE FreshInv'
  <2>rest. UNCHANGED <<tokenVars, who>>
    BY <1>first DEF FirstFrame, pendingVars
  <2>cached. CacheInv'
    <3>1. UNCHANGED authCache \/ authCache' = [authCache EXCEPT ![who[v]] = {[grant |-> grant[who[v]], age |-> 0]}]
      BY <1>first DEF FirstFrame, Admit, Remember
    <3>2. ASSUME NEW t \in Tokens, NEW c \in authCache'[t] PROVE Recent(t, c.grant, c.age)
      <4>1. CASE c \in authCache[t]
        BY <4>1 DEF CacheInv
      <4>2. CASE c \notin authCache[t]
        <5>1. t = who[v] /\ c = [grant |-> grant[t], age |-> 0]
          BY <3>1, <3>2, <4>2 DEF AuthTypeOK
        <5> QED BY <5>1 DEF Recent
      <4> QED BY <4>1, <4>2
    <3> QED BY <1>t, <2>rest, <3>2 DEF CacheInv
  <2>answers. AnswerInv'
    <3>1. /\ \A u \in Viewers : u # v => check'[u] = check[u]
          /\ \A x \in check'[v] : x \in check[v] \/ x.pc = "asksFirst"
      BY <1>first DEF FirstFrame, Checks, AuthTypeOK
    <3> QED BY <1>t, <2>rest, <3>1 DEF AnswerInv, Answered
  <2> QED BY <1>t, <2>rest, <2>cached, <2>answers
<1>same. ASSUME UNCHANGED <<tokenVars, who, authCache>>,
                UNCHANGED check \/ \E v \in Viewers : Done(v)
         PROVE  FreshInv'
  BY <1>same, <1>t DEF CacheInv, AnswerInv, Done, AuthTypeOK
<1>asks. ASSUME NEW v \in Viewers, Asks(v) PROVE FreshInv'
  <2>rest. UNCHANGED <<tokenVars, who>>
    BY <1>asks DEF Asks, pendingVars
  <2>cached. CacheInv'
    <3>1. UNCHANGED authCache \/ authCache' = [authCache EXCEPT ![who[v]] = {[grant |-> grant[who[v]], age |-> 0]}]
      BY <1>asks DEF Asks, Hit, Remember
    <3>2. ASSUME NEW t \in Tokens, NEW c \in authCache'[t] PROVE Recent(t, c.grant, c.age)
      <4>1. CASE c \in authCache[t]
        BY <4>1 DEF CacheInv
      <4>2. CASE c \notin authCache[t]
        <5>1. t = who[v] /\ c = [grant |-> grant[t], age |-> 0]
          BY <3>1, <3>2, <4>2 DEF AuthTypeOK
        <5> QED BY <5>1 DEF Recent
      <4> QED BY <4>1, <4>2
    <3> QED BY <1>t, <2>rest, <3>2 DEF CacheInv
  <2>answers. AnswerInv'
    <3>1. /\ \A u \in Viewers : u # v => check'[u] = check[u]
          /\ \A x \in check'[v] : x \in check[v] \/ x.pc \in {"asks", "shows"}
      BY <1>asks DEF Asks, ShowsOrCloses, Checks, Done, AuthTypeOK
    <3> QED BY <1>t, <2>rest, <3>1 DEF AnswerInv, Answered
  <2> QED BY <1>t, <2>rest, <2>cached, <2>answers
<1>answers. ASSUME NEW v \in Viewers, D1Answers(v) PROVE FreshInv'
  <2>rest. UNCHANGED <<tokenVars, authCache, who>>
    BY <1>answers DEF D1Answers, pendingVars
  <2>one. /\ \A u \in Viewers : u # v => check'[u] = check[u]
          /\ \A x \in check'[v] : x.grant = Granted(who[v])
    BY <1>answers DEF D1Answers, Checks, Done, AuthTypeOK
  <2>recent. Recent(who[v], Granted(who[v]), 0)
    BY DEF Recent, Granted, Grants
  <2>answers. AnswerInv'
    BY <1>t, <2>rest, <2>one, <2>recent DEF AnswerInv
  <2> QED BY <1>t, <2>rest, <2>answers DEF CacheInv
<1>takes. ASSUME NEW v \in Viewers, TakesAnswer(v) PROVE FreshInv'
  <2>rest. UNCHANGED <<tokenVars, who>>
    BY <1>takes DEF TakesAnswer, pendingVars
  <2>cached. CacheInv'
    <3>1. \/ UNCHANGED authCache
          \/ \E x \in check[v], n \in Nat : /\ x.pc \in Answered
                                          /\ authCache' = [authCache EXCEPT ![who[v]] = {[grant |-> x.grant, age |-> n]}]
      <4>1. \A x \in check[v] : x.pc = "answered" => x.age \in Nat
        BY ElementTypes, CheckTypes
      <4> QED BY <1>takes, <4>1 DEF TakesAnswer, Admit, Remember, Answered
    <3>2. CASE UNCHANGED authCache
      BY <1>t, <2>rest, <3>2 DEF CacheInv
    <3>3. ASSUME NEW x \in check[v], NEW n \in Nat, x.pc \in Answered,
                 authCache' = [authCache EXCEPT ![who[v]] = {[grant |-> x.grant, age |-> n]}]
          PROVE  CacheInv'
      <4>1. Recent(who[v], x.grant, 0)
        BY <3>3 DEF AnswerInv
      <4>2. Recent(who[v], x.grant, n)
        BY <1>w, <4>1 DEF Recent, AuthTypeOK
      <4>3. ASSUME NEW t \in Tokens, NEW c \in authCache'[t] PROVE Recent(t, c.grant, c.age)
        BY <3>3, <4>2, <4>3 DEF CacheInv, AuthTypeOK
      <4> QED BY <1>t, <2>rest, <4>3 DEF CacheInv
    <3> QED BY <3>1, <3>2, <3>3
  <2>answers. AnswerInv'
    <3>1. /\ \A u \in Viewers : u # v => check'[u] = check[u]
          /\ \A x \in check'[v] : x.pc = "shows"
      BY <1>takes DEF TakesAnswer, ShowsOrCloses, Checks, Done, AuthTypeOK
    <3> QED BY <1>t, <2>rest, <3>1 DEF AnswerInv, Answered
  <2> QED BY <1>t, <2>rest, <2>cached, <2>answers
<1>hibernates. CASE Hibernates
  <2>1. UNCHANGED <<tokenVars, who, check>> /\ authCache' = [t \in Tokens |-> {}]
    BY <1>hibernates DEF Hibernates, pendingVars
  <2> QED BY <1>t, <2>1 DEF CacheInv, AnswerInv
<1>tick. CASE AuthTick
  <2>rest. UNCHANGED <<grant, settled, who>>
    BY <1>tick DEF AuthTick
  <2>cached. ASSUME NEW t \in Tokens, NEW c \in authCache'[t] PROVE Recent(t, c.grant, c.age)'
    <3>1. PICK e \in authCache[t] : c = [e EXCEPT !.age = Older(@)]
      BY <1>tick, <2>cached DEF AuthTick
    <3>2. e \in Entry
      BY ElementTypes
    <3>3. c.grant = e.grant /\ c.age = Older(e.age) /\ e.age \in 0..AuthTtl
      BY <3>1, <3>2 DEF Entry
    <3>4. \A g \in Grants : g # grant[t] => lapse'[t][g] = Older(lapse[t][g]) /\ lapse[t][g] \in 0..AuthTtl
      BY <1>tick DEF AuthTick, AuthTypeOK
    <3>5. Recent(t, e.grant, e.age)
      BY DEF CacheInv
    <3> QED BY <2>rest, <3>3, <3>4, <3>5, OlderTypes DEF Recent
  <2>checked. ASSUME NEW v \in Viewers, NEW x \in check'[v] PROVE x.pc \notin Answered
    <3>1. check'[v] = {IF y.pc = "asks" THEN [y EXCEPT !.age = Older(@)] ELSE y : y \in check[v]}
      BY <1>tick DEF AuthTick
    <3>2. PICK y \in check[v] : x = IF y.pc = "asks" THEN [y EXCEPT !.age = Older(@)] ELSE y
      BY <2>checked, <3>1
    <3>3. y.pc \notin Answered
      BY <1>tick DEF AuthTick
    <3>4. CASE y.pc # "asks"
      BY <3>2, <3>3, <3>4
    <3>5. CASE y.pc = "asks"
      BY <3>2, <3>5, ElementTypes DEF Checking, Answered
    <3> QED BY <3>4, <3>5
  <2> QED BY <2>rest, <2>cached, <2>checked DEF GrantInv, CacheInv, AnswerInv
<1>leaves. ASSUME NEW v \in Viewers, BadFrame(v) \/ Leaves(v) \/ Shows(v) PROVE FreshInv'
  BY <1>same, <1>leaves DEF BadFrame, Leaves, Shows, pendingVars
<1>alarm. CASE AlarmFires \/ UNCHANGED authVars
  BY <1>same, <1>alarm DEF AlarmFires, authVars, tokenVars
<1> QED BY <1>token, <1>clear, <1>connect, <1>first, <1>asks, <1>answers, <1>takes, <1>hibernates,
           <1>tick, <1>leaves, <1>alarm DEF AuthNext

LEMMA InitFresh == AuthInit => FreshInv
BY DEF AuthInit, FreshInv, GrantInv, CacheInv, AnswerInv

LEMMA FreshInductive == AuthSpec => [](AuthTypeOK /\ LoginInv /\ FreshInv)
BY AuthInitType, InitFresh, AuthNextType, NextLogin, NextFresh, PTL DEF AuthSpec

\* What v may be shown on the strength of g.
MayShow(v, g) ==
  \/ g = grant[who[v]]
  \/ who[v] \in Pats /\ lapse[who[v]][g] < AuthTtl /\ g \notin settled[who[v]]

ShownIn(v) == \A x \in check'[v] \ check[v] : x.pc = "shows" => MayShow(v, x.grant)

\* A check comes to show something by an entry that is not too old, by an answer of D1
\* of this tick, or by the JWT itself.
LEMMA NextShown ==
  AuthTypeOK /\ LoginInv /\ FreshInv /\ [AuthNext]_authVars => \A v \in Viewers : ShownIn(v)
<1> SUFFICES ASSUME AuthTypeOK, LoginInv, FreshInv, [AuthNext]_authVars,
                    NEW v \in Viewers, NEW x \in check'[v] \ check[v], x.pc = "shows"
             PROVE  MayShow(v, x.grant)
  BY DEF ShownIn
<1> USE TokenSets
<1>w. who[v] \in Tokens
  BY DEF AuthTypeOK
<1>r. ASSUME NEW g \in Grants, NEW n \in Nat, n < AuthTtl, who[v] \in Pats, Recent(who[v], g, n)
      PROVE  MayShow(v, g)
  <2>1. lapse[who[v]][g] \in 0..AuthTtl
    BY <1>w DEF AuthTypeOK
  <2> QED BY <1>r, <2>1, AuthAssumption DEF Recent, MayShow
<1>asks. CASE Asks(v)
  <2>1. CASE \E c \in Usable(who[v]) : ShowsOrCloses(v, c.grant)
    <3>1. PICK c \in Usable(who[v]) : ShowsOrCloses(v, c.grant)
      BY <2>1
    <3>2. c \in authCache[who[v]] /\ c.age \in Nat /\ c.age < AuthTtl /\ c.grant \in Grants \cup {"gone"}
      BY <1>w, ElementTypes, EntryTypes DEF Usable
    <3>3. c.grant \in Grants /\ x.grant = c.grant
      BY <3>1, <3>2 DEF ShowsOrCloses, Checks, Done, AuthTypeOK
    <3>4. CASE who[v] \in Pats
      BY <1>w, <1>r, <3>2, <3>3, <3>4 DEF FreshInv, CacheInv
    <3>5. CASE who[v] \in Logins
      <4>1. c.grant = "all" /\ grant[who[v]] \in {"all", "gone"}
        BY <3>2, <3>5 DEF LoginInv, AuthTypeOK, Grants, Tokens
      <4>2. grant[who[v]] # "gone"
        BY <1>asks, <3>5 DEF Asks, CloseViewer
      <4> QED BY <3>3, <4>1, <4>2 DEF MayShow
    <3> QED BY <1>w, <3>4, <3>5
  <2>2. CASE ShowsOrCloses(v, grant[who[v]])
    BY <2>2 DEF ShowsOrCloses, Checks, Done, AuthTypeOK, MayShow
  <2> QED BY <1>asks, <2>1, <2>2 DEF Asks, Checks, AuthTypeOK
<1>takes. CASE TakesAnswer(v)
  <2>picked. PICK y \in check[v] : \/ y.pc = "answeredFirst" /\ Done(v)
                                   \/ y.pc = "answered" /\ ShowsOrCloses(v, y.grant)
    BY <1>takes DEF TakesAnswer
  <2>answered. y.pc = "answered" /\ y.grant # "gone" /\ x.grant = y.grant
    <3>1. ~ Done(v)
      BY DEF Done, AuthTypeOK
    <3>2. y.grant # "gone" /\ Checks(v, [pc |-> "shows", grant |-> y.grant])
      BY <2>picked, <3>1 DEF ShowsOrCloses
    <3>3. check'[v] = {[pc |-> "shows", grant |-> y.grant]}
      BY <3>2 DEF Checks, AuthTypeOK
    <3> QED BY <2>picked, <3>1, <3>2, <3>3
  <2>some. y.grant \in Grants /\ who[v] \in Pats
    BY <1>w, <2>answered, ElementTypes, CheckTypes DEF LoginInv
  <2>recent. Recent(who[v], y.grant, 0)
    BY <2>answered DEF FreshInv, AnswerInv, Answered
  <2> QED BY <1>r, <2>answered, <2>some, <2>recent, AuthAssumption
<1>other. ASSUME NEW u \in Viewers, u # v, Asks(u) \/ TakesAnswer(u) PROVE FALSE
  BY <1>other DEF Asks, TakesAnswer, ShowsOrCloses, Checks, Done, AuthTypeOK
<1>idle. ASSUME NEW u \in Viewers, FirstFrame(u) \/ D1Answers(u) \/ Shows(u) PROVE FALSE
  BY <1>idle DEF FirstFrame, D1Answers, Shows, Checks, Done, AuthTypeOK
<1>same. CASE UNCHANGED check
  BY <1>same
<1>tick. CASE AuthTick
  <2>1. PICK y \in check[v] : x = IF y.pc = "asks" THEN [y EXCEPT !.age = Older(@)] ELSE y
    BY <1>tick DEF AuthTick
  <2> QED BY <2>1, ElementTypes DEF Checking
<1>token. ASSUME NEW t \in Tokens, Issue(t) \/ Expire(t) \/ Change(t) PROVE UNCHANGED check
  BY <1>token DEF Issue, Expire, Change, Grant
<1>leaves. ASSUME NEW u \in Viewers, Connect(u) \/ BadFrame(u) \/ Leaves(u) PROVE UNCHANGED check
  BY <1>leaves DEF Connect, BadFrame, Leaves
<1>clear. ASSUME ClearAuthCache \/ AlarmFires \/ Hibernates \/ UNCHANGED authVars PROVE UNCHANGED check
  BY <1>clear DEF ClearAuthCache, AlarmFires, Hibernates, authVars
<1> QED BY <1>asks, <1>takes, <1>other, <1>idle, <1>same, <1>tick, <1>token, <1>leaves, <1>clear DEF
           AuthNext

\* No viewer is authorised by what its token granted AuthTtl ago or before the cache was
\* cleared, however many viewers, tokens and changes of them there are.
THEOREM RevokedViewersSeeNothing == AuthSpec => RevokedIsShownNothing
<1> DEFINE Shown == \A v \in Viewers : \A x \in check'[v] \ check[v] : x.pc = "shows" =>
              \/ x.grant = grant[who[v]]
              \/ who[v] \in Pats /\ lapse[who[v]][x.grant] < AuthTtl /\ x.grant \notin settled[who[v]]
<1>1. AuthTypeOK /\ LoginInv /\ FreshInv /\ [AuthNext]_authVars => [Shown]_authVars
  BY NextShown DEF ShownIn, MayShow
<1>2. AuthSpec => [][Shown]_authVars
  BY <1>1, FreshInductive, PTL DEF AuthSpec
<1> QED BY <1>2 DEF RevokedIsShownNothing

(* Viewers: the alarm for the sockets that wait. *)

\* What a step must not do for PendingIsTimed to hold on: no socket more is waited for,
\* and the alarm stays.
LEMMA StaysTimed ==
  ASSUME PendingIsTimed, Pending' \ untimed' \subseteq Pending \ untimed,
         authAlarm # {} => authAlarm' # {}
  PROVE  PendingIsTimed'
BY DEF PendingIsTimed

LEMMA NextTimed == AuthTypeOK /\ PendingIsTimed /\ [AuthNext]_authVars => PendingIsTimed'
<1> SUFFICES ASSUME AuthTypeOK, PendingIsTimed, [AuthNext]_authVars PROVE PendingIsTimed'
  OBVIOUS
<1>1. ASSUME UNCHANGED <<authAlarm, untimed>>, Pending' \subseteq Pending PROVE PendingIsTimed'
  BY <1>1, StaysTimed
<1>2. ASSUME NEW v \in Viewers, Connect(v) PROVE PendingIsTimed'
  <2>1. Pending' = Pending \cup {v}
    BY <1>2 DEF Connect, Pending, AuthTypeOK
  <2>2. CASE authAlarm' = Scheduled(ViewerTimeout)
    BY <2>2 DEF Scheduled, PendingIsTimed
  <2>3. CASE untimed' = untimed \cup {v} /\ UNCHANGED authAlarm
    BY <2>1, <2>3, StaysTimed
  <2> QED BY <1>2, <2>2, <2>3 DEF Connect
<1>3. CASE AlarmFires
  <2> DEFINE left == {v \in Pending : deadline[v] > 0}
  <2>1. Pending' \subseteq left
    BY <1>3 DEF AlarmFires, CloseViewers, Pending, AuthTypeOK
  <2>2. CASE authAlarm' = Rearmed(left)
    BY <2>1, <2>2 DEF Rearmed, PendingIsTimed
  <2>3. CASE untimed' = untimed \cup left
    BY <2>1, <2>3 DEF PendingIsTimed
  <2> QED BY <1>3, <2>2, <2>3 DEF AlarmFires
<1>4. CASE AuthTick
  <2>1. UNCHANGED <<socket, untimed>> /\ authAlarm' = {Nearer(a) : a \in authAlarm}
    BY <1>4 DEF AuthTick
  <2>2. authAlarm # {} => authAlarm' # {}
    BY <2>1
  <2> QED BY <2>1, <2>2, StaysTimed DEF Pending
<1>5. CASE UNCHANGED <<socket, authAlarm, untimed>>
  BY <1>1, <1>5 DEF Pending
<1>6. ASSUME NEW S, CloseViewers(S), UNCHANGED <<authAlarm, untimed>> PROVE PendingIsTimed'
  BY <1>1, <1>6 DEF CloseViewers, Pending
<1>7. ASSUME NEW v \in Viewers, NEW g, Admit(v, g), UNCHANGED <<authAlarm, untimed>> PROVE PendingIsTimed'
  BY <1>1, <1>7 DEF Admit, Pending, AuthTypeOK
<1>check. ASSUME NEW v \in Viewers, FirstFrame(v) \/ TakesAnswer(v) \/ Asks(v) PROVE PendingIsTimed'
  BY <1>5, <1>6, <1>7, <1>check DEF FirstFrame, TakesAnswer, Asks, ShowsOrCloses, CloseViewer,
     pendingVars
<1>close. ASSUME NEW v \in Viewers, BadFrame(v) \/ Leaves(v) PROVE PendingIsTimed'
  BY <1>6, <1>close DEF BadFrame, Leaves, CloseViewer, pendingVars
<1>same. ASSUME NEW v \in Viewers, D1Answers(v) \/ Shows(v) PROVE PendingIsTimed'
  BY <1>5, <1>same DEF D1Answers, Shows, pendingVars
<1>token. ASSUME NEW t \in Tokens, Issue(t) \/ Expire(t) \/ Change(t) PROVE PendingIsTimed'
  BY <1>5, <1>token DEF Issue, Expire, Change, Grant, pendingVars
<1>still. CASE ClearAuthCache \/ Hibernates \/ UNCHANGED authVars
  BY <1>5, <1>still DEF ClearAuthCache, Hibernates, authVars, pendingVars
<1> QED BY <1>2, <1>3, <1>4, <1>check, <1>close, <1>same, <1>token, <1>still DEF AuthNext

\* The alarm is set as long as a socket waits for its first frame, whatever the limit of
\* such sockets and the time they are given.
THEOREM PendingSocketsAreTimed == AuthSpec => []PendingIsTimed
<1>none. Pending = {} => PendingIsTimed
  BY DEF PendingIsTimed
<1>start. AuthInit => PendingIsTimed
  BY <1>none DEF AuthInit, Pending
<1> QED BY <1>start, AuthTypeCorrect, NextTimed, PTL DEF AuthSpec

====
