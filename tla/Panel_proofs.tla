---------------------------- MODULE Panel_proofs -----------------------------
(***************************************************************************)
(* PanelDO: the list of servers, for any readers and writes, and the       *)
(* interval agents report at, for any viewers, intervals and numbers of    *)
(* connections.                                                            *)
(*                                                                         *)
(* CacheFollowsClears rests on FreshInv: rows fetched in the present epoch *)
(* contain all announced writes, since a clear ends the epoch.             *)
(* AnswersFollowClears needs InflightInv besides: whoever joins a query    *)
(* after a clear joins one of the present epoch, since the clear also      *)
(* takes the older one out of listInflight.                                *)
(*                                                                         *)
(* RateSettles speaks of a moment without broadcasts.  With them: the last *)
(* one on its way says what the viewers call for (LastInv), and the agent, *)
(* its connection and the map of the object agree (TellInv) as long as the *)
(* connection in the index is the latest (IndexInv).                       *)
(***************************************************************************)
EXTENDS Panel, TLAPS

\* Only what was written is announced.
AnnouncedInv == /\ cleared <= servers
                /\ \A v \in clears : v <= servers

EpochInv == \A r \in Reader : query[r] # "none" => epochs[r] <= listEpoch

FreshInv == \A r \in Reader : query[r] = "read" /\ epochs[r] = listEpoch => fetched[r] >= cleared

InflightInv == \A r \in listInflight : query[r] # "none" /\ epochs[r] = listEpoch

SinceInv == \A r \in Reader : since[r] <= cleared

CacheInv == /\ AnnouncedInv /\ EpochInv /\ FreshInv /\ InflightInv /\ SinceInv
           /\ CacheFollowsClears /\ AnswersFollowClears
--------------------------------------------------------------------------------

LEMMA InitType == ListInit => ListTypeOK
BY WritesAssumption DEF ListInit, ListTypeOK, Version, AtMostOne

LEMMA NextType == ListTypeOK /\ [ListNext]_listVars => ListTypeOK'
<1> SUFFICES ASSUME ListTypeOK, [ListNext]_listVars PROVE ListTypeOK'
  OBVIOUS
<1> USE WritesAssumption
<1> DEFINE Same == UNCHANGED listVars
<1>1. CASE WriteServers
  BY <1>1 DEF WriteServers, ListTypeOK, Version, readerVars
<1>2. ASSUME NEW v \in Version, ClearListCache(v) PROVE ListTypeOK'
  BY <1>2 DEF ClearListCache, ListTypeOK, Version, AtMostOne, readerVars
<1>3. CASE ExpireListCache
  BY <1>3 DEF ExpireListCache, ListTypeOK, AtMostOne, readerVars
<1>4. ASSUME NEW r \in Reader, NEW s \in Reader, ShareQuery(r, s) PROVE ListTypeOK'
  BY <1>4 DEF ShareQuery, ListTypeOK, AtMostOne
<1>5. ASSUME NEW r \in Reader, StartQuery(r) PROVE ListTypeOK'
  BY <1>5 DEF StartQuery, ListTypeOK, AtMostOne
<1>6. ASSUME NEW r \in Reader, ReadServers(r) PROVE ListTypeOK'
  BY <1>6 DEF ReadServers, ListTypeOK
<1>7. ASSUME NEW r \in Reader, EndQuery(r), listCache' \in AtMostOne(Version) PROVE ListTypeOK'
  BY <1>7 DEF EndQuery, ListTypeOK, AtMostOne, Version
<1>8. CASE EvictPanel
  BY <1>8 DEF EvictPanel, ListTypeOK, AtMostOne, Version
<1>9. CASE Same
  BY <1>9 DEF listVars, readerVars, ListTypeOK
<1>10. ASSUME NEW r \in Reader, ReturnRows(r) PROVE ListTypeOK'
  BY <1>7, <1>10 DEF ReturnRows, ListTypeOK, AtMostOne
<1>11. ASSUME NEW r \in Reader, FailQuery(r) PROVE ListTypeOK'
  BY <1>7, <1>11 DEF FailQuery, ListTypeOK
<1> QED
  BY <1>1, <1>2, <1>3, <1>4, <1>5, <1>6, <1>8, <1>9, <1>10, <1>11
     DEF ListNext, ListAsk, ListRest

LEMMA InitInv == ListInit => CacheInv
BY DEF ListInit, CacheInv, AnnouncedInv, EpochInv, FreshInv, InflightInv, SinceInv,
       CacheFollowsClears, AnswersFollowClears

LEMMA NextInv == ListTypeOK /\ CacheInv /\ [ListNext]_listVars => CacheInv'
<1> SUFFICES ASSUME ListTypeOK, CacheInv, [ListNext]_listVars PROVE CacheInv'
  OBVIOUS
<1> USE WritesAssumption DEF ListTypeOK, Version, CacheInv
<1> USE DEF AnnouncedInv, EpochInv, FreshInv, InflightInv, SinceInv,
            CacheFollowsClears, AnswersFollowClears
<1> DEFINE Same == UNCHANGED listVars
<1>1. CASE WriteServers
  BY <1>1 DEF WriteServers, readerVars
\* All queries are of an older epoch now.
<1>2. ASSUME NEW v \in Version, ClearListCache(v) PROVE CacheInv'
  <2> USE <1>2 DEF ClearListCache, readerVars
  <2>1. AnnouncedInv' /\ EpochInv' /\ SinceInv'
    OBVIOUS
  <2>2. FreshInv'
    <3> SUFFICES ASSUME NEW r \in Reader, query[r] = "read", epochs[r] = listEpoch + 1 PROVE FALSE
      OBVIOUS
    <3>1. epochs[r] <= listEpoch /\ epochs[r] \in Nat /\ listEpoch \in Nat
      OBVIOUS
    <3> QED
      BY <3>1, epochs[r] = listEpoch + 1
  <2>3. InflightInv' /\ CacheFollowsClears' /\ AnswersFollowClears'
    OBVIOUS
  <2> QED
    BY <2>1, <2>2, <2>3
<1>3. CASE ExpireListCache
  BY <1>3 DEF ExpireListCache, readerVars
\* The query joined is one of this epoch.
<1>4. ASSUME NEW r \in Reader, NEW s \in Reader, ShareQuery(r, s) PROVE CacheInv'
  <2> USE <1>4 DEF ShareQuery
  <2>1. query[s] = "read" => fetched[s] >= cleared
    OBVIOUS
  <2>2. AnswersFollowClears'
    BY <2>1
  <2> QED
    BY <2>2
<1>5. ASSUME NEW r \in Reader, StartQuery(r) PROVE CacheInv'
  BY <1>5 DEF StartQuery
\* D1 has every write that was announced.
<1>6. ASSUME NEW r \in Reader, ReadServers(r) PROVE CacheInv'
  <2> USE <1>6 DEF ReadServers
  <2>1. servers >= cleared /\ \A s \in Reader : servers >= since[s]
    OBVIOUS
  <2> QED
    BY <2>1
<1>7. ASSUME NEW r \in Reader, EndQuery(r), CacheFollowsClears' PROVE CacheInv'
  <2> USE <1>7 DEF EndQuery
  <2>1. AnnouncedInv' /\ EpochInv' /\ FreshInv' /\ InflightInv'
    OBVIOUS
  <2>2. SinceInv'
    OBVIOUS
  <2>3. AnswersFollowClears'
    <3> SUFFICES ASSUME NEW q \in Reader, NEW s \in sharing'[q], query'[s] = "read"
                 PROVE  fetched'[s] >= since'[q]
      OBVIOUS
    <3>1. s \in Reader /\ s # r /\ s \in sharing[q] /\ query[s] = "read" /\ fetched'[s] = fetched[s]
      BY DEF AtMostOne
    <3>2. since'[q] = 0 \/ since'[q] = since[q]
      OBVIOUS
    <3>3. fetched[s] >= since[q] /\ fetched[s] \in Nat
      BY <3>1
    <3> QED
      BY <3>1, <3>2, <3>3
  <2> QED
    BY <2>1, <2>2, <2>3
<1>8. CASE EvictPanel
  BY <1>8 DEF EvictPanel
<1>9. CASE Same
  BY <1>9 DEF listVars, readerVars
<1>10. ASSUME NEW r \in Reader, ReturnRows(r) PROVE CacheInv'
  <2>1. CacheFollowsClears'
    BY <1>10 DEF ReturnRows, EndQuery, Cacheable
  <2> QED
    BY <1>7, <1>10, <2>1 DEF ReturnRows
<1>11. ASSUME NEW r \in Reader, FailQuery(r) PROVE CacheInv'
  <2>1. CacheFollowsClears'
    BY <1>11 DEF FailQuery, EndQuery
  <2> QED
    BY <1>7, <1>11, <2>1 DEF FailQuery
<1> QED
  BY <1>1, <1>2, <1>3, <1>4, <1>5, <1>6, <1>8, <1>9, <1>10, <1>11
     DEF ListNext, ListAsk, ListRest

LEMMA Invariance == ListSpec => [](ListTypeOK /\ CacheInv)
BY InitType, NextType, InitInv, NextInv, PTL DEF ListSpec

\* Rows older than a processed clear are never cached again (do-panel.js:113).
THEOREM ClearedRowsStayOut == ListSpec => []CacheFollowsClears
BY Invariance, PTL DEF CacheInv

\* Whoever asks after a clear gets rows that contain what it announced, although
\* readers share queries (do-panel.js:109 and :163).
THEOREM AnswersAreFresh == ListSpec => []AnswersFollowClears
BY Invariance, PTL DEF CacheInv

--------------------------------------------------------------------------------
(* The interval of the reports.                                                *)

LEMMA BroadcastTaken ==
  ASSUME NEW s \in Seq(Interval), NEW i \in DOMAIN s
  PROVE  /\ RemoveAt(s, i) \in Seq(Interval)
         /\ i = 1 => /\ Len(RemoveAt(s, i)) = Len(s) - 1
                     /\ Len(s) > 1 => RemoveAt(s, i)[Len(s) - 1] = s[Len(s)]
<1>0. Len(s) \in Nat /\ i \in 1..Len(s)
  OBVIOUS
<1> DEFINE a == SubSeq(s, 1, i - 1)
           b == SubSeq(s, i + 1, Len(s))
<1>1. a \in Seq(Interval) /\ Len(a) = i - 1
  BY <1>0
<1>2. b \in Seq(Interval) /\ Len(b) = Len(s) - i /\ \A j \in 1..(Len(s) - i) : b[j] = s[i + j]
  BY <1>0
<1>3. RemoveAt(s, i) = a \o b
  BY Zenon DEF RemoveAt
<1> HIDE DEF a, b
<1>4. RemoveAt(s, i) \in Seq(Interval)
  BY <1>1, <1>2, <1>3
<1>5. i = 1 => Len(a \o b) = Len(s) - 1
  BY <1>0, <1>1, <1>2
<1>6. i = 1 /\ Len(s) > 1 => (a \o b)[Len(s) - 1] = s[Len(s)]
  BY <1>0, <1>1, <1>2
<1> QED BY <1>3, <1>4, <1>5, <1>6

LEMMA BroadcastSent ==
  ASSUME NEW s \in Seq(Interval), NEW x \in Interval
  PROVE  /\ Append(s, x) \in Seq(Interval) /\ Append(s, x) # <<>>
         /\ Append(s, x)[Len(Append(s, x))] = x
  OBVIOUS

LEMMA CalledIsInterval == Called \in Interval /\ ViewersAnswer \in Interval
BY DEF Called, ViewersAnswer, Interval

LEMMA RatesTypeInductive == RatesSpec => []RatesTypeOK
<1> USE RatesAssumption
<1>1. RatesInit => RatesTypeOK
  <2>1. RatesInit => inherited \in BOOLEAN /\ misled \in BOOLEAN
    BY Zenon DEF RatesInit
  <2> QED BY <2>1, SMT DEF RatesInit, RatesTypeOK, Conn
<1>2. RatesTypeOK /\ [RatesNext]_ratesVars => RatesTypeOK'
  <2> SUFFICES ASSUME RatesTypeOK, [RatesNext]_ratesVars PROVE RatesTypeOK'
    OBVIOUS
  <2>Authenticate. ASSUME NEW v \in Viewer, Authenticate(v) PROVE RatesTypeOK'
    BY <2>Authenticate, BroadcastSent DEF Authenticate, Mishap, panelVars, indexVars, rateVars,
       RatesTypeOK, Interval
  <2>Leave. ASSUME NEW v \in Viewer, Leave(v) PROVE RatesTypeOK'
    BY <2>Leave, BroadcastSent DEF Leave, panelVars, indexVars, rateVars, RatesTypeOK, Interval
  <2>Gone. ASSUME NEW v \in Viewer, Gone(v) PROVE RatesTypeOK'
    BY <2>Gone DEF Gone, panelVars, indexVars, rateVars, RatesTypeOK, Interval
  <2>LoseBroadcast. ASSUME NEW i \in Nat, LoseBroadcast(i) PROVE RatesTypeOK'
    BY <2>LoseBroadcast, BroadcastTaken DEF LoseBroadcast, Mishap, RatesTypeOK, panelVars,
       indexVars, rateVars
  <2>SetViewers. ASSUME NEW i \in Nat, SetViewers(i) PROVE RatesTypeOK'
    <3>0. RemoveAt(broadcasts, i) \in Seq(Interval) /\ broadcasts[i] \in Interval /\ conn \in Conn \cup {0}
      BY <2>SetViewers, BroadcastTaken DEF SetViewers, RatesTypeOK
    <3> QED BY <2>SetViewers, <3>0 DEF SetViewers, ApplyAgentInterval, Mishap, RatesTypeOK,
               Interval, panelVars, indexVars, rateVars
  <2>Connect. ASSUME NEW c \in Conn, Connect(c) PROVE RatesTypeOK'
    BY <2>Connect DEF Connect, panelVars, indexVars, rateVars, RatesTypeOK, Interval
  <2>Cleanup. ASSUME NEW c \in Conn, Cleanup(c) PROVE RatesTypeOK'
    BY <2>Cleanup DEF Cleanup, panelVars, indexVars, rateVars, RatesTypeOK, Interval
  <2>Report. ASSUME NEW c \in Conn, Report(c) PROVE RatesTypeOK'
    BY <2>Report DEF Report, TakesOver, Mishap, panelVars, indexVars, rateVars, RatesTypeOK, Interval
  <2>CountViewers. ASSUME NEW c \in Conn, CountViewers(c) PROVE RatesTypeOK'
    BY <2>CountViewers, CalledIsInterval DEF CountViewers, ViewersAnswer, panelVars, indexVars,
       rateVars, RatesTypeOK, Interval
  <2>ReceiveCount. ASSUME NEW c \in Conn, ReceiveCount(c) PROVE RatesTypeOK'
    BY <2>ReceiveCount DEF ReceiveCount, Conclude, ApplyAgentInterval, Mishap, panelVars, indexVars,
       rateVars, RatesTypeOK, Interval
  <2>ReportCallFails. ASSUME NEW c \in Conn, ReportCallFails(c) PROVE RatesTypeOK'
    BY <2>ReportCallFails DEF ReportCallFails, Conclude, ApplyAgentInterval, Mishap, panelVars,
       indexVars, rateVars, RatesTypeOK, Interval
  <2>HandshakeCallFails. ASSUME NEW c \in Conn, HandshakeCallFails(c) PROVE RatesTypeOK'
    BY <2>HandshakeCallFails DEF HandshakeCallFails, panelVars, indexVars, rateVars, RatesTypeOK,
       Interval
  <2>RebuildIndex. CASE RebuildIndex
    BY <2>RebuildIndex DEF RebuildIndex, Restored, panelVars, indexVars, rateVars, RatesTypeOK, Interval
  <2>Stutters. CASE UNCHANGED ratesVars
    BY <2>Stutters DEF ratesVars, panelVars, indexVars, rateVars, RatesTypeOK, Interval
  <2>bound. \A i \in 1..(2 * Cardinality(Viewer)) : i \in Nat
    OBVIOUS
  <2> QED
    BY <2>Authenticate, <2>Leave, <2>Gone, <2>LoseBroadcast, <2>SetViewers, <2>Connect, <2>Cleanup,
       <2>Report, <2>CountViewers, <2>ReceiveCount, <2>ReportCallFails, <2>HandshakeCallFails,
       <2>RebuildIndex, <2>Stutters, <2>bound
    DEF RatesNext
<1> QED BY <1>1, <1>2, PTL DEF RatesSpec

\* A viewer whose close is being handled is the only one on the list.
ListInv == \A v \in Viewer : socket[v] = "leaving" => Listed = {v}

\* The last broadcast on its way says what the viewers call for.
LastInv == broadcasts # <<>> => broadcasts[Len(broadcasts)] = Called

\* Of connections: the open one is the latest, and the one in the index.
IndexInv ==
  /\ \A c \in Conn : stage[c] = "open" => conn = c /\ \A b \in Conn : b > c => stage[b] = "new"
  /\ \A c \in Conn : stage[c] = "new" => attached[c] = "none" /\ asking[c] = "none" /\ conn # c
  /\ \A b, c \in Conn : stage[c] = "new" /\ b > c => stage[b] = "new"
  /\ inherited => conn # 0 /\ stage[conn] = "open" /\ attached[conn] = "none"

\* What the agent was told is what the map has, and once no broadcast is left it is
\* what the viewers call for.
TellInv ==
  \A c \in Conn : stage[c] = "open" =>
    /\ attached[c] # "none" =>
         agentInterval = attached[c] /\ (broadcasts = <<>> => attached[c] = Called)
    /\ agentInterval # "none" /\ ~ inherited => attached[c] # "none"

RatesInv == ~ misled => ListInv /\ LastInv /\ IndexInv /\ TellInv

\* However viewers come and go and connections are replaced, restored and asked for: when
\* no broadcast is left, the agent reports at the interval the viewers call for.
THEOREM RatesSettle == RatesSpec => []RateSettles
<1> USE RatesAssumption
<1>1. RatesInit => RatesInv
  BY DEF RatesInit, RatesInv, ListInv, LastInv, IndexInv, TellInv, Conn
<1>2. RatesTypeOK /\ RatesInv /\ [RatesNext]_ratesVars => RatesInv'
  <2> SUFFICES ASSUME RatesTypeOK, RatesInv, [RatesNext]_ratesVars PROVE RatesInv'
    OBVIOUS
  <2>Authenticate. ASSUME NEW v \in Viewer, Authenticate(v) PROVE RatesInv'
    <3> SUFFICES ASSUME ~ misled' PROVE (ListInv /\ LastInv /\ IndexInv /\ TellInv)'
      BY DEF RatesInv
    <3>0. ~ misled /\ ListInv /\ LastInv /\ IndexInv /\ TellInv
      BY <2>Authenticate, Zenon DEF Authenticate, Mishap, panelVars, indexVars, rateVars, RatesInv
    <3>1. ListInv'
      BY <2>Authenticate, <3>0, ZenonT(30) DEF Authenticate, Mishap, panelVars, indexVars, rateVars,
         ListInv, Listed, RatesTypeOK, Called
    <3>2. LastInv'
      BY <2>Authenticate, <3>0, BroadcastSent DEF Authenticate, Mishap, panelVars, indexVars,
         rateVars, ListInv, LastInv, Listed, Called, RatesTypeOK, Interval
    <3>3. Called' = Called \/ broadcasts' # <<>>
      BY <2>Authenticate, <3>0, BroadcastSent DEF Authenticate, Mishap, panelVars, indexVars,
         rateVars, ListInv, Listed, Called, RatesTypeOK, Interval
    <3>4. broadcasts' = <<>> => broadcasts = <<>>
      BY <2>Authenticate DEF Authenticate, Mishap, panelVars, indexVars, rateVars, RatesTypeOK
    <3>5. IndexInv' /\ TellInv'
      BY <2>Authenticate, <3>0, <3>3, <3>4 DEF Authenticate, Mishap, panelVars, indexVars, rateVars,
         IndexInv, TellInv
    <3> QED BY <3>1, <3>2, <3>5
  <2>Leave. ASSUME NEW v \in Viewer, Leave(v) PROVE RatesInv'
    <3> SUFFICES ASSUME ~ misled' PROVE (ListInv /\ LastInv /\ IndexInv /\ TellInv)'
      BY DEF RatesInv
    <3>0. ~ misled /\ ListInv /\ LastInv /\ IndexInv /\ TellInv
      BY <2>Leave, Zenon DEF Leave, panelVars, indexVars, rateVars, RatesInv
    <3>1. ListInv'
      BY <2>Leave, <3>0 DEF Leave, panelVars, indexVars, rateVars, ListInv, Listed, RatesTypeOK, Called
    <3>2. LastInv'
      BY <2>Leave, <3>0, BroadcastSent DEF Leave, panelVars, indexVars, rateVars, ListInv, LastInv,
         Listed, Called, RatesTypeOK, Interval
    <3>3. Called' = Called \/ broadcasts' # <<>>
      BY <2>Leave, <3>0, BroadcastSent DEF Leave, panelVars, indexVars, rateVars, ListInv, Listed,
         Called, RatesTypeOK, Interval
    <3>4. broadcasts' = <<>> => broadcasts = <<>>
      BY <2>Leave DEF Leave, panelVars, indexVars, rateVars, RatesTypeOK
    <3>5. IndexInv' /\ TellInv'
      BY <2>Leave, <3>0, <3>3, <3>4 DEF Leave, panelVars, indexVars, rateVars, IndexInv, TellInv
    <3> QED BY <3>1, <3>2, <3>5
  <2>Gone. ASSUME NEW v \in Viewer, Gone(v) PROVE RatesInv'
    <3> SUFFICES ASSUME ~ misled' PROVE (ListInv /\ LastInv /\ IndexInv /\ TellInv)'
      BY DEF RatesInv
    <3>0. ~ misled /\ ListInv /\ LastInv /\ IndexInv /\ TellInv
      BY <2>Gone, Zenon DEF Gone, panelVars, indexVars, rateVars, RatesInv
    <3>1. ListInv'
      BY <2>Gone, <3>0 DEF Gone, panelVars, indexVars, rateVars, ListInv, Listed, RatesTypeOK, Called
    <3>2. LastInv'
      BY <2>Gone, <3>0, BroadcastSent DEF Gone, panelVars, indexVars, rateVars, ListInv, LastInv,
         Listed, Called, RatesTypeOK, Interval
    <3>3. Called' = Called \/ broadcasts' # <<>>
      BY <2>Gone, <3>0, BroadcastSent DEF Gone, panelVars, indexVars, rateVars, ListInv, Listed,
         Called, RatesTypeOK, Interval
    <3>4. broadcasts' = <<>> => broadcasts = <<>>
      BY <2>Gone DEF Gone, panelVars, indexVars, rateVars, RatesTypeOK
    <3>5. IndexInv' /\ TellInv'
      BY <2>Gone, <3>0, <3>3, <3>4 DEF Gone, panelVars, indexVars, rateVars, IndexInv, TellInv
    <3> QED BY <3>1, <3>2, <3>5
  <2>LoseBroadcast. ASSUME NEW i \in Nat, LoseBroadcast(i) PROVE RatesInv'
    BY <2>LoseBroadcast DEF LoseBroadcast, Mishap, panelVars, indexVars, rateVars, RatesInv
  <2>SetViewers. ASSUME NEW i \in Nat, SetViewers(i) PROVE RatesInv'
    <3> SUFFICES ASSUME ~ misled' PROVE (ListInv /\ LastInv /\ IndexInv /\ TellInv)'
      BY DEF RatesInv
    <3>0. ~ misled /\ ListInv /\ LastInv /\ IndexInv /\ TellInv
      BY <2>SetViewers, Zenon DEF SetViewers, ApplyAgentInterval, Mishap, panelVars, indexVars,
         rateVars, RatesInv
    <3>1. i = 1 /\ 1 \in DOMAIN broadcasts /\ socket' = socket /\ Called' = Called
      BY <2>SetViewers DEF SetViewers, ApplyAgentInterval, Mishap, panelVars, indexVars, rateVars, Called
    <3>2. /\ broadcasts' \in Seq(Interval) /\ Len(broadcasts') = Len(broadcasts) - 1
          /\ Len(broadcasts) > 1 => broadcasts'[Len(broadcasts) - 1] = broadcasts[Len(broadcasts)]
      BY <2>SetViewers, <3>1, BroadcastTaken DEF SetViewers, RatesTypeOK
    <3>3. ListInv' /\ LastInv'
      BY <3>0, <3>1, <3>2 DEF ListInv, LastInv, Listed, RatesTypeOK
    <3>4. broadcasts' = <<>> => broadcasts[1] = Called
      <4>1. broadcasts' = <<>> => Len(broadcasts) = 1
        BY <3>2 DEF RatesTypeOK
      <4>2. Len(broadcasts) = 1 => broadcasts # <<>>
        BY <3>1
      <4> QED BY <3>0, <4>1, <4>2 DEF LastInv
    <3>5. broadcasts[1] \in Interval /\ broadcasts # <<>>
      BY <3>1 DEF RatesTypeOK
    <3>6. CASE conn # 0 /\ agentInterval # broadcasts[1]
      <4>1. /\ agentInterval' = broadcasts[1] /\ attached' = [attached EXCEPT ![conn] = broadcasts[1]]
            /\ ~ inherited' /\ UNCHANGED <<indexVars, asking>>
        BY <2>SetViewers, <3>1, <3>6 DEF SetViewers, ApplyAgentInterval
      <4>2. IndexInv'
        BY <3>0, <3>5, <4>1 DEF IndexInv, indexVars, RatesTypeOK
      <4>3. TellInv'
        BY <3>0, <3>1, <3>4, <3>5, <4>1 DEF IndexInv, TellInv, indexVars, RatesTypeOK, Interval
      <4> QED BY <3>3, <4>2, <4>3
    <3>7. CASE ~ (conn # 0 /\ agentInterval # broadcasts[1])
      <4>1. UNCHANGED <<rateVars, indexVars, asking>>
        BY <2>SetViewers, <3>1, <3>7 DEF SetViewers
      <4>2. IndexInv'
        BY <3>0, <4>1 DEF IndexInv, indexVars, rateVars
      <4>3. TellInv'
        BY <3>0, <3>1, <3>4, <3>5, <3>7, <4>1 DEF IndexInv, TellInv, indexVars, rateVars, RatesTypeOK, Conn
      <4> QED BY <3>3, <4>2, <4>3
    <3> QED BY <3>6, <3>7
  <2>Connect. ASSUME NEW c \in Conn, Connect(c) PROVE RatesInv'
    <3> SUFFICES ASSUME ~ misled' PROVE (ListInv /\ LastInv /\ IndexInv /\ TellInv)'
      BY DEF RatesInv
    <3>0. ~ misled /\ ListInv /\ LastInv /\ IndexInv /\ TellInv
      BY <2>Connect, Zenon DEF Connect, panelVars, indexVars, rateVars, RatesInv
    <3>1. ListInv' /\ LastInv' /\ Called' = Called
      BY <2>Connect, <3>0 DEF Connect, panelVars, indexVars, rateVars, ListInv, LastInv, Listed, Called
    <3>2. IndexInv'
      BY <2>Connect, <3>0 DEF Connect, panelVars, indexVars, rateVars, IndexInv, RatesTypeOK, Conn,
         Interval
    <3>3. TellInv'
      BY <2>Connect, <3>0, <3>1 DEF Connect, panelVars, indexVars, rateVars, IndexInv, TellInv,
         RatesTypeOK, Conn, Interval
    <3> QED BY <3>1, <3>2, <3>3
  <2>Cleanup. ASSUME NEW c \in Conn, Cleanup(c) PROVE RatesInv'
    <3> SUFFICES ASSUME ~ misled' PROVE (ListInv /\ LastInv /\ IndexInv /\ TellInv)'
      BY DEF RatesInv
    <3>0. ~ misled /\ ListInv /\ LastInv /\ IndexInv /\ TellInv
      BY <2>Cleanup, Zenon DEF Cleanup, panelVars, indexVars, rateVars, RatesInv
    <3>1. ListInv' /\ LastInv' /\ Called' = Called
      BY <2>Cleanup, <3>0 DEF Cleanup, panelVars, indexVars, rateVars, ListInv, LastInv, Listed, Called
    <3>2. IndexInv'
      BY <2>Cleanup, <3>0 DEF Cleanup, panelVars, indexVars, rateVars, IndexInv, RatesTypeOK, Conn,
         Interval
    <3>3. TellInv'
      BY <2>Cleanup, <3>0, <3>1 DEF Cleanup, panelVars, indexVars, rateVars, IndexInv, TellInv,
         RatesTypeOK, Conn, Interval
    <3> QED BY <3>1, <3>2, <3>3
  <2>Report. ASSUME NEW c \in Conn, Report(c) PROVE RatesInv'
    <3> SUFFICES ASSUME ~ misled' PROVE (ListInv /\ LastInv /\ IndexInv /\ TellInv)'
      BY DEF RatesInv
    <3>0. ~ misled /\ ListInv /\ LastInv /\ IndexInv /\ TellInv
      BY <2>Report, Zenon DEF Report, TakesOver, Mishap, panelVars, indexVars, rateVars, RatesInv
    <3>1. ListInv' /\ LastInv' /\ Called' = Called
      BY <2>Report, <3>0 DEF Report, TakesOver, Mishap, panelVars, indexVars, rateVars, ListInv,
         LastInv, Listed, Called
    <3>2. IndexInv'
      BY <2>Report, <3>0 DEF Report, TakesOver, Mishap, panelVars, indexVars, rateVars, IndexInv,
         RatesTypeOK, Conn, Interval
    <3>3. TellInv'
      <4>1. CASE agentInterval' = agentInterval
        BY <2>Report, <3>0, <3>1, <4>1 DEF Report, TellInv, panelVars
      <4>2. CASE agentInterval' # agentInterval
        <5>1. /\ agentInterval = "none" /\ attached[c] # "none" /\ agentInterval' = attached[c] /\ conn' = c
              /\ UNCHANGED <<broadcasts, stage, attached, inherited>>
          BY <2>Report, <3>0, <4>2 DEF Report, Mishap, panelVars
        <5>2. \A d \in Conn : stage'[d] = "open" => d = c
          BY <3>2, <5>1 DEF IndexInv
        <5> QED BY <3>0, <3>1, <5>1, <5>2 DEF TellInv
      <4> QED BY <4>1, <4>2
    <3> QED BY <3>1, <3>2, <3>3
  <2>CountViewers. ASSUME NEW c \in Conn, CountViewers(c) PROVE RatesInv'
    <3> SUFFICES ASSUME ~ misled' PROVE (ListInv /\ LastInv /\ IndexInv /\ TellInv)'
      BY DEF RatesInv
    <3>0. ~ misled /\ ListInv /\ LastInv /\ IndexInv /\ TellInv
      BY <2>CountViewers, Zenon DEF CountViewers, ViewersAnswer, panelVars, indexVars, rateVars, RatesInv
    <3>1. ListInv' /\ LastInv' /\ Called' = Called
      BY <2>CountViewers, <3>0 DEF CountViewers, ViewersAnswer, panelVars, indexVars, rateVars,
         ListInv, LastInv, Listed, Called
    <3>2. IndexInv'
      BY <2>CountViewers, <3>0 DEF CountViewers, ViewersAnswer, panelVars, indexVars, rateVars,
         IndexInv, RatesTypeOK, Conn, Interval
    <3>3. TellInv'
      BY <2>CountViewers, <3>0, <3>1 DEF CountViewers, ViewersAnswer, panelVars, indexVars,
         rateVars, IndexInv, TellInv, RatesTypeOK, Conn, Interval
    <3> QED BY <3>1, <3>2, <3>3
  <2>ReceiveCount. ASSUME NEW c \in Conn, ReceiveCount(c) PROVE RatesInv'
    <3> SUFFICES ASSUME ~ misled' PROVE (ListInv /\ LastInv /\ IndexInv /\ TellInv)'
      BY DEF RatesInv
    <3>0. ~ misled /\ ListInv /\ LastInv /\ IndexInv /\ TellInv
      BY <2>ReceiveCount, Zenon DEF ReceiveCount, Conclude, ApplyAgentInterval, Mishap, panelVars,
         indexVars, rateVars, RatesInv
    <3>1. ListInv' /\ LastInv' /\ Called' = Called
      BY <2>ReceiveCount, <3>0 DEF ReceiveCount, Conclude, ApplyAgentInterval, Mishap, panelVars,
         indexVars, rateVars, ListInv, LastInv, Listed, Called
    <3>2. IndexInv'
      BY <2>ReceiveCount, <3>0 DEF ReceiveCount, Conclude, ApplyAgentInterval, Mishap, panelVars,
         indexVars, rateVars, IndexInv, RatesTypeOK, Conn, Interval
    <3>3. TellInv'
      BY <2>ReceiveCount, <3>0, <3>1, ZenonT(30) DEF ReceiveCount, Conclude, ApplyAgentInterval,
         Mishap, panelVars, indexVars, rateVars, IndexInv, TellInv, RatesTypeOK, Conn, Interval
    <3> QED BY <3>1, <3>2, <3>3
  <2>ReportCallFails. ASSUME NEW c \in Conn, ReportCallFails(c) PROVE RatesInv'
    <3> SUFFICES ASSUME ~ misled' PROVE (ListInv /\ LastInv /\ IndexInv /\ TellInv)'
      BY DEF RatesInv
    <3>0. ~ misled /\ ListInv /\ LastInv /\ IndexInv /\ TellInv
      BY <2>ReportCallFails, Zenon DEF ReportCallFails, Conclude, ApplyAgentInterval, Mishap,
         panelVars, indexVars, rateVars, RatesInv
    <3>1. ListInv' /\ LastInv' /\ Called' = Called
      BY <2>ReportCallFails, <3>0 DEF ReportCallFails, Conclude, ApplyAgentInterval, Mishap,
         panelVars, indexVars, rateVars, ListInv, LastInv, Listed, Called
    <3>2. IndexInv'
      BY <2>ReportCallFails, <3>0 DEF ReportCallFails, Conclude, ApplyAgentInterval, Mishap,
         panelVars, indexVars, rateVars, IndexInv, RatesTypeOK, Conn, Interval
    <3>3. TellInv'
      BY <2>ReportCallFails, <3>0, <3>1, ZenonT(30) DEF ReportCallFails, Conclude,
         ApplyAgentInterval, Mishap, panelVars, indexVars, rateVars, IndexInv, TellInv, RatesTypeOK,
         Conn, Interval
    <3> QED BY <3>1, <3>2, <3>3
  <2>HandshakeCallFails. ASSUME NEW c \in Conn, HandshakeCallFails(c) PROVE RatesInv'
    <3> SUFFICES ASSUME ~ misled' PROVE (ListInv /\ LastInv /\ IndexInv /\ TellInv)'
      BY DEF RatesInv
    <3>0. ~ misled /\ ListInv /\ LastInv /\ IndexInv /\ TellInv
      BY <2>HandshakeCallFails, Zenon DEF HandshakeCallFails, panelVars, indexVars, rateVars, RatesInv
    <3>1. ListInv' /\ LastInv' /\ Called' = Called
      BY <2>HandshakeCallFails, <3>0 DEF HandshakeCallFails, panelVars, indexVars, rateVars,
         ListInv, LastInv, Listed, Called
    <3>2. IndexInv'
      BY <2>HandshakeCallFails, <3>0 DEF HandshakeCallFails, panelVars, indexVars, rateVars,
         IndexInv, RatesTypeOK, Conn, Interval
    <3>3. TellInv'
      BY <2>HandshakeCallFails, <3>0, <3>1 DEF HandshakeCallFails, panelVars, indexVars, rateVars,
         IndexInv, TellInv, RatesTypeOK, Conn, Interval
    <3> QED BY <3>1, <3>2, <3>3
  <2>RebuildIndex. CASE RebuildIndex
    <3> SUFFICES ASSUME ~ misled' PROVE (ListInv /\ LastInv /\ IndexInv /\ TellInv)'
      BY DEF RatesInv
    <3>0. ~ misled /\ ListInv /\ LastInv /\ IndexInv /\ TellInv
      BY <2>RebuildIndex, Zenon DEF RebuildIndex, Restored, panelVars, indexVars, rateVars, RatesInv
    <3>1. ListInv' /\ LastInv' /\ Called' = Called
      BY <2>RebuildIndex, <3>0 DEF RebuildIndex, panelVars, ListInv, LastInv, Listed, Called
    <3>2. UNCHANGED <<panelVars, stage, asking, attached>> /\ ~ inherited'
      BY <2>RebuildIndex DEF RebuildIndex
    <3>3. CASE \A c \in Conn : stage[c] \notin {"open", "closing"}
      <4>1. conn' = 0
        BY <2>RebuildIndex, <3>3 DEF RebuildIndex
      <4>2. IndexInv'
        BY <3>0, <3>2, <3>3, <4>1 DEF IndexInv, Conn
      <4> QED BY <3>1, <3>2, <3>3, <4>2 DEF TellInv
    <3>4. ASSUME NEW c \in Conn, stage[c] \in {"open", "closing"}, conn' = c, agentInterval' = attached[c],
                 \A b \in Conn : stage[b] \in {"open", "closing"} => b <= c
          PROVE  IndexInv' /\ TellInv'
      <4>1. ASSUME NEW d \in Conn, stage[d] = "open" PROVE d = c
        <5>1. d <= c /\ ~ (c > d)
          BY <3>0, <3>4, <4>1 DEF IndexInv
        <5> QED BY <5>1 DEF Conn
      <4>2. IndexInv'
        BY <3>0, <3>2, <3>4, <4>1 DEF IndexInv
      <4>3. TellInv'
        BY <3>0, <3>1, <3>2, <3>4, <4>1 DEF TellInv, panelVars
      <4> QED BY <4>2, <4>3
    <3>5. QED
      <4>1. CASE {c \in Conn : stage[c] \in {"open", "closing"}} = {}
        BY <3>1, <3>3, <4>1
      <4>2. CASE {c \in Conn : stage[c] \in {"open", "closing"}} # {}
        BY <2>RebuildIndex, <3>1, <3>4, <4>2 DEF RebuildIndex, Restored
      <4> QED BY <4>1, <4>2
  <2>Stutters. CASE UNCHANGED ratesVars
    <3> SUFFICES ASSUME ~ misled' PROVE (ListInv /\ LastInv /\ IndexInv /\ TellInv)'
      BY DEF RatesInv
    <3>0. ~ misled /\ ListInv /\ LastInv /\ IndexInv /\ TellInv
      BY <2>Stutters, Zenon DEF ratesVars, panelVars, indexVars, rateVars, RatesInv
    <3>1. ListInv' /\ LastInv' /\ Called' = Called
      BY <2>Stutters, <3>0 DEF ratesVars, panelVars, indexVars, rateVars, ListInv, LastInv, Listed,
         Called
    <3>2. IndexInv'
      BY <2>Stutters, <3>0 DEF ratesVars, panelVars, indexVars, rateVars, IndexInv, RatesTypeOK,
         Conn, Interval
    <3>3. TellInv'
      BY <2>Stutters, <3>0, <3>1 DEF ratesVars, panelVars, indexVars, rateVars, IndexInv, TellInv,
         RatesTypeOK, Conn, Interval
    <3> QED BY <3>1, <3>2, <3>3
  <2>bound. \A i \in 1..(2 * Cardinality(Viewer)) : i \in Nat
    OBVIOUS
  <2> QED
    BY <2>Authenticate, <2>Leave, <2>Gone, <2>LoseBroadcast, <2>SetViewers, <2>Connect, <2>Cleanup,
       <2>Report, <2>CountViewers, <2>ReceiveCount, <2>ReportCallFails, <2>HandshakeCallFails,
       <2>RebuildIndex, <2>Stutters, <2>bound
    DEF RatesNext
<1>3. RatesTypeOK /\ RatesInv => RateSettles
  BY DEF RatesTypeOK, RatesInv, TellInv, RateSettles, Quiet
<1> QED BY <1>1, <1>2, <1>3, RatesTypeInductive, PTL DEF RatesSpec
==============================================================================
