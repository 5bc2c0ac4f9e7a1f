------------------------------ MODULE Server_proofs ------------------------------
(***************************************************************************)
(* What happens at one server side by side: reports that are taken in      *)
(* while it is deleted, and the control connections of its agent.          *)
(*                                                                         *)
(* Deleted servers stay deleted, for any number of handlers at a time, any *)
(* reports, overrides and time to live of the cached row.  DropIsFinal is  *)
(* not inductive: it says nothing of what may still bring rows back.       *)
(* SilenceInv does: after a /drop that no frame could be on its way past,  *)
(* a handler may begin, for the connection is still there, but it finds no *)
(* row, neither in the cache nor in D1 (RowlessInv).                       *)
(*                                                                         *)
(* One connection per server and none with a revoked key, for any number   *)
(* of connections and however they overlap.  OneLiveConnection is not      *)
(* inductive: rebuildIndex goes by the time stamps in the attachments, so  *)
(* that LatestInv has to say that an open connection has the greatest of   *)
(* all that are listed.  Nor is RevokedIsOut, which leaves out the         *)
(* handshakes that are past the check of the key: see NoOldKey.            *)
(***************************************************************************)
EXTENDS ReportIntake, ControlIndex, FiniteSetTheorems, WellFoundedInduction, TLAPS

--------------------------------------------------------------------------------
(* The greatest element of a finite set of numbers is there, and it bounds the  *)
(* set.                                                                        *)

Bounded(S) == \E n \in Nat : \A x \in S : x <= n

\* A finite set of numbers has a bound: of the subsets without one a smallest would
\* have one too, for it has a bound when one element is taken out.
LEMMA FiniteIsBounded ==
  ASSUME NEW S, S \subseteq Nat, IsFiniteSet(S)
  PROVE  Bounded(S)
<1> DEFINE T == {A \in SUBSET S : ~ Bounded(A)}
<1>1. SUFFICES ASSUME T # {} PROVE FALSE
  BY DEF Bounded
<1>2. FiniteSubsetsOf(S) = SUBSET S
  BY FS_FiniteSubsetsOfFinite
<1>3. IsWellFoundedOn(StrictSubsetOrdering(S), SUBSET S)
  BY <1>2, FS_StrictSubsetOrderingWellFounded
<1>4. PICK A \in T : \A B \in T : <<B, A>> \notin StrictSubsetOrdering(S)
  <2> HIDE DEF T
  <2>1. T \subseteq SUBSET S
    BY DEF T
  <2> QED BY <1>1, <1>3, <2>1, WFMin
<1>5. A # {}
  BY DEF Bounded
<1>6. PICK x : x \in A
  BY <1>5
<1>7. <<A \ {x}, A>> \in StrictSubsetOrdering(S)
  BY <1>6 DEF StrictSubsetOrdering
<1>8. PICK n \in Nat : \A y \in A \ {x} : y <= n
  BY <1>4, <1>7 DEF Bounded
<1>9. \A y \in A : y <= n + x
  BY <1>6, <1>8
<1> QED BY <1>6, <1>9 DEF Bounded

\* Any set of numbers that is not empty has a least element.
LEMMA MinBounds ==
  ASSUME NEW S, S \subseteq Nat, S # {}
  PROVE  Min(S) \in S /\ \A x \in S : Min(S) <= x
<1>1. PICK m \in S : \A x \in S : <<x, m>> \notin OpToRel(<, Nat)
  BY NatLessThanWellFounded, WFMin
<1>2. \A x \in S : m <= x
  <2>1. ASSUME NEW x \in S, ~ m <= x PROVE FALSE
    <3>1. <<x, m>> \in OpToRel(<, Nat)
      BY <2>1 DEF OpToRel
    <3> QED BY <1>1, <3>1
  <2> QED BY <2>1
<1>3. \E z \in S : \A x \in S : z <= x
  BY <1>2
<1> QED BY <1>3 DEF Min

\* Of the bounds the least is an element.
LEMMA MaxBounds ==
  ASSUME NEW S, S \subseteq Nat, IsFiniteSet(S), S # {}
  PROVE  Max(S) \in S /\ \A x \in S : x <= Max(S)
<1> DEFINE T == {n \in Nat : \A x \in S : x <= n}
<1>1. T # {}
  BY FiniteIsBounded DEF Bounded
<1>2. PICK m \in T : \A n \in T : m <= n
  <2> HIDE DEF T
  <2>1. T \subseteq Nat
    BY DEF T
  <2> QED BY <1>1, <2>1, MinBounds
<1>3. m \in S
  <2>1. SUFFICES ASSUME m \notin S PROVE FALSE
    OBVIOUS
  <2>2. PICK x : x \in S
    OBVIOUS
  <2>3. m \in Nat \ {0} /\ m - 1 \in T
    BY <2>1, <2>2
  <2> QED BY <1>2, <2>3
<1>4. \A x \in S : m >= x
  BY <1>3
<1>5. \E z \in S : \A x \in S : z >= x
  BY <1>3, <1>4
<1> QED BY <1>5 DEF Max

--------------------------------------------------------------------------------
(* Reports and deletion.                                                       *)

Dropped == deletion \in {"dropped", "done"}

\* The row goes first.
RowlessInv == deletion # "none" => row = {}

\* Nothing that would reach MetricsDO is under way or can begin.
SilenceInv ==
  Dropped /\ ~ overtaken =>
    /\ ~ hot /\ batch = {}
    /\ \A h \in Handlers : \A x \in handler[h] : x.pc = "read"
    /\ connected => Fresh = {}
--------------------------------------------------------------------------------
(* Reports: types.                                                             *)

LEMMA AfterRowType ==
  ASSUME NEW rep \in Report, NEW r \in Row
  PROVE  AfterProbes(rep, r) \in Handling /\ AfterRow(rep, r) \in Handling
BY DEF AfterProbes, AfterRow, ProbesChanged, Handling, Row

LEMMA BecomesType ==
  ASSUME handler \in [Handlers -> AtMostOne(Handling)], NEW h \in Handlers,
         Ends(h) \/ \E x \in Handling : Becomes(h, x)
  PROVE  handler' \in [Handlers -> AtMostOne(Handling)]
BY DEF Ends, Becomes, AtMostOne

LEMMA InitType == IntakeInit => IntakeTypeOK
<1> SUFFICES ASSUME IntakeInit PROVE IntakeTypeOK
  OBVIOUS
<1>1. row \in AtMostOne(Row)
  <2>1. [override |-> NoOverride, probes |-> First.probes, info |-> First.info] \in Row
    BY IntakeAssumption DEF Row
  <2> QED BY <2>1 DEF IntakeInit, AtMostOne
<1>2. connected \in BOOLEAN
  BY DEF IntakeInit
<1>3. {} \in AtMostOne(Cached) /\ {} \in AtMostOne(Handling) /\ {} \in AtMostOne(Override)
  BY DEF AtMostOne
<1> QED BY <1>1, <1>2, <1>3, IntakeAssumption DEF IntakeInit, IntakeTypeOK

LEMMA StepsType ==
  ASSUME IntakeTypeOK, NEW h \in Handlers, Steps(h)
  PROVE  /\ row' \in AtMostOne(Row) /\ cache' \in AtMostOne(Cached)
         /\ handler' \in [Handlers -> AtMostOne(Handling)]
<1> USE IntakeAssumption DEF IntakeTypeOK, d1Vars, adminVars, agentVars, metricsVars
<1>1. \A x \in handler[h] : x \in Handling
  BY DEF AtMostOne
<1>2. CASE Reads(h)
  <2>1. PICK x \in Handles(h, "read") :
          \/ \E r \in row : cache' = {[row |-> r, age |-> 0]} /\ Becomes(h, AfterRow(x.report, r))
          \/ row = {} /\ IsDropped(h) /\ UNCHANGED cache
    BY <1>2 DEF Reads
  <2>2. x.report \in Report
    BY <1>1 DEF Handles, Handling
  <2>3. ASSUME NEW r \in row, cache' = {[row |-> r, age |-> 0]}, Becomes(h, AfterRow(x.report, r))
        PROVE  cache' \in AtMostOne(Cached) /\ \E y \in Handling : Becomes(h, y)
    <3>1. r \in Row
      BY DEF AtMostOne
    <3> QED BY <2>2, <2>3, <3>1, AfterRowType DEF AtMostOne, Cached
  <2> QED BY <1>2, <2>1, <2>3, BecomesType DEF Reads, IsDropped
<1>3. CASE WritesProbes(h)
  <2>1. PICK x \in Handles(h, "probes") :
          /\ row' = {[r EXCEPT !.probes = x.report.probes] : r \in row}
          /\ Becomes(h, [x EXCEPT !.pc = "probesWritten"])
    BY <1>3 DEF WritesProbes
  <2>2. x.report \in Report /\ [x EXCEPT !.pc = "probesWritten"] \in Handling
    BY <1>1 DEF Handles, Handling
  <2>3. row' \in AtMostOne(Row)
    BY <2>1, <2>2, SMTT(30) DEF AtMostOne, Row
  <2> QED BY <1>3, <2>1, <2>2, <2>3, BecomesType DEF WritesProbes
<1>4. CASE CachesProbes(h)
  <2>1. PICK x \in Handles(h, "probesWritten") :
          /\ cache' = {[row |-> [x.row EXCEPT !.probes = x.report.probes], age |-> 0]}
          /\ Becomes(h, AfterProbes(x.report, x.row))
    BY <1>4 DEF CachesProbes
  <2>2. x.report \in Report /\ x.row \in Row
    BY <1>1 DEF Handles, Handling
  <2>3. [x.row EXCEPT !.probes = x.report.probes] \in Row
    BY <2>2 DEF Row
  <2>4. cache' \in AtMostOne(Cached)
    BY <2>1, <2>3 DEF AtMostOne, Cached
  <2> QED BY <1>4, <2>1, <2>2, <2>4, AfterRowType, BecomesType DEF CachesProbes
<1>5. CASE WritesInfo(h)
  <2>1. PICK x \in Handles(h, "info") :
          /\ row' = {[r EXCEPT !.info = x.report.info] : r \in row}
          /\ Becomes(h, [x EXCEPT !.pc = "infoWritten"])
    BY <1>5 DEF WritesInfo
  <2>2. x.report \in Report /\ [x EXCEPT !.pc = "infoWritten"] \in Handling
    BY <1>1 DEF Handles, Handling
  <2>3. row' \in AtMostOne(Row)
    BY <2>1, <2>2, SMTT(30) DEF AtMostOne, Row
  <2> QED BY <1>5, <2>1, <2>2, <2>3, BecomesType DEF WritesInfo
<1>6. CASE CachesInfo(h)
  <2>1. PICK x \in Handles(h, "infoWritten") :
          /\ cache' = {[row |-> [x.row EXCEPT !.info = x.report.info], age |-> 0]}
          /\ Becomes(h, [pc |-> "queue", override |-> x.row.override])
    BY <1>6 DEF CachesInfo
  <2>2. x.report \in Report /\ x.row \in Row
    BY <1>1 DEF Handles, Handling
  <2>3. [x.row EXCEPT !.info = x.report.info] \in Row
    BY <2>2 DEF Row
  <2>4. cache' \in AtMostOne(Cached)
    BY <2>1, <2>3 DEF AtMostOne, Cached
  <2>5. [pc |-> "queue", override |-> x.row.override] \in Handling
    BY <2>2 DEF Row, Handling
  <2> QED BY <1>6, <2>1, <2>4, <2>5, BecomesType DEF CachesInfo
<1> QED BY <1>2, <1>3, <1>4, <1>5, <1>6 DEF Steps

LEMMA NextType == IntakeTypeOK /\ [IntakeNext]_intakeVars => IntakeTypeOK'
<1> SUFFICES ASSUME IntakeTypeOK, [IntakeNext]_intakeVars PROVE IntakeTypeOK'
  OBVIOUS
<1> USE IntakeAssumption DEF IntakeTypeOK, d1Vars, adminVars, agentVars, metricsVars
<1>1. CASE Changes
  BY <1>1 DEF Changes
<1>2. ASSUME NEW h \in Handlers, Arrives(h) PROVE IntakeTypeOK'
  <2>1. \E x \in Handling : Becomes(h, x)
    <3>1. CASE Becomes(h, [pc |-> "read", report |-> reported])
      BY <3>1 DEF Handling
    <3>2. ASSUME NEW c \in Fresh, Becomes(h, AfterRow(reported, c.row))
          PROVE  \E x \in Handling : Becomes(h, x)
      <4>1. c.row \in Row
        BY DEF Fresh, AtMostOne, Cached
      <4> QED BY <3>2, <4>1, AfterRowType
    <3> QED BY <1>2, <3>1, <3>2 DEF Arrives
  <2> QED BY <1>2, <2>1, BecomesType DEF Arrives, Use
<1>3. ASSUME NEW h \in Handlers, Steps(h) PROVE IntakeTypeOK'
  BY <1>3, StepsType DEF Steps, Reads, WritesProbes, CachesProbes, WritesInfo, CachesInfo
<1>4. ASSUME NEW h \in Handlers, Queues(h) PROVE IntakeTypeOK'
  <2>1. \A x \in Handles(h, "queue") : x.override \in Override
    BY DEF AtMostOne, Handles, Handling
  <2>2. batch' \in AtMostOne(Override)
    BY <1>4, <2>1 DEF Queues, AtMostOne
  <2> QED BY <1>4, <2>2, BecomesType DEF Queues
<1>5. ASSUME NEW h \in Handlers, Throws(h) PROVE IntakeTypeOK'
  BY <1>5, BecomesType DEF Throws
<1>6. CASE Evicted
  BY <1>6 DEF Evicted, AtMostOne
<1>7. CASE Received \/ TimesOut
  BY <1>7 DEF Received, TimesOut, AtMostOne
<1>8. CASE Edits
  <2>1. PICK r \in row, o \in scope.overrides : row' = {[r EXCEPT !.override = o]}
    BY <1>8 DEF Edits
  <2>2. r \in Row /\ o \in Override
    BY DEF AtMostOne
  <2>3. row' \in AtMostOne(Row)
    BY <2>1, <2>2 DEF AtMostOne, Row
  <2> QED BY <1>8, <2>3 DEF Edits
<1>9. CASE DeletesRow \/ Drops \/ Disconnects
  <2>1. Coming \in BOOLEAN
    BY DEF Coming
  <2> QED BY <1>9, <2>1 DEF DeletesRow, Drops, Disconnects, AtMostOne
<1>10. CASE Tick
  <2>1. cache' \in AtMostOne(Cached)
    BY <1>10 DEF Tick, AtMostOne, Cached
  <2> QED BY <1>10, <2>1 DEF Tick
<1>11. CASE UNCHANGED intakeVars
  BY <1>11 DEF intakeVars
<1> QED
  BY <1>1, <1>2, <1>3, <1>4, <1>5, <1>6, <1>7, <1>8, <1>9, <1>10, <1>11 DEF IntakeNext

\* Rows, cached copies and handlers keep their types: a handler past the read of the row
\* always has one, whatever was edited or deleted meanwhile.
THEOREM IntakeTypeCorrect == IntakeSpec => []IntakeTypeOK
BY InitType, NextType, PTL DEF IntakeSpec
--------------------------------------------------------------------------------
(* Deletion.                                                                   *)

LEMMA InitSilence == IntakeInit => RowlessInv /\ SilenceInv
BY DEF IntakeInit, RowlessInv, SilenceInv, Dropped

LEMMA NextRowless == RowlessInv /\ [IntakeNext]_intakeVars => RowlessInv'
<1> SUFFICES ASSUME RowlessInv, [IntakeNext]_intakeVars PROVE RowlessInv'
  OBVIOUS
<1> USE DEF RowlessInv, d1Vars, adminVars, agentVars, metricsVars
<1>1. ASSUME NEW h \in Handlers, Steps(h) PROVE RowlessInv'
  BY <1>1 DEF Steps, Reads, WritesProbes, CachesProbes, WritesInfo, CachesInfo
<1>2. ASSUME NEW h \in Handlers, Arrives(h) \/ Queues(h) \/ Throws(h) PROVE RowlessInv'
  BY <1>2 DEF Arrives, Queues, Throws
<1>3. CASE Changes \/ Evicted \/ Received \/ TimesOut \/ Tick \/ UNCHANGED intakeVars
  BY <1>3 DEF Changes, Evicted, Received, TimesOut, Tick, intakeVars
<1>4. CASE Edits
  BY <1>4 DEF Edits
<1>5. CASE DeletesRow \/ Drops \/ Disconnects
  BY <1>5 DEF DeletesRow, Drops, Disconnects
<1> QED BY <1>1, <1>2, <1>3, <1>4, <1>5 DEF IntakeNext

LEMMA NextSilence ==
  IntakeTypeOK /\ RowlessInv /\ SilenceInv /\ [IntakeNext]_intakeVars => SilenceInv'
<1> SUFFICES ASSUME IntakeTypeOK, RowlessInv, SilenceInv, [IntakeNext]_intakeVars,
                    Dropped', ~ overtaken'
             PROVE  SilenceInv'
  BY DEF SilenceInv
<1> USE DEF Dropped, d1Vars, adminVars, agentVars, metricsVars
\* The moment of the /drop itself.
<1>1. CASE Drops
  BY <1>1 DEF Drops, Coming, SilenceInv, Fresh
<1>2. CASE Disconnects
  BY <1>2 DEF Disconnects, SilenceInv, Fresh
\* From then on.
<1>3. ASSUME Dropped, ~ overtaken, UNCHANGED adminVars PROVE SilenceInv'
  <2>none. /\ row = {} /\ ~ hot /\ batch = {}
           /\ \A h \in Handlers : \A x \in handler[h] : x.pc = "read"
           /\ connected => Fresh = {}
    BY <1>3 DEF RowlessInv, SilenceInv
  <2> USE <1>3, <2>none DEF SilenceInv
  <2>Changes. CASE Changes
    BY <2>Changes DEF Changes, Fresh
  <2>Arrives. ASSUME NEW h \in Handlers, Arrives(h) PROVE SilenceInv'
    BY <2>Arrives DEF Arrives, Becomes, Fresh, IntakeTypeOK
  <2>Steps. ASSUME NEW h \in Handlers, Steps(h) PROVE SilenceInv'
    <3>1. Reads(h)
      BY <2>Steps DEF Steps, WritesProbes, CachesProbes, WritesInfo, CachesInfo, Handles
    <3> QED BY <3>1 DEF Reads, IsDropped, Ends, Fresh, IntakeTypeOK
  <2>Queues. ASSUME NEW h \in Handlers, Queues(h) \/ Throws(h) PROVE SilenceInv'
    BY <2>Queues DEF Queues, Throws, Handles, Ends, Fresh, IntakeTypeOK
  <2>Evicted. CASE Evicted
    BY <2>Evicted DEF Evicted, Fresh
  <2>Received. CASE Received \/ TimesOut
    BY <2>Received DEF Received, TimesOut
  <2>Edits. CASE Edits \/ DeletesRow
    BY <2>Edits DEF Edits, DeletesRow
  \* An entry that has lapsed stays lapsed.
  <2>Tick. CASE Tick
    <3>1. \A c \in cache : c.age \in 0..Ttl /\ c \in [row : Row, age : 0..Ttl]
      BY DEF IntakeTypeOK, AtMostOne, Cached
    <3>2. Fresh = {} => Fresh' = {}
      BY <2>Tick, <3>1, IntakeAssumption DEF Tick, Fresh
    <3> QED BY <2>Tick, <3>2 DEF Tick
  <2>Stutters. CASE UNCHANGED intakeVars
    BY <2>Stutters DEF intakeVars, Fresh
  <2> QED
    BY <1>1, <1>2, <2>Changes, <2>Arrives, <2>Steps, <2>Queues, <2>Evicted, <2>Received, <2>Edits,
       <2>Tick, <2>Stutters DEF IntakeNext
<1>4. CASE DeletesRow
  BY <1>4 DEF DeletesRow
<1>5. Drops \/ Disconnects \/ DeletesRow \/ UNCHANGED adminVars
  BY DEF IntakeNext, Changes, Arrives, Steps, Reads, WritesProbes, CachesProbes, WritesInfo,
         CachesInfo, Queues, Throws, Evicted, Received, TimesOut, Edits, Tick, intakeVars
<1> QED BY <1>1, <1>2, <1>3, <1>4, <1>5

\* When no frame was on its way as MetricsDO dropped the rows of a deleted server, none
\* brings them back, however many handlers overlapped with the deletion.
THEOREM DroppedStaysDropped == IntakeSpec => []DropIsFinal
<1>1. RowlessInv /\ SilenceInv /\ IntakeTypeOK /\ [IntakeNext]_intakeVars => (RowlessInv /\ SilenceInv)'
  BY NextRowless, NextSilence
<1>2. SilenceInv => DropIsFinal
  BY DEF SilenceInv, DropIsFinal, Dropped
<1> QED BY <1>1, <1>2, InitSilence, IntakeTypeCorrect, PTL DEF IntakeSpec
--------------------------------------------------------------------------------
(* Control connections.                                                        *)

\* The connection accepted last is the one that is open.
LatestInv == \A c, d \in Conn : sock[c] = "open" /\ d \in Listed /\ d # c => ts[d] < ts[c]

\* Between two calls of drop_server no connection, accepted or about to be, has an old key.
NoOldKey == ~ dropping => \A c \in Conn : sock[c] \in {"verified", "open"} => keyOf[c] # "old"
--------------------------------------------------------------------------------
(* Control connections: types.                                                 *)

LEMMA OneOrNone ==
  /\ Cardinality({}) <= 1
  /\ \A c : Cardinality({c}) <= 1
  /\ \A S : S \subseteq Conn /\ Cardinality(S) <= 1 => S = {} \/ \E c \in Conn : S = {c}
<1>1. ASSUME NEW S, S \subseteq Conn, Cardinality(S) <= 1
      PROVE  S = {} \/ \E c \in Conn : S = {c}
  <2>1. IsFiniteSet(S)
    <3>1. IsFiniteSet(Conn)
      BY IndexAssumption, FS_Interval DEF Conn
    <3> QED BY <1>1, <3>1, FS_Subset
  <2>2. Cardinality(S) = 0 \/ Cardinality(S) = 1
    BY <1>1, <2>1, FS_CardinalityType
  <2>3. Cardinality(S) = 1 => \E c : S = {c}
    BY <2>1, FS_Singleton
  <2>4. Cardinality(S) = 0 => S = {}
    BY <2>1, FS_EmptySet
  <2> QED BY <1>1, <2>2, <2>3, <2>4
<1> QED BY <1>1, FS_EmptySet, FS_Singleton

\* The time stamp of a connection that is accepted is above all others.
LEMMA NewStamp ==
  ASSUME ts \in [Conn -> Nat]
  PROVE  /\ Max({ts[d] : d \in Conn}) \in Nat
         /\ \A d \in Conn : ts[d] < Max({ts[e] : e \in Conn}) + 1
<1> DEFINE S == {ts[d] : d \in Conn}
<1>1. IsFiniteSet(S)
  <2>1. IsFiniteSet(Conn)
    BY IndexAssumption, FS_Interval DEF Conn
  <2>2. ts \in Surjection(Conn, S)
    BY DEF Surjection
  <2> QED BY <2>1, <2>2, FS_Surjection
<1>2. S \subseteq Nat
  OBVIOUS
<1>3. 1 \in Conn /\ \A d \in Conn : ts[d] \in S
  BY IndexAssumption DEF Conn
<1>4. Max(S) \in S /\ \A x \in S : x <= Max(S)
  <2> HIDE DEF S
  <2> QED BY <1>1, <1>2, <1>3, MaxBounds
<1>5. Max(S) \in Nat
  <2> HIDE DEF S
  <2> QED BY <1>2, <1>4
<1>6. ASSUME NEW d \in Conn PROVE ts[d] < Max(S) + 1
  <2>1. ts[d] <= Max(S) /\ ts[d] \in Nat
    <3> HIDE DEF S
    <3> QED BY <1>3, <1>4
  <2> HIDE DEF S
  <2> QED BY <1>5, <2>1
<1> QED BY <1>5, <1>6

LEMMA IndexInitType == IndexInit => IndexTypeOK
<1>1. NoMark \in Attachment /\ Absent \in [alive : BOOLEAN, proto : BOOLEAN] /\ "none" \in Trip
  BY DEF NoMark, Absent, Attachment, Trip
<1>2. Cardinality({}) <= 1
  BY OneOrNone
<1>3. ASSUME IndexInit PROVE IndexTypeOK
  <2>1. exists \in BOOLEAN /\ dropping \in BOOLEAN /\ capable \in BOOLEAN /\ probed \in BOOLEAN
    BY <1>3 DEF IndexInit
  <2>2. agents \in SUBSET Conn /\ Cardinality(agents) <= 1
    BY <1>2, <1>3 DEF IndexInit
  <2>3. attached \in [Conn -> Attachment] /\ peer \in [Conn -> [alive : BOOLEAN, proto : BOOLEAN]]
    BY <1>1, <1>3 DEF IndexInit
  <2> QED BY <1>1, <1>3, <2>1, <2>2, <2>3 DEF IndexInit, IndexTypeOK
<1> QED BY <1>3

LEMMA IndexNextType == IndexTypeOK /\ [IndexNext]_indexVars => IndexTypeOK'
<1> SUFFICES ASSUME IndexTypeOK, [IndexNext]_indexVars PROVE IndexTypeOK'
  OBVIOUS
<1> USE DEF IndexTypeOK, keyVars, connVars, trustVars, Trip, Attachment, NoMark, Absent
<1>0. /\ Cardinality({}) <= 1 /\ \A c : Cardinality({c}) <= 1
      /\ span.links \in BOOLEAN
  BY OneOrNone, IndexAssumption
<1>1. ASSUME NEW c \in Conn, Verify(c) PROVE IndexTypeOK'
  <2>1. PICK p \in BOOLEAN : peer' = [peer EXCEPT ![c] = [alive |-> TRUE, proto |-> p]]
    BY <1>0, <1>1 DEF Verify
  <2> QED BY <1>1, <2>1 DEF Verify
<1>2. ASSUME NEW c \in Conn, Accept(c) PROVE IndexTypeOK'
  <2>1. ts' \in [Conn -> Nat]
    BY <1>2, NewStamp DEF Accept
  <2>2. sock' \in [Conn -> {"new", "verified", "open", "closing", "gone"}]
    BY <1>2 DEF Accept, Closed
  <2> QED BY <1>0, <1>2, <2>1, <2>2 DEF Accept
<1>3. ASSUME NEW c \in Conn, Vanishes(c) PROVE IndexTypeOK'
  <2>1. peer' \in [Conn -> [alive : BOOLEAN, proto : BOOLEAN]] /\ asked' \in SUBSET Conn
    BY <1>3 DEF Vanishes
  <2> QED BY <1>3, <2>1 DEF Vanishes
<1>4. ASSUME NEW c \in Conn, Cleanup(c) PROVE IndexTypeOK'
  BY <1>0, <1>4 DEF Cleanup
<1>5. ASSUME NEW c \in Conn, Heard(c) PROVE agents' \in SUBSET Conn /\ Cardinality(agents') <= 1
  BY <1>0, <1>5 DEF Heard
<1>6. ASSUME NEW c \in Conn, Pong(c) PROVE IndexTypeOK'
  BY <1>5, <1>6 DEF Pong
<1>7. ASSUME NEW c \in Conn, ExecResult(c) PROVE IndexTypeOK'
  <2>1. attached' \in [Conn -> Attachment]
    BY <1>7 DEF ExecResult
  <2> QED BY <1>5, <1>7, <2>1 DEF ExecResult
<1>8. ASSUME NEW c \in Conn, Reported(c) PROVE IndexTypeOK'
  <2>1. attached' \in [Conn -> Attachment]
    <3>1. /\ [attached EXCEPT ![c] = NoMark] \in [Conn -> Attachment]
          /\ [attached EXCEPT ![c].probe = TRUE] \in [Conn -> Attachment]
      OBVIOUS
    <3> QED BY <1>8, <3>1 DEF Reported
  <2>2. capable' \in BOOLEAN /\ trip' \in Trip /\ probed' \in BOOLEAN /\ asked' \in SUBSET Conn
    BY <1>8, ZenonT(30) DEF Reported, NoLonger
  <2> QED BY <1>5, <1>8, <2>1, <2>2 DEF Reported, Heard
<1>9. CASE IndexEvicted
  BY <1>0, <1>9 DEF IndexEvicted, Winners, Listed
<1>10. CASE KeyChanges
  BY <1>10 DEF KeyChanges
<1>11. CASE DropServer
  BY <1>0, <1>11 DEF DropServer, CutOff, Closed, Missed
<1>12. CASE ExecRefused
  BY <1>12 DEF ExecRefused
<1>13. CASE Ages
  <2>1. attached' \in [Conn -> Attachment] /\ trip' \in Trip
    BY <1>13, SMTT(30) DEF Ages, Old
  <2> QED BY <1>13, <2>1 DEF Ages
<1>14. CASE ProbeDue \/ UNCHANGED indexVars
  BY <1>14 DEF ProbeDue, indexVars
<1> QED BY <1>1, <1>2, <1>3, <1>4, <1>6, <1>7, <1>8, <1>9, <1>10, <1>11, <1>12, <1>13, <1>14 DEF IndexNext

\* The state of the control index keeps its types; in particular it has at most one
\* connection of a server.
THEOREM IndexTypeCorrect == IndexSpec => []IndexTypeOK
BY IndexInitType, IndexNextType, PTL DEF IndexSpec
--------------------------------------------------------------------------------
(* One connection.                                                             *)

\* A step of the agent or the administrator that keeps index, sockets and stamps.
LEMMA IndexKept ==
  ASSUME OneLiveConnection, LatestInv, UNCHANGED <<sock, ts, agents>>
  PROVE  OneLiveConnection' /\ LatestInv'
BY DEF OneLiveConnection, LatestInv, Listed

\* A frame on a connection that is being closed does not displace the open one.
LEMMA HeardKeeps ==
  ASSUME IndexTypeOK, OneLiveConnection, LatestInv, NEW c \in Conn, Heard(c), UNCHANGED <<sock, ts>>
  PROVE  OneLiveConnection' /\ LatestInv'
<1>1. LatestInv'
  BY DEF LatestInv, Listed
<1>2. ASSUME NEW d \in Conn, sock[d] = "open" PROVE agents' = {d}
  <2>listed. agents = {d}
    BY <1>2 DEF OneLiveConnection
  <2>newer. TakesOver(c) => ts[c] >= ts[d]
    BY <1>2, <2>listed DEF TakesOver
  <2>older. c # d => ts[c] < ts[d]
    BY <1>2 DEF LatestInv, Heard
  <2>times. ts[c] \in Nat /\ ts[d] \in Nat
    BY DEF IndexTypeOK
  <2> QED BY <2>listed, <2>newer, <2>older, <2>times DEF Heard
<1> QED BY <1>1, <1>2 DEF OneLiveConnection

LEMMA NextLive ==
  IndexTypeOK /\ OneLiveConnection /\ LatestInv /\ [IndexNext]_indexVars
    => OneLiveConnection' /\ LatestInv'
<1> SUFFICES ASSUME IndexTypeOK, OneLiveConnection, LatestInv, [IndexNext]_indexVars
             PROVE  OneLiveConnection' /\ LatestInv'
  OBVIOUS
<1> USE DEF IndexTypeOK, keyVars, connVars, trustVars
<1>1. ASSUME NEW c \in Conn, Verify(c) PROVE OneLiveConnection' /\ LatestInv'
  BY <1>1 DEF Verify, OneLiveConnection, LatestInv, Listed
<1>2. ASSUME NEW c \in Conn, Accept(c) PROVE OneLiveConnection' /\ LatestInv'
  <2>1. \A d \in Conn : sock'[d] = "open" => d = c
    BY <1>2 DEF Accept, Closed, OneLiveConnection
  <2>2. ASSUME NEW d \in Conn, d \in Listed', d # c PROVE ts'[d] < ts'[c]
    BY <1>2, <2>2, NewStamp DEF Accept
  <2> QED BY <1>2, <2>1, <2>2 DEF Accept, OneLiveConnection, LatestInv
<1>3. ASSUME NEW c \in Conn, Cleanup(c) PROVE OneLiveConnection' /\ LatestInv'
  <2>1. \A d \in Conn : d \in Listed' => d \in Listed /\ d # c /\ sock'[d] = sock[d] /\ ts'[d] = ts[d]
    BY <1>3 DEF Cleanup, Listed
  <2>2. \A d \in Conn : sock'[d] = "open" => d \in Listed' /\ sock[d] = "open" /\ d # c
    BY <1>3 DEF Cleanup, Listed
  <2>3. OneLiveConnection'
    BY <1>3, <2>2 DEF Cleanup, OneLiveConnection
  <2> QED BY <2>1, <2>2, <2>3 DEF LatestInv
<1>4. ASSUME NEW c \in Conn, Pong(c) \/ ExecResult(c) \/ Reported(c)
      PROVE  OneLiveConnection' /\ LatestInv'
  BY <1>4, HeardKeeps DEF Pong, ExecResult, Reported
<1>5. CASE IndexEvicted
  <2>1. LatestInv'
    BY <1>5 DEF IndexEvicted, LatestInv, Listed
  <2>2. ASSUME NEW c \in Conn, sock'[c] = "open" PROVE agents' = {c}
    <3>1. sock[c] = "open" /\ c \in Listed
      BY <1>5, <2>2 DEF IndexEvicted, Listed
    <3>2. PICK w \in Winners(Listed) : agents' = {w}
      BY <1>5, <3>1 DEF IndexEvicted
    <3>3. w \in Conn /\ w \in Listed /\ ts[c] <= ts[w]
      BY <3>1, <3>2 DEF Winners, Listed
    <3>4. w # c => ts[w] < ts[c]
      BY <3>1, <3>3 DEF LatestInv
    <3> QED BY <3>2, <3>3, <3>4
  <2> QED BY <2>1, <2>2 DEF OneLiveConnection
<1>6. CASE DropServer
  <2>1. CASE UNCHANGED <<sock, agents>>
    BY <1>6, <2>1, IndexKept DEF DropServer
  <2>2. CASE sock' = Closed(agents)
    <3>1. \A c \in Conn : sock'[c] # "open"
      BY <2>2 DEF Closed, OneLiveConnection
    <3> QED BY <3>1 DEF OneLiveConnection, LatestInv
  <2> QED BY <1>6, <2>1, <2>2 DEF DropServer, CutOff
<1>7. CASE (\E c \in Conn : Vanishes(c)) \/ KeyChanges \/ ExecRefused \/ Ages \/ ProbeDue \/ UNCHANGED indexVars
  BY <1>7, IndexKept DEF Vanishes, KeyChanges, ExecRefused, Ages, ProbeDue, indexVars
<1> QED BY <1>1, <1>2, <1>3, <1>4, <1>5, <1>6, <1>7 DEF IndexNext

LEMMA LiveIsInvariant == IndexSpec => [](OneLiveConnection /\ LatestInv)
<1>1. IndexInit => OneLiveConnection /\ LatestInv
  BY DEF IndexInit, OneLiveConnection, LatestInv
<1> QED BY <1>1, NextLive, IndexTypeCorrect, PTL DEF IndexSpec

\* However many connections of one server overlap, are replaced, closed or rebuilt from
\* their attachments, the one that is open is the one commands are sent on.
THEOREM OneConnectionLives == IndexSpec => []OneLiveConnection
BY LiveIsInvariant, PTL
--------------------------------------------------------------------------------
(* Keys.                                                                       *)

LEMMA NextKeys ==
  IndexTypeOK /\ OneLiveConnection /\ NoOldKey /\ [IndexNext]_indexVars => NoOldKey'
<1> SUFFICES ASSUME IndexTypeOK, OneLiveConnection, NoOldKey, [IndexNext]_indexVars, ~ dropping',
                    NEW c \in Conn, sock'[c] \in {"verified", "open"}
             PROVE  keyOf'[c] # "old"
  BY DEF NoOldKey
<1> USE DEF IndexTypeOK, keyVars, connVars, trustVars
<1>1. ASSUME NEW d \in Conn, Verify(d) PROVE keyOf'[c] # "old"
  BY <1>1 DEF Verify, NoOldKey
<1>2. ASSUME NEW d \in Conn, Accept(d) PROVE keyOf'[c] # "old"
  BY <1>2 DEF Accept, Closed, NoOldKey
<1>3. ASSUME NEW d \in Conn, Cleanup(d) PROVE keyOf'[c] # "old"
  BY <1>3 DEF Cleanup, NoOldKey
<1>4. ASSUME NEW d \in Conn, Vanishes(d) \/ Pong(d) \/ ExecResult(d) \/ Reported(d)
      PROVE  keyOf'[c] # "old"
  BY <1>4 DEF Vanishes, Pong, ExecResult, Reported, NoOldKey
<1>5. CASE IndexEvicted
  BY <1>5 DEF IndexEvicted, NoOldKey
<1>6. CASE DropServer
  <2>1. CASE sock' = Closed(agents) /\ keyOf' = [d \in Conn |-> IF sock[d] = "verified" THEN Missed(d) ELSE keyOf[d]]
    <3>1. sock[c] = "verified"
      BY <2>1 DEF Closed, OneLiveConnection
    <3> QED BY <2>1, <3>1 DEF Missed
  <2>2. CASE keyOf' = [d \in Conn |-> Missed(d)]
    BY <2>2 DEF Missed
  <2> QED BY <1>6, <2>1, <2>2 DEF DropServer, CutOff
<1>7. CASE ExecRefused \/ Ages \/ ProbeDue \/ UNCHANGED indexVars
  BY <1>7 DEF ExecRefused, Ages, ProbeDue, indexVars, NoOldKey
<1>8. ~ KeyChanges
  BY DEF KeyChanges
<1> QED BY <1>1, <1>2, <1>3, <1>4, <1>5, <1>6, <1>7, <1>8 DEF IndexNext

\* Rotating a key or deleting a server takes effect: as soon as drop_server has run, no
\* connection let in with the old key goes on, but for a handshake that overtook it.
THEOREM OldKeysAreOut == IndexSpec => []RevokedIsOut
<1>1. IndexInit => NoOldKey
  BY DEF IndexInit, NoOldKey
<1>2. NoOldKey => RevokedIsOut
  BY DEF NoOldKey, RevokedIsOut
<1> QED BY <1>1, <1>2, NextKeys, IndexTypeCorrect, OneConnectionLives, PTL DEF IndexSpec
================================================================================
