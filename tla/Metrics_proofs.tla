--------------------------- MODULE Metrics_proofs ----------------------------
(***************************************************************************)
(* MetricsDO: the archive of the minutes, the ledger of the days and the   *)
(* alerts of one server, for any windows, intervals and cooldowns and any  *)
(* number of evictions in between.                                         *)
(*                                                                         *)
(* Archive.  NoRowPassed is not inductive: that no frame makes the         *)
(* watermark pass a row it did not have to is a matter of what increments  *)
(* and sweeps under way will let it pass (BatchInv, SweepInv).  That the   *)
(* history is whole rests on how old a row can be that no sweep has had    *)
(* (SweptInv) and needs Roomy: the window holds a row until a sweep has.   *)
(*                                                                         *)
(* Ledger.  What is written is covered by the cursor on disk, what is only *)
(* in memory by the one in memory (BooksInv), and the other way round      *)
(* (WholeInv); nobody asks for a cursor while there is one (CursorInv).    *)
(* LossOnly: objects leave memory at any time, but D1 and storage answer.  *)
(*                                                                         *)
(* Alerts.  While an alert is under way the whole cooldown but its age is  *)
(* left (CooldownInv), and memory and storage agree (ProbeInv, HostInv).   *)
(***************************************************************************)
EXTENDS MetricsArchive, DayLedger, MetricsAlerts, FiniteSetTheorems, WellFoundedInduction, TLAPS

--------------------------------------------------------------------------------
(* The greatest element of a set of numbers up to n.                           *)

LEMMA MaxOfInterval ==
  ASSUME NEW n \in Nat, NEW S, S \subseteq 0..n, S # {}
  PROVE  Max(S) \in S /\ \A x \in S : x <= Max(S)
<1> DEFINE T == {k \in Nat : n - k \in S}
<1>1. T # {}
  <2>1. PICK x : x \in S
    OBVIOUS
  <2>2. n - x \in Nat /\ n - (n - x) = x
    BY <2>1
  <2> QED BY <2>1, <2>2
<1>2. PICK m \in T : \A k \in T : <<k, m>> \notin OpToRel(<, Nat)
  <2> HIDE DEF T
  <2>1. T \subseteq Nat
    BY DEF T
  <2> QED BY <1>1, <2>1, NatLessThanWellFounded, WFMin
<1>3. m \in Nat /\ n - m \in S
  OBVIOUS
<1>4. \A x \in S : n - m >= x
  <2>1. ASSUME NEW x \in S, ~ n - m >= x PROVE FALSE
    <3>1. n - x \in T /\ n - x < m
      <4>1. x \in 0..n /\ n - x \in Nat /\ n - (n - x) = x
        OBVIOUS
      <4> QED BY <1>3, <2>1, <4>1
    <3>2. <<n - x, m>> \in OpToRel(<, Nat)
      BY <1>3, <3>1 DEF OpToRel
    <3> QED BY <1>2, <3>1, <3>2
  <2> QED BY <2>1
<1>5. \E z \in S : \A x \in S : z >= x
  BY <1>3, <1>4
<1> QED BY <1>5 DEF Max

--------------------------------------------------------------------------------
(* The archive of the minutes: types.                                          *)

LEMMA ArchiveConstants ==
  /\ ArchiveAfter \in Nat /\ ArchiveAfter > 1
  /\ PersistEvery \in Nat /\ SweepEvery \in Nat /\ SweepEvery > 0 /\ MaxNow \in Nat /\ MaxNow > 0
  /\ Keep \in Nat /\ MaxOverdue \in Nat
BY ArchiveAssumption

ArchiveFlags == hotLoaded \in BOOLEAN /\ pendingArcRetry \in BOOLEAN

ArchiveData ==
  /\ now \in Minute
  /\ stored \subseteq Minute /\ archived \subseteq Minute /\ overtaken \subseteq Minute
  /\ memory \subseteq Minute /\ reported \subseteq Minute
  /\ arc \in 0..MaxNow /\ lastSweep \in 0..MaxNow /\ putMin \in 0..MaxNow
  /\ arcCache \in AtMostOne(0..MaxNow) /\ arcPersisted \in AtMostOne(0..MaxNow)

ArchiveUnderWay ==
  /\ batches \subseteq Batch /\ Cardinality(batches) <= 1
  /\ sweep \subseteq Sweep /\ Cardinality(sweep) <= 1

LEMMA ArchiveTypeParts ==
  /\ ArchiveTypeOK <=> ArchiveFlags /\ ArchiveData /\ ArchiveUnderWay
  /\ ArchiveTypeOK' <=> ArchiveFlags' /\ ArchiveData' /\ ArchiveUnderWay'
<1>1. ArchiveTypeOK <=> ArchiveFlags /\ ArchiveData /\ ArchiveUnderWay
  BY Zenon DEF ArchiveTypeOK, ArchiveFlags, ArchiveData, ArchiveUnderWay
<1>2. ArchiveTypeOK' <=> ArchiveFlags' /\ ArchiveData' /\ ArchiveUnderWay'
  BY Zenon DEF ArchiveTypeOK, ArchiveFlags, ArchiveData, ArchiveUnderWay
<1> QED BY <1>1, <1>2

LEMMA OneIsFew == Cardinality({}) <= 1 /\ \A x : Cardinality({x}) <= 1
BY FS_EmptySet, FS_Singleton

\* A batch that will take the watermark to upto, with what must be in it: a row of storage
\* that is neither in it nor unseen is in memory.
BatchOf(due, from, upto) ==
  \E rows \in SUBSET Minute, unseen \in SUBSET Minute, sure \in BOOLEAN :
    /\ due \subseteq rows
    /\ sure => \A x \in stored' \ memory' : from < x /\ x <= upto => x \in rows \cup unseen
    /\ batches' = {[rows |-> rows, unseen |-> unseen, from |-> from, upto |-> upto, sure |-> sure]}

\* The batch of a frame, if it starts one.
LEMMA CollectDueStarts ==
  ASSUME NEW t \in Minute, NEW from \in 0..MaxNow, CollectDue(t, from),
         memory' \subseteq Minute, stored' \subseteq Minute
  PROVE  \/ /\ Due(t, from) = {}
            /\ UNCHANGED <<batches, pendingArcRetry>>
         \/ /\ Due(t, from) # {}
            /\ Max(Due(t, from)) \in Due(t, from)
            /\ \A x \in Due(t, from) : x <= Max(Due(t, from))
            /\ BatchOf(Due(t, from), from, Max(Due(t, from)))
            /\ pendingArcRetry' \in {pendingArcRetry, TRUE, FALSE}
<1> DEFINE due == Due(t, from)
<1>1. due \subseteq Minute
  BY DEF Due
<1>2. due # {} => Max(due) \in due /\ \A x \in due : x <= Max(due)
  <2>1. due \subseteq 0..MaxNow
    BY <1>1, ArchiveConstants DEF Minute
  <2> HIDE DEF due
  <2> QED BY <2>1, ArchiveConstants, MaxOfInterval
<1> DEFINE missing == {x \in stored' : from < x /\ x <= Max(due)}
           batch(rows, unseen, sure) ==
             [rows |-> rows, unseen |-> unseen, from |-> from, upto |-> Max(due), sure |-> sure]
<1>3. missing \subseteq Minute
  OBVIOUS
<1>4. \/ due = {} /\ UNCHANGED <<batches, pendingArcRetry>>
      \/ /\ due # {}
         /\ batches' = {batch(due, missing \ memory', TRUE)} /\ pendingArcRetry' = pendingArcRetry
      \/ /\ due # {}
         /\ batches' = {batch(due \cup missing, {}, TRUE)} /\ pendingArcRetry' = FALSE
      \/ /\ due # {}
         /\ batches' = {batch(due, {}, FALSE)} /\ pendingArcRetry' = TRUE
  BY Zenon DEF CollectDue, NeedsFallback
<1>5. \A x \in stored' \ memory' : from < x /\ x <= Max(due) => x \in missing \ memory'
  OBVIOUS
<1> HIDE DEF due, missing
<1>6. CASE due = {}
  BY <1>4, <1>6 DEF due
<1>7. CASE due # {}
  <2>1. BatchOf(due, from, Max(due))
    <3> due \in SUBSET Minute /\ missing \ memory' \in SUBSET Minute /\ due \cup missing \in SUBSET Minute
      BY <1>1, <1>3
    <3>plain. CASE batches' = {batch(due, missing \ memory', TRUE)}
      BY <1>5, <3>plain DEF BatchOf
    <3>read. CASE batches' = {batch(due \cup missing, {}, TRUE)}
      BY <1>5, <3>read DEF BatchOf
    <3>fails. CASE batches' = {batch(due, {}, FALSE)}
      BY <3>fails DEF BatchOf
    <3> QED BY <1>4, <1>7, <3>plain, <3>read, <3>fails
  <2>2. pendingArcRetry' \in {pendingArcRetry, TRUE, FALSE}
    BY <1>4, <1>7, Zenon
  <2> QED BY <1>2, <1>7, <2>1, <2>2 DEF due
<1> QED BY <1>6, <1>7

LEMMA ReportFrameTyped ==
  ASSUME ArchiveFlags, ArchiveData, ArchiveUnderWay, NEW t \in FrameMinutes, ReportFrame(t)
  PROVE  ArchiveFlags' /\ ArchiveData' /\ ArchiveUnderWay'
<1>1. t \in Minute
  BY DEF FrameMinutes
<1>2. /\ stored' \subseteq Minute /\ memory' \subseteq Minute /\ reported' \subseteq Minute
      /\ putMin' \in 0..MaxNow
  <2>1. /\ memory' = Trim(memory \cup {t}) /\ putMin' = t
        /\ stored' \in {stored, stored \cup {t}} /\ reported' = reported \cup stored'
    BY Zenon DEF ReportFrame, HotWrite
  <2>2. Trim(memory \cup {t}) \subseteq Minute /\ stored \cup {t} \subseteq Minute
    BY <1>1 DEF Trim, ArchiveData
  <2>3. t \in 0..MaxNow
    BY <1>1, ArchiveConstants DEF Minute
  <2> QED BY <2>1, <2>2, <2>3 DEF ArchiveData
<1>3. PICK from \in 0..MaxNow :
        /\ CollectDue(t, from)
        /\ arcCache' \in {arcCache, {from}} /\ arcPersisted' \in {arcPersisted, {from}}
  <2>1. arc \in 0..MaxNow /\ 0 \in 0..MaxNow /\ \A w \in arcCache : w \in 0..MaxNow
    BY ArchiveConstants DEF ArchiveData, AtMostOne
  <2> QED BY <2>1, Zenon DEF ReportFrame
<1>4. batches' \subseteq Batch /\ Cardinality(batches') <= 1
  <2>same. CASE UNCHANGED batches
    BY <2>same, Zenon DEF ArchiveUnderWay
  <2>starts. CASE Max(Due(t, from)) \in Due(t, from) /\ BatchOf(Due(t, from), from, Max(Due(t, from)))
    <3>1. Max(Due(t, from)) \in Minute
      BY <1>2, <2>starts DEF Due
    <3>2. PICK rows \in SUBSET Minute, unseen \in SUBSET Minute, sure \in BOOLEAN :
            batches' = {[rows |-> rows, unseen |-> unseen, from |-> from, upto |-> Max(Due(t, from)),
                         sure |-> sure]}
      BY <2>starts, Zenon DEF BatchOf
    <3> DEFINE b == [rows |-> rows, unseen |-> unseen, from |-> from, upto |-> Max(Due(t, from)), sure |-> sure]
    <3>3. b \in Batch
      BY <1>3, <3>1 DEF Batch
    <3> HIDE DEF b
    <3>4. batches' = {b}
      BY <3>2 DEF b
    <3> QED BY <3>3, <3>4, OneIsFew
  <2> QED BY <1>1, <1>2, <1>3, <2>same, <2>starts, CollectDueStarts
<1>5. pendingArcRetry' \in BOOLEAN
  BY <1>1, <1>2, <1>3, CollectDueStarts DEF ArchiveFlags
<1>6. ArchiveFlags'
  BY <1>5, Zenon DEF ReportFrame, ArchiveFlags
<1>7. ArchiveData'
  BY <1>2, <1>3 DEF ReportFrame, ArchiveData, AtMostOne
<1>8. ArchiveUnderWay'
  BY <1>4 DEF ReportFrame, ArchiveUnderWay
<1> QED BY <1>6, <1>7, <1>8

\* What a sweep will have archived and covered.
LEMMA SweepWatermark ==
  ASSUME NEW s \in Sweep
  PROVE  LET watermark == Max(s.candidates \cup {s.from})
         IN /\ watermark \in s.candidates \cup {s.from} /\ watermark \in 0..MaxNow
            /\ \A x \in s.candidates \cup {s.from} : x <= watermark
<1> DEFINE W == s.candidates \cup {s.from}
<1>1. W \subseteq 0..MaxNow /\ W # {}
  BY ArchiveConstants DEF Sweep, Minute
<1> HIDE DEF W
<1>2. Max(W) \in W /\ \A x \in W : x <= Max(W)
  BY <1>1, ArchiveConstants, MaxOfInterval
<1> QED BY <1>1, <1>2 DEF W

LEMMA ArchiveTypeInductive == ArchiveSpec => []ArchiveTypeOK
<1>1. ArchiveInit => ArchiveTypeOK
  <2>1. ArchiveInit => ArchiveFlags
    BY Zenon DEF ArchiveInit, ArchiveFlags
  <2>2. ArchiveInit => ArchiveData
    BY ArchiveConstants DEF ArchiveInit, ArchiveData, AtMostOne, Minute
  <2>3. ArchiveInit => ArchiveUnderWay
    BY OneIsFew DEF ArchiveInit, ArchiveUnderWay
  <2> QED BY <2>1, <2>2, <2>3, ArchiveTypeParts
<1>2. ArchiveTypeOK /\ [ArchiveNext]_archiveVars => ArchiveTypeOK'
  <2> DEFINE Types == ArchiveFlags /\ ArchiveData /\ ArchiveUnderWay
  <2> SUFFICES ASSUME ArchiveFlags, ArchiveData, ArchiveUnderWay, [ArchiveNext]_archiveVars
               PROVE  Types'
    BY ArchiveTypeParts
  <2>PutFails. ASSUME NEW t \in FrameMinutes, PutFails(t) PROVE Types'
    <3>1. ArchiveData'
      BY <2>PutFails DEF PutFails, diskVars, ArchiveData, FrameMinutes, Trim
    <3>2. ArchiveFlags' /\ ArchiveUnderWay'
      BY <2>PutFails, Zenon DEF PutFails, ArchiveFlags, ArchiveUnderWay
    <3> QED BY <3>1, <3>2
  <2>ReportFrame. ASSUME NEW t \in FrameMinutes, ReportFrame(t) PROVE Types'
    BY <2>ReportFrame, ReportFrameTyped
  <2>ArchiveRows. ASSUME NEW b \in batches, ArchiveRows(b) PROVE Types'
    <3>1. b.rows \subseteq Minute /\ b.unseen \subseteq Minute /\ b.upto \in 0..MaxNow
      BY ArchiveConstants DEF ArchiveUnderWay, Batch, Minute
    <3>2. ArchiveData'
      BY <2>ArchiveRows, <3>1 DEF ArchiveRows, AdvanceWatermark, ArchiveData, AtMostOne
    <3>3. ArchiveFlags'
      BY <2>ArchiveRows, Zenon DEF ArchiveRows, ArchiveFlags
    <3>4. ArchiveUnderWay'
      BY <2>ArchiveRows, OneIsFew DEF ArchiveRows, ArchiveUnderWay
    <3> QED BY <3>2, <3>3, <3>4
  <2>ArchiveFails. ASSUME NEW b \in batches, ArchiveFails(b) PROVE Types'
    <3>1. ArchiveFlags' /\ ArchiveData'
      BY <2>ArchiveFails, Zenon DEF ArchiveFails, diskVars, frameVars, ArchiveFlags, ArchiveData
    <3>2. ArchiveUnderWay'
      BY <2>ArchiveFails, OneIsFew DEF ArchiveFails, ArchiveUnderWay
    <3> QED BY <3>1, <3>2
  <2>LoadHot. CASE LoadHot
    <3>1. ArchiveFlags' /\ ArchiveUnderWay'
      BY <2>LoadHot, Zenon DEF LoadHot, ArchiveFlags, ArchiveUnderWay
    <3>2. ArchiveData'
      BY <2>LoadHot DEF LoadHot, diskVars, ArchiveData
    <3> QED BY <3>1, <3>2
  <2>SweepBegin. CASE SweepBegin
    <3>1. ArchiveFlags'
      BY <2>SweepBegin, Zenon DEF SweepBegin, ArchiveFlags
    <3>2. ArchiveData'
      BY <2>SweepBegin DEF SweepBegin, diskVars, ArchiveData, AtMostOne
    <3>3. PICK from \in arcCache' :
            sweep' = {[rows |-> stored, candidates |-> Candidates(from), from |-> from, keep |-> KeepCutoff,
                       at |-> now]}
      BY <2>SweepBegin, Zenon DEF SweepBegin
    <3>4. from \in 0..MaxNow
      <4> arcCache' \in AtMostOne(0..MaxNow)
        BY <3>2 DEF ArchiveData
      <4> QED BY DEF AtMostOne
    <3>a. Candidates(from) \subseteq Minute /\ stored \subseteq Minute
      BY DEF ArchiveData, Candidates
    <3>b. KeepCutoff \in Minute \cup {0} /\ now \in Minute
      BY ArchiveConstants DEF ArchiveData, KeepCutoff, Minute
    <3>5. sweep' \subseteq Sweep /\ Cardinality(sweep') <= 1
      <4> DEFINE r == [rows |-> stored, candidates |-> Candidates(from), from |-> from, keep |-> KeepCutoff,
                       at |-> now]
      <4>1. r \in Sweep
        BY <3>4, <3>a, <3>b DEF Sweep
      <4> HIDE DEF r
      <4>2. sweep' = {r}
        BY <3>3 DEF r
      <4> QED BY <4>1, <4>2, OneIsFew
    <3>6. ArchiveUnderWay'
      BY <2>SweepBegin, <3>5 DEF SweepBegin, ArchiveUnderWay
    <3> QED BY <3>1, <3>2, <3>6
  <2>SweepDone. CASE SweepDone
    <3>1. ArchiveFlags'
      BY <2>SweepDone, Zenon DEF SweepDone, ArchiveFlags
    <3>2. PICK s \in sweep :
            /\ archived' = archived \cup s.candidates
            /\ \/ UNCHANGED <<arc, arcCache, arcPersisted>>
               \/ /\ arc' = Max(s.candidates \cup {s.from}) /\ arcCache' = {Max(s.candidates \cup {s.from})}
                  /\ arcPersisted' = {Max(s.candidates \cup {s.from})}
            /\ DeleteCovered(s, Max(s.candidates \cup {s.from}))
            /\ lastSweep' = s.at
      BY <2>SweepDone, Zenon DEF SweepDone
    <3>3. /\ Max(s.candidates \cup {s.from}) \in 0..MaxNow /\ s.candidates \subseteq Minute
          /\ s.at \in Minute
      BY SweepWatermark DEF ArchiveUnderWay, Sweep
    <3>4. /\ archived' \subseteq Minute /\ stored' \subseteq Minute /\ memory' \subseteq Minute
          /\ arc' \in 0..MaxNow
          /\ arcCache' \in AtMostOne(0..MaxNow) /\ arcPersisted' \in AtMostOne(0..MaxNow)
      BY <3>2, <3>3 DEF DeleteCovered, ArchiveData, AtMostOne
    <3>5. ArchiveData'
      BY <2>SweepDone, <3>2, <3>3, <3>4, ArchiveConstants DEF SweepDone, ArchiveData, Minute
    <3>6. ArchiveUnderWay'
      BY <2>SweepDone, OneIsFew DEF SweepDone, ArchiveUnderWay
    <3> QED BY <3>1, <3>5, <3>6
  <2>SweepFails. CASE SweepFails
    <3>1. ArchiveFlags'
      BY <2>SweepFails, Zenon DEF SweepFails, ArchiveFlags
    <3>2. ArchiveData'
      BY <2>SweepFails DEF SweepFails, SweepHolds, DeleteCovered, ArchiveData, ArchiveUnderWay, Sweep
    <3>3. ArchiveUnderWay'
      BY <2>SweepFails, OneIsFew DEF SweepFails, ArchiveUnderWay
    <3> QED BY <3>1, <3>2, <3>3
  <2>Evict. CASE Evict
    <3>1. ArchiveFlags'
      BY <2>Evict, Zenon DEF Evict, FreshInstance, ArchiveFlags
    <3>2. archived' \subseteq Minute
      BY <2>Evict DEF Evict, ArchiveData, ArchiveUnderWay, Batch
    <3>3. ArchiveData'
      BY <2>Evict, <3>2, ArchiveConstants DEF Evict, FreshInstance, ArchiveData, AtMostOne
    <3>4. ArchiveUnderWay'
      BY <2>Evict, OneIsFew DEF Evict, FreshInstance, ArchiveUnderWay
    <3> QED BY <3>1, <3>3, <3>4
  <2>Tick. CASE Tick
    <3>1. ArchiveData'
      BY <2>Tick, ArchiveConstants DEF Tick, diskVars, frameVars, ArchiveData, Minute
    <3>2. ArchiveFlags' /\ ArchiveUnderWay'
      BY <2>Tick, Zenon DEF Tick, diskVars, frameVars, ArchiveFlags, ArchiveUnderWay
    <3> QED BY <3>1, <3>2
  <2>Stutters. CASE UNCHANGED archiveVars
    BY <2>Stutters, Zenon DEF archiveVars, diskVars, frameVars, ArchiveFlags, ArchiveData,
       ArchiveUnderWay
  <2> QED BY <2>PutFails, <2>ReportFrame, <2>ArchiveRows, <2>ArchiveFails, <2>LoadHot,
             <2>SweepBegin, <2>SweepDone, <2>SweepFails, <2>Evict, <2>Tick, <2>Stutters DEF ArchiveNext
<1> QED BY <1>1, <1>2, PTL DEF ArchiveSpec
--------------------------------------------------------------------------------
(* The archive: no row is passed.                                              *)

\* Rows of storage that have yet to get to D1.
Pending == (stored \ archived) \ overtaken

\* A row that was in storage is there or in D1, or was overtaken; none is from later.
KnownInv ==
  /\ stored \subseteq reported /\ reported \subseteq stored \cup archived \cup overtaken
  /\ \A t \in reported \cup memory : t <= now
  /\ lastSweep <= now /\ now <= lastSweep + SweepEvery + MaxOverdue

\* Once rows are loaded memory has all that the window needs.
MemoryInv == hotLoaded => \A t \in stored : t + Keep >= now => t \in memory

WatermarkInv ==
  \A w \in arcCache \cup {arc} : w + ArchiveAfter <= now \/ w = 0

\* Of what a batch under way will let the watermark pass, all is in it or unseen.
BatchInv ==
  \A b \in batches :
    /\ b.upto + ArchiveAfter <= now
    /\ b.sure => \A t \in Pending : t \in b.rows \/ t \in b.unseen \/ t > b.upto

\* What a sweep under way leaves it left because it was not old enough.
SweepInv ==
  \A s \in sweep :
    /\ s.at <= now /\ lastSweep + SweepEvery <= s.at
    /\ s.from + ArchiveAfter <= now \/ s.from = 0
    /\ \A t \in s.candidates : t + ArchiveAfter <= s.at
    /\ s.keep + Keep <= now \/ s.keep = 0
    /\ \A t \in Pending : t > s.from /\ (t \in s.candidates \/ t + ArchiveAfter > s.at)

\* Nor is what the last sweep left.
SweptInv == \A t \in Pending : t + ArchiveAfter > lastSweep

\* Rows that were deleted are out of the window.
GoneInv == \A t \in reported \ stored : t + Keep <= now

ArchiveInv ==
  KnownInv /\ MemoryInv /\ WatermarkInv /\ BatchInv /\ SweepInv /\ SweptInv /\ GoneInv /\ NoRowPassed

\* The row of a frame is new, and later than all that is due.
LEMMA ReportFrameKeeps ==
  ASSUME ArchiveData, ArchiveUnderWay, ArchiveInv, NEW t \in FrameMinutes, ReportFrame(t)
  PROVE  ArchiveInv'
<1> USE ArchiveConstants DEF Minute
<1>0. KnownInv /\ MemoryInv /\ WatermarkInv /\ SweepInv /\ SweptInv /\ GoneInv /\ NoRowPassed
  BY DEF ArchiveInv
<1>1. t \in Minute /\ t <= now /\ now <= t + 1 /\ now \in Minute
  BY DEF FrameMinutes, ArchiveData
<1>2. /\ memory' = Trim(memory \cup {t}) /\ stored' \in {stored, stored \cup {t}}
      /\ reported' = reported \cup stored' /\ batches = {}
      /\ UNCHANGED <<now, arc, archived, lastSweep, hotLoaded, sweep, overtaken>>
  BY Zenon DEF ReportFrame, HotWrite
<1>3. stored \subseteq Minute /\ memory \subseteq Minute /\ reported \subseteq Minute /\ archived \subseteq Minute
  BY DEF ArchiveData
<1>4. \A x \in Pending' : x \in Pending \/ x = t
  BY <1>2 DEF Pending
<1>5. KnownInv'
  BY <1>0, <1>1, <1>2, <1>3 DEF KnownInv, Trim
<1>6. MemoryInv'
  BY <1>0, <1>1, <1>2, <1>3 DEF MemoryInv, Trim, KeepCutoff
<1>7. SweptInv' /\ GoneInv'
  <2>1. lastSweep \in Nat /\ lastSweep <= now
    BY <1>0 DEF ArchiveData, KnownInv
  <2>2. SweptInv'
    BY <1>0, <1>1, <1>2, <1>4, <2>1 DEF SweptInv
  <2>3. GoneInv'
    BY <1>0, <1>2 DEF GoneInv
  <2> QED BY <2>2, <2>3
<1>8. SweepInv'
  <2>1. ASSUME NEW s \in sweep PROVE t > s.from /\ t + ArchiveAfter > s.at
    <3>1. s.from \in Nat /\ s.at \in Nat /\ s.at <= now /\ (s.from + ArchiveAfter <= now \/ s.from = 0)
      BY <1>0 DEF SweepInv, ArchiveUnderWay, Sweep
    <3> QED BY <1>1, <3>1
  <2>2. ASSUME NEW s \in sweep, NEW x \in Pending'
        PROVE  x > s.from /\ (x \in s.candidates \/ x + ArchiveAfter > s.at)
    BY <1>0, <1>4, <2>1 DEF SweepInv
  <2> QED BY <1>0, <1>2, <2>2, Zenon DEF SweepInv
<1>9. PICK from \in 0..MaxNow :
        /\ CollectDue(t, from) /\ arcCache' \in {arcCache, {from}}
        /\ from + ArchiveAfter <= now \/ from = 0
        /\ \A x \in Pending : x > from
  <2>1. arc \in 0..MaxNow /\ 0 \in 0..MaxNow /\ \A w \in arcCache : w \in 0..MaxNow
    BY DEF ArchiveData, AtMostOne
  <2>2. \E from \in arcCache \cup {arc, 0} : CollectDue(t, from) /\ arcCache' \in {arcCache, {from}}
    BY Zenon DEF ReportFrame
  <2>3. \A x \in Pending : x > 0
    BY <1>3 DEF Pending
  <2> QED BY <1>0, <2>1, <2>2, <2>3 DEF WatermarkInv, NoRowPassed, Pending
<1>10. WatermarkInv'
  BY <1>0, <1>2, <1>9 DEF WatermarkInv
<1>11. NoRowPassed'
  <2>1. \A w \in arcCache' \cup {arc} : w \in Nat /\ (w + ArchiveAfter <= now \/ w = 0)
    BY <1>0, <1>9 DEF WatermarkInv, ArchiveData, AtMostOne
  <2>2. ASSUME NEW w \in arcCache' \cup {arc} PROVE t > w
    <3>1. w \in Nat /\ (w + ArchiveAfter <= now \/ w = 0) /\ ArchiveAfter > 1
      BY <2>1
    <3>2. t \in Nat /\ t > 0 /\ now \in Nat /\ now <= t + 1
      BY <1>1
    <3> QED BY <3>1, <3>2
  <2>3. \A w \in arcCache' \cup {arc}, x \in Pending : x > w
    BY <1>0, <1>9 DEF NoRowPassed, Pending
  <2>4. \A w \in arcCache' \cup {arc'}, x \in Pending' : x > w
    BY <1>2, <1>4, <2>2, <2>3
  <2> QED BY <2>4 DEF NoRowPassed, Pending
<1>12. BatchInv'
  <2>1. Due(t, from) \subseteq Minute
    BY <1>2, <1>3, <1>1 DEF Due, Trim
  <2>2. \A x \in Due(t, from) : x + ArchiveAfter <= now
    BY <1>1, <2>1 DEF Due, ArchiveCutoff
  <2>3. CASE Due(t, from) = {}
    <3>1. batches' = {}
      BY <1>2, <1>9, <2>3, Zenon DEF CollectDue, NeedsFallback
    <3> QED BY <3>1 DEF BatchInv
  <2>4. CASE Due(t, from) # {}
    <3> DEFINE upto == Max(Due(t, from))
    <3>1. memory' \subseteq Minute /\ stored' \subseteq Minute
      BY <1>1, <1>2, <1>3 DEF Trim
    <3>2. PICK rows \in SUBSET Minute, unseen \in SUBSET Minute, sure \in BOOLEAN :
            /\ upto \in Due(t, from) /\ Due(t, from) \subseteq rows
            /\ sure => \A x \in stored' \ memory' : from < x /\ x <= upto => x \in rows \cup unseen
            /\ batches' = {[rows |-> rows, unseen |-> unseen, from |-> from, upto |-> upto, sure |-> sure]}
      <4>1. upto \in Due(t, from) /\ BatchOf(Due(t, from), from, upto)
        BY <1>1, <1>9, <2>4, <3>1, CollectDueStarts
      <4> HIDE DEF upto
      <4> QED BY <4>1, Zenon DEF BatchOf
    <3>3. upto \in Minute /\ upto + ArchiveAfter <= now
      BY <2>1, <2>2, <3>2
    <3> HIDE DEF upto
    <3>4. ASSUME sure, NEW x \in Pending' PROVE x \in rows \/ x \in unseen \/ x > upto
      <4>1. CASE x = t
        BY <1>1, <3>3, <4>1
      <4>2. CASE x \in Pending /\ x \notin memory'
        <5>1. x \in stored' /\ x > from /\ x \in Minute
          BY <1>2, <1>3, <1>9, <4>2 DEF Pending
        <5> QED BY <3>2, <3>3, <3>4, <4>2, <5>1
      <4>3. CASE x \in Pending /\ x \in memory'
        <5>1. x > from /\ x \in Minute /\ x + Keep >= now
          BY <1>1, <1>2, <1>3, <1>9, <4>3 DEF Pending, Trim, KeepCutoff
        <5>2. x <= upto => x <= ArchiveCutoff /\ x + Keep > ArchiveCutoff
          BY <1>1, <3>3, <5>1 DEF ArchiveCutoff
        <5>3. x <= upto => x \in Due(t, from)
          BY <4>3, <5>1, <5>2 DEF Due
        <5> QED BY <3>2, <3>3, <5>1, <5>3
      <4> QED BY <1>4, <3>4, <4>1, <4>2, <4>3
    <3> QED BY <1>2, <3>2, <3>3, <3>4 DEF BatchInv
  <2> QED BY <2>3, <2>4
<1> QED BY <1>5, <1>6, <1>7, <1>8, <1>10, <1>11, <1>12 DEF ArchiveInv

LEMMA ArchiveInvInductive == ArchiveSpec => []ArchiveInv
<1>1. ArchiveInit => ArchiveInv
  BY ArchiveConstants
  DEF ArchiveInit, ArchiveInv, KnownInv, MemoryInv, WatermarkInv, BatchInv, SweepInv, SweptInv, GoneInv,
      NoRowPassed, Pending
<1>2. ArchiveTypeOK /\ ArchiveInv /\ [ArchiveNext]_archiveVars => ArchiveInv'
  <2> SUFFICES ASSUME ArchiveData, ArchiveUnderWay, ArchiveInv, [ArchiveNext]_archiveVars
               PROVE  ArchiveInv'
    BY ArchiveTypeParts
  <2>0. /\ KnownInv /\ MemoryInv /\ WatermarkInv /\ BatchInv /\ SweepInv
        /\ SweptInv /\ GoneInv /\ NoRowPassed
    BY DEF ArchiveInv
  <2>1. /\ now \in Minute /\ lastSweep \in Nat /\ arc \in Nat
        /\ stored \subseteq Minute /\ memory \subseteq Minute /\ reported \subseteq Minute
        /\ archived \subseteq Minute /\ arcCache \subseteq Nat
    BY ArchiveConstants DEF ArchiveData, AtMostOne
  <2>2. ASSUME NEW b \in batches
        PROVE  b.rows \subseteq Minute /\ b.upto \in Minute
    BY DEF ArchiveUnderWay, Batch
  <2>3. ASSUME NEW s \in sweep
        PROVE  /\ s.candidates \subseteq Minute /\ s.rows \subseteq Minute
               /\ s.from \in Nat /\ s.keep \in Nat /\ s.at \in Nat
    BY ArchiveConstants DEF ArchiveUnderWay, Sweep, Minute
  <2> USE ArchiveConstants DEF Minute
  <2>4. ASSUME NEW t \in FrameMinutes, PutFails(t) PROVE ArchiveInv'
    <3>1. /\ memory' = Trim(memory \cup {t})
          /\ UNCHANGED <<now, diskVars, reported, hotLoaded, arcCache, batches, sweep, overtaken>>
      BY <2>4 DEF PutFails
    <3>2. KnownInv' /\ MemoryInv'
      BY <2>0, <2>1, <3>1 DEF KnownInv, MemoryInv, FrameMinutes, Trim, KeepCutoff, diskVars
    <3>3. WatermarkInv' /\ BatchInv' /\ SweepInv' /\ SweptInv' /\ GoneInv' /\ NoRowPassed'
      BY <2>0, <3>1 DEF diskVars, WatermarkInv, BatchInv, SweepInv, SweptInv, GoneInv, NoRowPassed, Pending
    <3> QED BY <3>2, <3>3 DEF ArchiveInv
  <2>5. ASSUME NEW t \in FrameMinutes, ReportFrame(t) PROVE ArchiveInv'
    BY <2>5, ReportFrameKeeps
  <2>6. ASSUME NEW b \in batches, ArchiveRows(b) PROVE ArchiveInv'
    <3>1. /\ archived' = archived \cup b.rows /\ batches' = {}
          /\ UNCHANGED <<now, stored, lastSweep, memory, hotLoaded, sweep, reported>>
          /\ \/ UNCHANGED <<arc, arcCache, overtaken>>
             \/ /\ b.sure /\ arcCache' = {b.upto} /\ arc' \in {arc, b.upto}
                /\ overtaken' = overtaken \cup b.unseen
      BY <2>6, Zenon DEF ArchiveRows, AdvanceWatermark
    <3>2. Pending' \subseteq Pending \ b.rows /\ overtaken \subseteq overtaken'
      BY <3>1 DEF Pending
    <3>3. KnownInv' /\ MemoryInv' /\ GoneInv' /\ BatchInv'
      BY <2>0, <3>1, <3>2 DEF KnownInv, MemoryInv, GoneInv, BatchInv
    <3>4. SweepInv' /\ SweptInv'
      BY <2>0, <3>1, <3>2 DEF SweepInv, SweptInv
    <3>5. WatermarkInv' /\ NoRowPassed'
      BY <2>0, <2>1, <2>2, <3>1, <3>2 DEF WatermarkInv, NoRowPassed, BatchInv, Pending
    <3> QED BY <3>3, <3>4, <3>5 DEF ArchiveInv
  <2>7. ASSUME NEW b \in batches, ArchiveFails(b) PROVE ArchiveInv'
    BY <2>0, <2>7
    DEF ArchiveFails, diskVars, frameVars, ArchiveInv, KnownInv, MemoryInv, WatermarkInv, BatchInv, SweepInv,
        SweptInv, GoneInv, NoRowPassed, Pending
  <2>8. CASE LoadHot
    <3>1. /\ memory' = memory \cup stored /\ hotLoaded'
          /\ UNCHANGED <<now, diskVars, reported, arcCache, batches, sweep, overtaken>>
      BY <2>8 DEF LoadHot
    <3>2. KnownInv' /\ MemoryInv'
      BY <2>0, <3>1 DEF KnownInv, MemoryInv, diskVars
    <3>3. WatermarkInv' /\ BatchInv' /\ SweepInv' /\ SweptInv' /\ GoneInv' /\ NoRowPassed'
      BY <2>0, <3>1 DEF diskVars, WatermarkInv, BatchInv, SweepInv, SweptInv, GoneInv, NoRowPassed, Pending
    <3> QED BY <3>2, <3>3 DEF ArchiveInv
  <2>9. CASE SweepBegin
    <3>1. PICK from \in arcCache' :
            sweep' = {[rows |-> stored, candidates |-> Candidates(from), from |-> from, keep |-> KeepCutoff,
                       at |-> now]}
      BY <2>9, Zenon DEF SweepBegin
    <3>2. /\ arcCache' \in {arcCache, {arc}}
          /\ UNCHANGED <<now, diskVars, memory, hotLoaded, batches, reported, overtaken>>
          /\ now >= lastSweep + SweepEvery
      BY <2>9, Zenon DEF SweepBegin
    <3>3. KnownInv' /\ MemoryInv' /\ WatermarkInv' /\ BatchInv' /\ SweptInv' /\ GoneInv' /\ NoRowPassed'
      BY <2>0, <3>2 DEF diskVars, KnownInv, MemoryInv, WatermarkInv, BatchInv, SweptInv, GoneInv, NoRowPassed, Pending
    <3>4. from \in Nat /\ (from + ArchiveAfter <= now \/ from = 0) /\ \A t \in Pending : t > from
      BY <2>0, <2>1, <3>2 DEF WatermarkInv, NoRowPassed, Pending
    <3>5. \A c \in Candidates(from) : c \in Nat /\ c + ArchiveAfter <= now
      BY <2>1 DEF Candidates, ArchiveCutoff
    <3>6. KeepCutoff + Keep <= now \/ KeepCutoff = 0
      BY <2>1 DEF KeepCutoff
    <3>7. ASSUME NEW t \in Pending, t \notin Candidates(from) PROVE t + ArchiveAfter > now
      <4>1. t \in Nat /\ t > ArchiveCutoff
        BY <2>1, <3>4, <3>7 DEF Candidates, Pending, ArchiveCutoff
      <4> QED BY <2>1, <4>1 DEF ArchiveCutoff
    <3>8. SweepInv'
      <4> DEFINE r == [rows |-> stored, candidates |-> Candidates(from), from |-> from, keep |-> KeepCutoff,
                       at |-> now]
      <4>1. r.candidates = Candidates(from) /\ r.from = from /\ r.keep = KeepCutoff /\ r.at = now
        OBVIOUS
      <4>2. sweep' = {r} /\ Pending' = Pending /\ now' = now /\ lastSweep' = lastSweep
        BY <3>1, <3>2 DEF Pending, diskVars
      <4> HIDE DEF r
      <4> QED BY <2>1, <3>2, <3>4, <3>5, <3>6, <3>7, <4>1, <4>2 DEF SweepInv
    <3> QED BY <3>3, <3>8 DEF ArchiveInv
  <2>10. CASE SweepDone
    <3>1. PICK s \in sweep :
            /\ archived' = archived \cup s.candidates
            /\ IF s.candidates = {} THEN UNCHANGED <<arc, arcCache>>
               ELSE arc' = Max(s.candidates \cup {s.from}) /\ arcCache' = {Max(s.candidates \cup {s.from})}
            /\ DeleteCovered(s, Max(s.candidates \cup {s.from}))
            /\ lastSweep' = s.at /\ sweep' = {}
            /\ UNCHANGED <<now, hotLoaded, batches, reported, overtaken>>
      BY <2>10, Zenon DEF SweepDone
    <3> DEFINE w == Max(s.candidates \cup {s.from})
    <3>2. w \in s.candidates \cup {s.from} /\ w \in Nat
      <4>1. s \in Sweep
        BY DEF ArchiveUnderWay
      <4>2. w \in s.candidates \cup {s.from} /\ w \in 0..MaxNow
        BY <4>1, SweepWatermark
      <4> QED BY <4>2
    <3>3. /\ stored' = stored \ {t \in s.rows : t <= s.keep /\ t <= w}
          /\ memory' = memory \ {t \in s.rows : t <= s.keep /\ t <= w}
      BY <3>1 DEF DeleteCovered
    <3>4. arc' \in {arc, w} /\ arcCache' \in {arcCache, {w}}
      BY <3>1, Zenon
    <3> HIDE DEF w
    <3>5. \A t \in Pending : t \in s.candidates \/ t > w
      <4>1. \A c \in s.candidates : c + ArchiveAfter <= s.at
        BY <2>0, Zenon DEF SweepInv
      <4>2. ASSUME NEW t \in Pending, t \notin s.candidates
            PROVE  t \in Nat /\ t > s.from /\ t + ArchiveAfter > s.at
        BY <2>0, <2>1, <4>2 DEF SweepInv, Pending
      <4>3. CASE w \in s.candidates
        <5>1. w + ArchiveAfter <= s.at
          BY <4>1, <4>3
        <5> QED BY <2>3, <3>2, <4>2, <5>1
      <4> QED BY <3>2, <4>2, <4>3
    <3>6. Pending' \subseteq Pending \ s.candidates
      BY <3>1, <3>3 DEF Pending
    <3>7. KnownInv'
      <4>1. reported' \subseteq stored' \cup archived' \cup overtaken'
        <5> SUFFICES ASSUME NEW t \in reported, t \notin stored' PROVE t \in archived' \cup overtaken'
          BY <3>1
        <5>1. CASE t \in stored
          <6>1. t <= w /\ t \in Nat /\ w \in Nat
            BY <2>1, <3>2, <3>3, <5>1
          <6> QED BY <3>1, <3>5, <5>1, <6>1 DEF Pending
        <5>2. CASE t \notin stored
          BY <2>0, <3>1, <5>2 DEF KnownInv
        <5> QED BY <5>1, <5>2
      <4>2. stored' \subseteq reported' /\ \A t \in reported' \cup memory' : t <= now'
        BY <2>0, <3>1, <3>3 DEF KnownInv
      <4>3. lastSweep' <= now' /\ now' <= lastSweep' + SweepEvery + MaxOverdue
        <5>1. /\ s.at \in Nat /\ s.at <= now /\ lastSweep + SweepEvery <= s.at
              /\ now <= lastSweep + SweepEvery + MaxOverdue
          BY <2>0, <2>3 DEF SweepInv, KnownInv
        <5> QED BY <2>1, <3>1, <5>1
      <4> QED BY <4>1, <4>2, <4>3, Zenon DEF KnownInv
    <3>8. MemoryInv'
      BY <2>0, <3>1, <3>3 DEF MemoryInv
    <3>9. WatermarkInv' /\ NoRowPassed'
      <4>1. w + ArchiveAfter <= now \/ w = 0
        <5>1. /\ s.at \in Nat /\ s.at <= now /\ (s.from + ArchiveAfter <= now \/ s.from = 0)
              /\ \A c \in s.candidates : c + ArchiveAfter <= s.at
          BY <2>0, <2>3 DEF SweepInv
        <5> QED BY <2>1, <3>2, <5>1
      <4>2. \A t \in Pending' : t > w
        BY <3>5, <3>6
      <4> QED BY <2>0, <3>1, <3>4, <3>6, <4>1, <4>2 DEF WatermarkInv, NoRowPassed, Pending
    <3>10. BatchInv' /\ SweepInv'
      BY <2>0, <3>1, <3>6 DEF BatchInv, SweepInv
    <3>11. SweptInv'
      BY <2>0, <3>1, <3>6 DEF SweptInv, SweepInv
    <3>12. GoneInv'
      <4>1. s.keep + Keep <= now \/ s.keep = 0
        BY <2>0 DEF SweepInv
      <4>2. \A t \in stored \ stored' : t + Keep <= now
        BY <2>1, <2>3, <3>3, <4>1
      <4> QED BY <2>0, <3>1, <4>2 DEF GoneInv
    <3> QED BY <3>7, <3>8, <3>9, <3>10, <3>11, <3>12 DEF ArchiveInv
  <2>11. CASE SweepFails
    <3>1. PICK s \in sweep :
            /\ \E part \in SUBSET s.candidates : archived' = archived \cup part
            /\ arc' = arc /\ DeleteCovered(s, s.from) /\ sweep' = {}
            /\ UNCHANGED <<now, lastSweep, hotLoaded, arcCache, batches, reported, overtaken>>
      BY <2>11, Zenon DEF SweepFails, SweepHolds
    <3>2. /\ stored' = stored \ {t \in s.rows : t <= s.keep /\ t <= s.from}
          /\ memory' = memory \ {t \in s.rows : t <= s.keep /\ t <= s.from}
      BY <3>1 DEF DeleteCovered
    <3>3. Pending' \subseteq Pending
      BY <3>1, <3>2 DEF Pending
    <3>4. KnownInv'
      <4>1. \A t \in Pending : t > s.from
        BY <2>0 DEF SweepInv
      <4>2. Pending \subseteq stored'
        BY <2>1, <2>3, <3>2, <4>1 DEF Pending
      <4>3. reported' \subseteq stored' \cup archived' \cup overtaken'
        BY <2>0, <3>1, <4>2 DEF KnownInv, Pending
      <4> QED BY <2>0, <2>1, <3>1, <3>2, <4>3 DEF KnownInv
    <3>5. MemoryInv' /\ WatermarkInv' /\ BatchInv' /\ SweepInv' /\ SweptInv'
      BY <2>0, <3>1, <3>2, <3>3 DEF MemoryInv, WatermarkInv, BatchInv, SweepInv, SweptInv
    <3>6. NoRowPassed'
      BY <2>0, <3>1, <3>3 DEF NoRowPassed, Pending
    <3>7. GoneInv'
      <4>1. s.keep + Keep <= now \/ s.keep = 0
        BY <2>0 DEF SweepInv
      <4>2. \A t \in stored \ stored' : t + Keep <= now
        BY <2>1, <2>3, <3>2, <4>1
      <4> QED BY <2>0, <3>1, <4>2 DEF GoneInv
    <3> QED BY <3>4, <3>5, <3>6, <3>7 DEF ArchiveInv
  <2>12. CASE Evict
    <3>1. /\ archived \subseteq archived'
          /\ memory' = {} /\ ~ hotLoaded' /\ arcCache' = {} /\ batches' = {} /\ sweep' = {}
          /\ UNCHANGED <<now, stored, arc, lastSweep, reported, overtaken>>
      BY <2>12 DEF Evict, FreshInstance
    <3>2. Pending' \subseteq Pending
      BY <3>1 DEF Pending
    <3>3. KnownInv' /\ MemoryInv' /\ WatermarkInv' /\ BatchInv' /\ SweepInv'
      BY <2>0, <2>1, <3>1 DEF KnownInv, MemoryInv, WatermarkInv, BatchInv, SweepInv
    <3>4. SweptInv' /\ GoneInv' /\ NoRowPassed'
      BY <2>0, <3>1, <3>2 DEF SweptInv, GoneInv, NoRowPassed, Pending
    <3> QED BY <3>3, <3>4 DEF ArchiveInv
  <2>13. CASE Tick
    <3>1. /\ now' = now + 1 /\ now < lastSweep + SweepEvery + MaxOverdue
          /\ UNCHANGED <<diskVars, frameVars, batches, sweep, reported, overtaken>>
      BY <2>13 DEF Tick
    <3>2. KnownInv'
      BY <2>0, <2>1, <3>1 DEF KnownInv, diskVars, frameVars
    <3>3. MemoryInv'
      BY <2>0, <2>1, <3>1 DEF MemoryInv, diskVars, frameVars
    <3>4. WatermarkInv' /\ BatchInv' /\ NoRowPassed' /\ SweptInv' /\ GoneInv'
      <4>1. WatermarkInv' /\ GoneInv'
        BY <2>0, <2>1, <3>1 DEF WatermarkInv, GoneInv, diskVars, frameVars
      <4>2. BatchInv'
        <5>1. batches' = batches /\ Pending' = Pending
          BY <3>1 DEF Pending, diskVars
        <5> HIDE DEF Pending
        <5> QED BY <2>0, <2>1, <2>2, <3>1, <5>1 DEF BatchInv
      <4>3. NoRowPassed' /\ SweptInv'
        BY <2>0, <3>1 DEF NoRowPassed, SweptInv, Pending, diskVars, frameVars
      <4> QED BY <4>1, <4>2, <4>3
    <3>5. SweepInv'
      <4>1. sweep' = sweep /\ Pending' = Pending /\ lastSweep' = lastSweep
        BY <3>1 DEF Pending, diskVars
      <4> HIDE DEF Pending
      <4>2. ASSUME NEW s \in sweep
            PROVE  /\ s.at <= now'
                   /\ s.from + ArchiveAfter <= now' \/ s.from = 0
                   /\ s.keep + Keep <= now' \/ s.keep = 0
        <5>1. s.from \in Nat /\ s.keep \in Nat /\ s.at \in Nat
          BY <2>3
        <5> QED BY <2>0, <2>1, <3>1, <5>1 DEF SweepInv
      <4> QED BY <2>0, <4>1, <4>2 DEF SweepInv
    <3> QED BY <3>2, <3>3, <3>4, <3>5 DEF ArchiveInv
  <2>14. CASE UNCHANGED archiveVars
    BY <2>0, <2>14
    DEF archiveVars, diskVars, frameVars, ArchiveInv, KnownInv, MemoryInv, WatermarkInv, BatchInv, SweepInv,
        SweptInv, GoneInv, NoRowPassed, Pending
  <2> QED BY <2>4, <2>5, <2>6, <2>7, <2>8, <2>9, <2>10, <2>11, <2>12, <2>13, <2>14 DEF ArchiveNext
<1> QED BY <1>1, <1>2, ArchiveTypeInductive, PTL DEF ArchiveSpec

\* However frames, sweeps, failures and evictions interleave, and however long instances
\* live, the watermark passes no row but those an increment did not read.
THEOREM RowsAreNotPassed == ArchiveSpec => []NoRowPassed
<1>1. ArchiveInv => NoRowPassed
  BY DEF ArchiveInv
<1> QED BY <1>1, ArchiveInvInductive, PTL

\* Rows later than t that can be on the list.
LEMMA FewAreLater ==
  ASSUME NEW rows, NEW t \in Nat, NEW n \in Nat, NEW k \in Nat,
         rows \subseteq 0..n, t <= n, t + k > n
  PROVE  Cardinality({x \in rows : x > t}) < k
<1>1. {x \in rows : x > t} \in SUBSET ((t + 1)..n)
  <2>1. \A x \in 0..n : x > t => x \in (t + 1)..n
    OBVIOUS
  <2> QED BY <2>1
<1>2. IsFiniteSet((t + 1)..n) /\ Cardinality((t + 1)..n) = n - t
  <2>1. t + 1 \in Int /\ n \in Int
    OBVIOUS
  <2>2. /\ IsFiniteSet((t + 1)..n)
        /\ Cardinality((t + 1)..n) = IF t + 1 > n THEN 0 ELSE n - (t + 1) + 1
    BY <2>1, FS_Interval
  <2> QED BY <2>2
<1>3. /\ Cardinality({x \in rows : x > t}) <= n - t
      /\ IsFiniteSet({x \in rows : x > t})
  BY <1>1, <1>2, FS_Subset
<1>4. Cardinality({x \in rows : x > t}) \in Nat
  BY <1>3, FS_CardinalityType
<1> QED BY <1>3, <1>4

\* The window holds a row until a sweep has had it: 60 + 60 minutes, and as many as sweeps
\* fail in a row, of the 240 that are kept unless METRICS_KEEP_MIN says less (do-metrics.js:794).
Roomy == ArchiveAfter + SweepEvery + MaxOverdue <= Keep

\* Nor is there a hole in any history, but for rows overtaken once they are out of the window.
THEOREM HistoryHasNoHoles ==
  ASSUME Roomy PROVE ArchiveSpec => []HistoryIsWhole
<1>1. ArchiveTypeOK /\ ArchiveInv => HistoryIsWhole
  <2> SUFFICES ASSUME ArchiveData, ArchiveInv, NEW minutes \in Minute,
                      NEW t \in reported, t + minutes > now, t \notin overtaken \/ t + Keep > now
               PROVE  t \in MonitorRows(minutes)
    BY ArchiveTypeParts DEF HistoryIsWhole
  <2>1. /\ now \in Minute /\ lastSweep \in Nat /\ t \in Minute /\ t <= now
        /\ stored \subseteq Minute /\ memory \subseteq Minute
        /\ \A x \in stored \cup memory : x <= now
    BY ArchiveConstants DEF ArchiveData, ArchiveInv, KnownInv
  <2> USE ArchiveConstants DEF Minute, Roomy
  <2>2. HotRows \subseteq 0..now
    BY <2>1 DEF HotRows
  <2>3. t \in HotRows => t \in Newest(HotRows, minutes)
    <3>1. Cardinality({x \in HotRows : x > t}) < minutes
      <4>1. t \in Nat /\ now \in Nat /\ minutes \in Nat
        BY <2>1
      <4> QED BY <2>1, <2>2, <4>1, FewAreLater
    <3> QED BY <3>1, Zenon DEF Newest
  <2>4. t \in stored /\ t \notin HotRows => t + Keep < now
    BY <2>1 DEF HotRows, ArchiveInv, MemoryInv
  <2>5. t \notin HotRows => t + Keep <= now
    BY <2>1, <2>4 DEF ArchiveInv, GoneInv
  <2>6. t \notin HotRows => t \in archived
    <3>1. t \in Pending => t + Keep > now
      <4>1. now <= lastSweep + SweepEvery + MaxOverdue
        BY DEF ArchiveInv, KnownInv
      <4>2. t \in Pending => t + ArchiveAfter > lastSweep
        BY DEF ArchiveInv, SweptInv
      <4> QED BY <2>1, <4>1, <4>2
    <3>2. t \in stored \cup archived \cup overtaken
      BY DEF ArchiveInv, KnownInv
    <3> QED BY <2>1, <2>5, <3>1, <3>2 DEF Pending
  <2>7. t + Keep <= now => t + ArchiveAfter < now /\ minutes > ArchiveAfter
    BY <2>1
  <2> QED BY <2>1, <2>3, <2>5, <2>6, <2>7 DEF MonitorRows
<1> QED BY <1>1, ArchiveInvInductive, ArchiveTypeInductive, PTL

--------------------------------------------------------------------------------
(* Bags of ledger entries.                                                     *)

LEMMA LedgerConstants ==
  Gap \in Nat /\ Gap > 0 /\ AlarmEvery \in Nat /\ MaxClock \in Nat /\ MaxClock > 0
BY LedgerAssumption

LEMMA CopiesCount ==
  ASSUME NEW b, IsLedger(b), NEW e
  PROVE  Booked(e, b) \in Nat
BY DEF IsLedger, IsABag, Booked, BagIn, BagToSet

LEMMA NoCopies ==
  IsLedger(EmptyBag) /\ \A e : Booked(e, EmptyBag) = 0
BY DEF IsLedger, IsABag, EmptyBag, SetToBag, Booked, BagIn, BagToSet

LEMMA CopiesAdd ==
  ASSUME NEW a, NEW b, IsLedger(a), IsLedger(b)
  PROVE  IsLedger(a (+) b) /\ \A e : Booked(e, a (+) b) = Booked(e, a) + Booked(e, b)
<1> DEFINE s == a (+) b
<1>1. DOMAIN s = DOMAIN a \cup DOMAIN b /\ s = [e \in DOMAIN s |-> s[e]]
  BY DEF (+)
<1>2. \A e \in DOMAIN s :
        s[e] = (IF e \in DOMAIN a THEN a[e] ELSE 0) + (IF e \in DOMAIN b THEN b[e] ELSE 0)
  BY DEF (+)
<1> HIDE DEF s
<1>3. IsLedger(s)
  BY <1>1, <1>2 DEF IsLedger, IsABag
<1>4. \A e : Booked(e, s) = Booked(e, a) + Booked(e, b)
  BY <1>1, <1>2 DEF IsLedger, IsABag, Booked, BagIn, BagToSet
<1> QED BY <1>3, <1>4 DEF s

LEMMA CopiesOfTicks ==
  ASSUME NEW from \in Nat, NEW to \in Nat, to <= MaxClock, NEW kind \in {"on", "off"}
  PROVE  /\ IsLedger(Ticks(from, to, kind))
         /\ \A t \in Nat, k \in {"on", "off"} :
              Booked(<<t, k>>, Ticks(from, to, kind)) = IF k = kind /\ from < t /\ t <= to THEN 1 ELSE 0
<1> DEFINE D == {<<t, kind>> : t \in (from + 1)..to}
<1>1. Ticks(from, to, kind) = [e \in D |-> 1]
  BY DEF Ticks, SetToBag
<1>2. D \subseteq Entry
  BY LedgerConstants DEF Entry, Time
<1>3. \A t \in Nat, k \in {"on", "off"} : <<t, k>> \in D <=> k = kind /\ from < t /\ t <= to
  OBVIOUS
<1> HIDE DEF D
<1> QED BY <1>1, <1>2, <1>3 DEF IsLedger, IsABag, Booked, BagIn, BagToSet

LEMMA CopiesOfSpan ==
  ASSUME NEW from \in Nat, NEW to \in Nat, to <= MaxClock
  PROVE  /\ IsLedger(Span(from, to))
         /\ \A t \in Nat :
              /\ Copies(Span(from, to), t) = IF from < t /\ t <= to THEN 1 ELSE 0
              /\ Booked(<<t, "off">>, Span(from, to)) > 0 => from < t /\ t + Gap <= to
<1> USE LedgerConstants DEF Copies
<1>1. CASE to <= from
  BY <1>1, NoCopies DEF Span
<1>2. CASE to > from /\ to - from <= Gap
  BY <1>2, CopiesOfTicks DEF Span
<1>3. CASE to > from /\ to - from > Gap
  <2> DEFINE a == Ticks(from, to - Gap, "off")
             b == Ticks(to - Gap, to, "on")
  <2>split. to - Gap \in Nat /\ to - Gap <= MaxClock /\ Span(from, to) = a (+) b
    BY <1>3 DEF Span
  <2>first. /\ IsLedger(a)
            /\ \A t \in Nat, k \in {"on", "off"} :
                 Booked(<<t, k>>, a) = IF k = "off" /\ from < t /\ t <= to - Gap THEN 1 ELSE 0
    BY <2>split, CopiesOfTicks
  <2>second. /\ IsLedger(b)
             /\ \A t \in Nat, k \in {"on", "off"} :
                  Booked(<<t, k>>, b) = IF k = "on" /\ to - Gap < t /\ t <= to THEN 1 ELSE 0
    BY <2>split, CopiesOfTicks
  <2> HIDE DEF a, b
  <2>total. /\ IsLedger(Span(from, to))
            /\ \A e : Booked(e, Span(from, to)) = Booked(e, a) + Booked(e, b)
    BY <2>split, <2>first, <2>second, CopiesAdd
  <2> QED BY <1>3, <2>split, <2>first, <2>second, <2>total
<1> QED BY <1>1, <1>2, <1>3

--------------------------------------------------------------------------------
(* The inductive invariant.                                                    *)

OffTicks(b, t) == Booked(<<t, "off">>, b)

Written(t) == Copies(metricsDay, t) + Copies(flushing, t)

\* LedgerTypeOK, with what a cursor is spelled out.
LedgerData ==
  /\ clock \in Time
  /\ lastSeen \in 0..MaxClock /\ daycur \in 0..MaxClock /\ seen \in 0..MaxClock /\ started \in 0..MaxClock
  /\ firstFrame \in 0..MaxClock /\ lastFrame \in 0..MaxClock
  /\ cursor = {} \/ \E c \in Time : cursor = {c}
  /\ dayCurLoaded \in BOOLEAN /\ dayCurDirty \in BOOLEAN /\ forgotten \in BOOLEAN /\ dropped \in BOOLEAN
  /\ IsLedger(dayPending) /\ IsLedger(flushing) /\ IsLedger(metricsDay)
  /\ seeding \subseteq Time /\ up \subseteq Time
  /\ alarm \in {"idle", "selected", "seeding", "account", "flush", "batch"}

\* Everything happened already, and a cursor is never behind the one on disk.
TimesInv ==
  /\ lastSeen = lastFrame /\ firstFrame <= lastFrame /\ lastFrame <= clock
  /\ firstFrame = 0 => lastFrame = 0
  /\ daycur <= clock /\ started <= clock
  /\ \A c \in cursor : c <= clock /\ daycur <= c
  /\ \A t \in up : t <= lastFrame
  /\ seen <= lastSeen /\ (alarm = "seeding" => seen > 0)

\* When increments are in memory there is a cursor that goes with them; one that is
\* not known is being asked for.
CursorInv ==
  /\ dayPending # EmptyBag => dayCurDirty
  /\ dayCurDirty => cursor # {}
  /\ dayPending = EmptyBag /\ daycur > 0 => cursor \subseteq {daycur}
  /\ alarm # "batch" => flushing = EmptyBag
  /\ alarm = "account" => cursor # {}
  /\ dayCurLoaded /\ cursor = {} => seeding # {} \/ alarm = "seeding"
  /\ alarm = "seeding" => dayCurLoaded /\ daycur = 0 /\ seeding = {} /\ cursor \subseteq {lastSeen}
  /\ seeding # {} =>
       /\ seeding = {clock} /\ lastSeen = clock /\ dayCurLoaded
       /\ cursor \subseteq {clock} /\ daycur \in {0, clock}

\* Nothing is booked twice: what is written is covered by the cursor on disk, what is
\* not by the one in memory.
BooksInv ==
  \A t \in Time :
    /\ Written(t) + Copies(dayPending, t) <= 1
    /\ Written(t) > 0 => t <= daycur
    /\ Copies(dayPending, t) > 0 => \A c \in cursor : t <= c

\* As long as no increments are lost the cursor does not fall behind a report.
SeenInv ==
  ~ forgotten => /\ \A c \in cursor : lastFrame <= c
                 /\ cursor = {} /\ daycur > 0 => lastFrame <= daycur

\* An absence is booked up to Gap ago and no later.
OffInv ==
  \A t \in Time : OffTicks(metricsDay, t) + OffTicks(flushing, t) + OffTicks(dayPending, t) > 0 =>
    t + Gap <= clock /\ (t \in up => forgotten)

\* What a cursor covers is booked.
WholeInv ==
  ~ dropped =>
    /\ \A t \in Time : firstFrame < t /\ t <= daycur => Written(t) > 0
    /\ \A t \in Time, c \in cursor : firstFrame < t /\ t <= c => Written(t) + Copies(dayPending, t) > 0
    /\ lastFrame > 0 /\ cursor = {} /\ daycur = 0 => seeding # {} /\ firstFrame = clock
    /\ alarm # "seeding"

LedgerInv ==
  LedgerData /\ TimesInv /\ CursorInv /\ BooksInv /\ SeenInv /\ OffInv /\ WholeInv

\* The object leaves memory at any time, but storage and D1 answer.  Without this the
\* promises do not hold: see the README.
LossOnly == LedgerFaults \subseteq {"evict"}

LEMMA CountsAreNat ==
  ASSUME NEW b, IsLedger(b), NEW t
  PROVE  Copies(b, t) \in Nat /\ OffTicks(b, t) \in Nat /\ OffTicks(b, t) <= Copies(b, t)
BY CopiesCount DEF Copies, OffTicks

LEMMA CountsOfEmpty ==
  IsLedger(EmptyBag) /\ \A t : Copies(EmptyBag, t) = 0 /\ OffTicks(EmptyBag, t) = 0
BY NoCopies DEF Copies, OffTicks

LEMMA CountsAdd ==
  ASSUME NEW a, NEW b, IsLedger(a), IsLedger(b)
  PROVE  /\ IsLedger(a (+) b)
         /\ \A t : /\ Copies(a (+) b, t) = Copies(a, t) + Copies(b, t)
                   /\ OffTicks(a (+) b, t) = OffTicks(a, t) + OffTicks(b, t)
<1>1. IsLedger(a (+) b) /\ \A e : Booked(e, a (+) b) = Booked(e, a) + Booked(e, b)
  BY CopiesAdd
<1>2. \A e : Booked(e, a) \in Nat /\ Booked(e, b) \in Nat
  BY CopiesCount
<1> QED BY <1>1, <1>2 DEF Copies, OffTicks

LEMMA NoneIsEmpty ==
  ASSUME NEW b, IsLedger(b), \A t \in Time : Copies(b, t) = 0
  PROVE  b = EmptyBag
<1>1. ASSUME NEW e \in DOMAIN b PROVE FALSE
  <2>1. e \in Entry /\ Booked(e, b) > 0 /\ \A d : Booked(d, b) \in Nat
    BY CopiesCount DEF IsLedger, IsABag, Booked, BagIn, BagToSet
  <2>2. PICK t \in Time, k \in {"on", "off"} : e = <<t, k>>
    BY <2>1 DEF Entry
  <2>3. Copies(b, t) > 0
    BY <2>1, <2>2 DEF Copies
  <2> QED BY <2>3
<1>2. b = [e \in {} |-> 1]
  BY <1>1 DEF IsLedger, IsABag
<1> QED BY <1>2 DEF EmptyBag, SetToBag

LEMMA OneCursor == \A x : (CHOOSE y \in {x} : TRUE) = x
OBVIOUS

LEMMA OtherFaultsNever == LossOnly => "get" \notin LedgerFaults /\ "seed" \notin LedgerFaults
BY DEF LossOnly

LEMMA Accumulated ==
  ASSUME LedgerData, NEW c, NEW t \in Time, AccumulateDay(c, t), c = {} \/ \E x \in Time : c = {x}
  PROVE  /\ cursor' = {t} /\ dayCurDirty' = TRUE /\ IsLedger(dayPending')
         /\ c = {} => dayPending' = dayPending
         /\ \A x \in c, s \in Time :
              /\ Copies(dayPending', s) = Copies(dayPending, s) + (IF x < s /\ s <= t THEN 1 ELSE 0)
              /\ OffTicks(dayPending', s) > OffTicks(dayPending, s) => x < s /\ s + Gap <= t
<1>1. CASE c = {}
  BY <1>1 DEF AccumulateDay, LedgerData
<1>2. CASE c # {}
  <2>1. PICK x \in Time : c = {x}
    BY <1>2
  <2>2. cursor' = {t} /\ dayCurDirty' = TRUE /\ dayPending' = dayPending (+) Span(x, t)
    BY <2>1 DEF AccumulateDay
  <2>3. x \in Nat /\ t \in Nat /\ t <= MaxClock
    BY LedgerConstants DEF Time
  <2>4. /\ IsLedger(Span(x, t))
        /\ \A s \in Nat : /\ Copies(Span(x, t), s) = IF x < s /\ s <= t THEN 1 ELSE 0
                          /\ OffTicks(Span(x, t), s) > 0 => x < s /\ s + Gap <= t
    BY <2>3, CopiesOfSpan DEF OffTicks
  <2>5. /\ IsLedger(dayPending')
        /\ \A s : /\ Copies(dayPending', s) = Copies(dayPending, s) + Copies(Span(x, t), s)
                  /\ OffTicks(dayPending', s) = OffTicks(dayPending, s) + OffTicks(Span(x, t), s)
    BY <2>2, <2>4, CountsAdd DEF LedgerData
  <2>6. \A s : OffTicks(dayPending, s) \in Nat /\ OffTicks(Span(x, t), s) \in Nat
    BY <2>4, CountsAreNat DEF LedgerData
  <2>7. \A s \in Time : s \in Nat
    BY LedgerConstants DEF Time
  <2> QED BY <2>1, <2>2, <2>4, <2>5, <2>6, <2>7
<1> QED BY <1>1, <1>2
LEMMA Numbers ==
  ASSUME LedgerData
  PROVE  /\ clock \in Nat /\ lastSeen \in Nat /\ daycur \in Nat /\ seen \in Nat /\ started \in Nat
         /\ firstFrame \in Nat /\ lastFrame \in Nat /\ clock > 0
         /\ \A t \in Time : t \in Nat /\ t > 0 /\ t \in 0..MaxClock
         /\ \A t \in Nat : t > 0 /\ t <= clock => t \in Time
         /\ \A t : /\ Copies(dayPending, t) \in Nat /\ Copies(flushing, t) \in Nat /\ Copies(metricsDay, t) \in Nat
                   /\ OffTicks(dayPending, t) \in Nat /\ OffTicks(flushing, t) \in Nat /\ OffTicks(metricsDay, t) \in Nat
                   /\ OffTicks(dayPending, t) <= Copies(dayPending, t) /\ OffTicks(flushing, t) <= Copies(flushing, t)
                   /\ OffTicks(metricsDay, t) <= Copies(metricsDay, t)
BY LedgerConstants, CountsAreNat DEF LedgerData, Time

LEMMA AbsenceAdded ==
  ASSUME LedgerData, NEW c \in Time, NEW e \in Time, dayPending' = dayPending (+) Ticks(c, e, "off")
  PROVE  /\ IsLedger(dayPending')
         /\ \A t \in Time :
              /\ Copies(dayPending', t) = Copies(dayPending, t) + (IF c < t /\ t <= e THEN 1 ELSE 0)
              /\ OffTicks(dayPending', t) = OffTicks(dayPending, t) + (IF c < t /\ t <= e THEN 1 ELSE 0)
<1>1. c \in Nat /\ e \in Nat /\ e <= MaxClock /\ \A t \in Time : t \in Nat
  BY LedgerConstants DEF Time
<1> DEFINE b == Ticks(c, e, "off")
<1>2. /\ IsLedger(b)
      /\ \A t \in Nat, k \in {"on", "off"} : Booked(<<t, k>>, b) = IF k = "off" /\ c < t /\ t <= e THEN 1 ELSE 0
  BY <1>1, CopiesOfTicks
<1> HIDE DEF b
<1>3. \A t \in Time : /\ Booked(<<t, "on">>, b) = 0
                      /\ Booked(<<t, "off">>, b) = IF c < t /\ t <= e THEN 1 ELSE 0
  BY <1>1, <1>2
<1>a. \A x : Booked(x, b) \in Nat
  BY <1>2, CopiesCount
<1>4. \A t \in Time : Copies(b, t) = OffTicks(b, t) /\ OffTicks(b, t) = IF c < t /\ t <= e THEN 1 ELSE 0
  <2> SUFFICES ASSUME NEW t \in Time
               PROVE  Copies(b, t) = OffTicks(b, t) /\ OffTicks(b, t) = IF c < t /\ t <= e THEN 1 ELSE 0
    OBVIOUS
  <2>1. Booked(<<t, "on">>, b) = 0 /\ Booked(<<t, "off">>, b) \in Nat
    BY <1>3, <1>a
  <2> QED BY <1>3, <2>1 DEF Copies, OffTicks
<1>5. IsLedger(dayPending) /\ dayPending' = dayPending (+) b
  BY DEF LedgerData, b
<1>6. /\ IsLedger(dayPending (+) b)
      /\ \A t : /\ Copies(dayPending (+) b, t) = Copies(dayPending, t) + Copies(b, t)
                /\ OffTicks(dayPending (+) b, t) = OffTicks(dayPending, t) + OffTicks(b, t)
  BY <1>2, <1>5, CountsAdd
<1> QED BY <1>4, <1>5, <1>6

LEMMA StutterKeeps ==
  ASSUME LedgerInv, LossOnly, UNCHANGED ledgerVars
  PROVE  LedgerInv'
<1> USE Numbers, LedgerConstants, OtherFaultsNever DEF LedgerInv, cursorVars, alarmVars, historyVars
<1>1. LedgerData'
  BY DEF LedgerData, TimesInv, CursorInv, ledgerVars
<1>2. TimesInv'
  BY DEF LedgerData, TimesInv, CursorInv, ledgerVars
<1>3. CursorInv'
  BY DEF LedgerData, TimesInv, CursorInv, ledgerVars
<1>4. BooksInv'
  BY DEF LedgerData, TimesInv, CursorInv, BooksInv, Written, ledgerVars
<1>5. SeenInv'
  BY DEF LedgerData, TimesInv, CursorInv, SeenInv, ledgerVars
<1>6. OffInv'
  BY DEF LedgerData, TimesInv, CursorInv, BooksInv, Written, SeenInv, OffInv, ledgerVars
<1>7. WholeInv'
  BY DEF LedgerData, TimesInv, CursorInv, BooksInv, Written, WholeInv, ledgerVars
<1> QED BY <1>1, <1>2, <1>3, <1>4, <1>5, <1>6, <1>7 DEF LedgerInv

LEMMA ClockKeeps ==
  ASSUME LedgerInv, LossOnly, ClockTick
  PROVE  LedgerInv'
<1> USE Numbers, LedgerConstants, OtherFaultsNever DEF LedgerInv, cursorVars, alarmVars, historyVars
<1>1. LedgerData'
  BY DEF LedgerData, TimesInv, CursorInv, ClockTick, Time
<1>2. TimesInv'
  BY DEF LedgerData, TimesInv, CursorInv, ClockTick, Time
<1>3. CursorInv'
  BY DEF LedgerData, TimesInv, CursorInv, ClockTick, Time
<1>4. BooksInv'
  BY DEF LedgerData, TimesInv, CursorInv, BooksInv, Written, ClockTick, Time
<1>5. SeenInv'
  BY DEF LedgerData, TimesInv, CursorInv, SeenInv, ClockTick, Time
<1>6. OffInv'
  BY DEF LedgerData, TimesInv, CursorInv, BooksInv, Written, SeenInv, OffInv, ClockTick, Time
<1>7. WholeInv'
  BY DEF LedgerData, TimesInv, CursorInv, BooksInv, Written, WholeInv, ClockTick, Time
<1> QED BY <1>1, <1>2, <1>3, <1>4, <1>5, <1>6, <1>7 DEF LedgerInv

LEMMA FiresKeeps ==
  ASSUME LedgerInv, LossOnly, AlarmFires
  PROVE  LedgerInv'
<1> USE Numbers, LedgerConstants, OtherFaultsNever DEF LedgerInv, cursorVars, alarmVars, historyVars
<1>1. LedgerData'
  BY DEF LedgerData, TimesInv, CursorInv, AlarmFires
<1>2. TimesInv'
  BY DEF LedgerData, TimesInv, CursorInv, AlarmFires
<1>3. CursorInv'
  BY DEF LedgerData, TimesInv, CursorInv, AlarmFires
<1>4. BooksInv'
  BY DEF LedgerData, TimesInv, CursorInv, BooksInv, Written, AlarmFires
<1>5. SeenInv'
  BY DEF LedgerData, TimesInv, CursorInv, SeenInv, AlarmFires
<1>6. OffInv'
  BY DEF LedgerData, TimesInv, CursorInv, BooksInv, Written, SeenInv, OffInv, AlarmFires
<1>7. WholeInv'
  BY DEF LedgerData, TimesInv, CursorInv, BooksInv, Written, WholeInv, AlarmFires
<1> QED BY <1>1, <1>2, <1>3, <1>4, <1>5, <1>6, <1>7 DEF LedgerInv

LEMMA LooksKeeps ==
  ASSUME LedgerInv, LossOnly, AlarmLooks
  PROVE  LedgerInv'
<1> USE Numbers, LedgerConstants, OtherFaultsNever DEF LedgerInv, cursorVars, alarmVars, historyVars
<1>1. CASE UNCHANGED <<cursor, dayCurLoaded>> /\ alarm' = "flush"
  <2>LedgerData. LedgerData'
    BY <1>1 DEF LedgerData, TimesInv, CursorInv, AlarmLooks
  <2>TimesInv. TimesInv'
    BY <1>1 DEF LedgerData, TimesInv, CursorInv, AlarmLooks
  <2>CursorInv. CursorInv'
    BY <1>1 DEF LedgerData, TimesInv, CursorInv, AlarmLooks
  <2>BooksInv. BooksInv'
    BY <1>1 DEF LedgerData, TimesInv, CursorInv, BooksInv, Written, AlarmLooks
  <2>SeenInv. SeenInv'
    BY <1>1 DEF LedgerData, TimesInv, CursorInv, SeenInv, AlarmLooks
  <2>OffInv. OffInv'
    BY <1>1 DEF LedgerData, TimesInv, CursorInv, BooksInv, Written, SeenInv, OffInv, AlarmLooks
  <2>WholeInv. WholeInv'
    BY <1>1 DEF LedgerData, TimesInv, CursorInv, BooksInv, Written, WholeInv, AlarmLooks
  <2> QED BY <2>LedgerData, <2>TimesInv, <2>CursorInv, <2>BooksInv, <2>SeenInv, <2>OffInv,
             <2>WholeInv DEF LedgerInv
<1>2. CASE seen' > 0 /\ cursor # {} /\ alarm' = "account" /\ UNCHANGED <<cursor, dayCurLoaded>>
  <2>LedgerData. LedgerData'
    BY <1>2 DEF LedgerData, TimesInv, CursorInv, AlarmLooks
  <2>TimesInv. TimesInv'
    BY <1>2 DEF LedgerData, TimesInv, CursorInv, AlarmLooks
  <2>CursorInv. CursorInv'
    BY <1>2 DEF LedgerData, TimesInv, CursorInv, AlarmLooks
  <2>BooksInv. BooksInv'
    BY <1>2 DEF LedgerData, TimesInv, CursorInv, BooksInv, Written, AlarmLooks
  <2>SeenInv. SeenInv'
    BY <1>2 DEF LedgerData, TimesInv, CursorInv, SeenInv, AlarmLooks
  <2>OffInv. OffInv'
    BY <1>2 DEF LedgerData, TimesInv, CursorInv, BooksInv, Written, SeenInv, OffInv, AlarmLooks
  <2>WholeInv. WholeInv'
    BY <1>2 DEF LedgerData, TimesInv, CursorInv, BooksInv, Written, WholeInv, AlarmLooks
  <2> QED BY <2>LedgerData, <2>TimesInv, <2>CursorInv, <2>BooksInv, <2>SeenInv, <2>OffInv,
             <2>WholeInv DEF LedgerInv
<1>3. CASE /\ seen' > 0 /\ cursor = {} /\ started > seen' + Gap /\ dayCurLoaded' = TRUE
           /\ \/ dayCurLoaded /\ alarm' = "account" /\ UNCHANGED cursor
              \/ ~ dayCurLoaded /\ daycur > 0 /\ cursor' = {daycur} /\ alarm' = "account"
              \/ ~ dayCurLoaded /\ daycur = 0 /\ alarm' = "seeding" /\ UNCHANGED cursor
  <2>a. ~ dayCurLoaded /\ seeding = {} /\ seen' <= lastSeen
    BY <1>3 DEF LedgerData, TimesInv, CursorInv, AlarmLooks
  <2>LedgerData. LedgerData'
    BY <1>3, <2>a DEF LedgerData, TimesInv, CursorInv, AlarmLooks
  <2>TimesInv. TimesInv'
    BY <1>3, <2>a DEF LedgerData, TimesInv, CursorInv, AlarmLooks
  <2>CursorInv. CursorInv'
    BY <1>3, <2>a DEF LedgerData, TimesInv, CursorInv, AlarmLooks
  <2>BooksInv. BooksInv'
    BY <1>3, <2>a DEF LedgerData, TimesInv, CursorInv, BooksInv, Written, AlarmLooks
  <2>SeenInv. SeenInv'
    BY <1>3, <2>a DEF LedgerData, TimesInv, CursorInv, SeenInv, AlarmLooks
  <2>OffInv. OffInv'
    BY <1>3, <2>a DEF LedgerData, TimesInv, CursorInv, BooksInv, Written, SeenInv, OffInv, AlarmLooks
  <2>WholeInv. WholeInv'
    BY <1>3, <2>a DEF LedgerData, TimesInv, CursorInv, BooksInv, Written, WholeInv, AlarmLooks
  <2> QED BY <2>LedgerData, <2>TimesInv, <2>CursorInv, <2>BooksInv, <2>SeenInv, <2>OffInv,
             <2>WholeInv DEF LedgerInv
<1> QED BY <1>1, <1>2, <1>3 DEF AlarmLooks

LEMMA SeededKeeps ==
  ASSUME LedgerInv, LossOnly, AlarmSeeded
  PROVE  LedgerInv'
<1> USE Numbers, LedgerConstants, OtherFaultsNever DEF LedgerInv, cursorVars, alarmVars, historyVars
<1>1. LedgerData'
  BY DEF LedgerData, TimesInv, CursorInv, AlarmSeeded
<1>2. TimesInv'
  BY DEF LedgerData, TimesInv, CursorInv, AlarmSeeded
<1>3. CursorInv'
  BY DEF LedgerData, TimesInv, CursorInv, AlarmSeeded
<1>4. BooksInv'
  BY DEF LedgerData, TimesInv, CursorInv, BooksInv, Written, AlarmSeeded
<1>5. SeenInv'
  BY DEF LedgerData, TimesInv, CursorInv, SeenInv, AlarmSeeded
<1>6. OffInv'
  BY DEF LedgerData, TimesInv, CursorInv, BooksInv, Written, SeenInv, OffInv, AlarmSeeded
<1>7. WholeInv'
  BY DEF LedgerData, TimesInv, CursorInv, BooksInv, Written, WholeInv, AlarmSeeded
<1> QED BY <1>1, <1>2, <1>3, <1>4, <1>5, <1>6, <1>7 DEF LedgerInv

LEMMA EndsKeeps ==
  ASSUME LedgerInv, LossOnly, AlarmEnds
  PROVE  LedgerInv'
<1> USE Numbers, LedgerConstants, OtherFaultsNever DEF LedgerInv, cursorVars, alarmVars, historyVars
<1>a. /\ IsLedger(metricsDay (+) flushing)
      /\ \A t : /\ Copies(metricsDay (+) flushing, t) = Copies(metricsDay, t) + Copies(flushing, t)
                /\ OffTicks(metricsDay (+) flushing, t) = OffTicks(metricsDay, t) + OffTicks(flushing, t)
  BY CountsAdd DEF LedgerData
<1>b. IsLedger(EmptyBag) /\ \A t : Copies(EmptyBag, t) = 0 /\ OffTicks(EmptyBag, t) = 0
  BY CountsOfEmpty
<1>1. LedgerData'
  BY <1>a, <1>b DEF LedgerData, TimesInv, CursorInv, AlarmEnds
<1>2. TimesInv'
  BY <1>a, <1>b DEF LedgerData, TimesInv, CursorInv, AlarmEnds
<1>3. CursorInv'
  BY <1>a, <1>b DEF LedgerData, TimesInv, CursorInv, AlarmEnds
<1>4. BooksInv'
  <2> SUFFICES ASSUME NEW s \in Time
               PROVE  /\ Written(s)' + Copies(dayPending', s) <= 1
                      /\ Written(s)' > 0 => s <= daycur'
                      /\ Copies(dayPending', s) > 0 => \A y \in cursor' : s <= y
    BY DEF BooksInv
  <2>w. /\ Written(s) + Copies(dayPending, s) <= 1 /\ (Written(s) > 0 => s <= daycur)
        /\ Copies(dayPending, s) > 0 => \A y \in cursor : s <= y
    BY DEF BooksInv
  <2>n. Written(s) \in Nat /\ Copies(dayPending, s) \in Nat /\ s \in Nat
    BY DEF Written
  <2>v. Written(s)' <= Written(s) /\ UNCHANGED <<dayPending, daycur, cursor>> /\ Written(s)' \in Nat
    BY <1>a, <1>b DEF LedgerData, CursorInv, Written, AlarmEnds
  <2> QED BY <1>a, <1>b, <2>w, <2>v, <2>n DEF LedgerData, TimesInv, CursorInv
<1>5. SeenInv'
  BY <1>a, <1>b DEF LedgerData, TimesInv, CursorInv, SeenInv, AlarmEnds
<1>6. OffInv'
  BY <1>a, <1>b DEF LedgerData, TimesInv, CursorInv, BooksInv, Written, SeenInv, OffInv, AlarmEnds
<1>7. WholeInv'
  BY <1>a, <1>b DEF LedgerData, TimesInv, CursorInv, BooksInv, Written, WholeInv, AlarmEnds
<1> QED BY <1>1, <1>2, <1>3, <1>4, <1>5, <1>6, <1>7 DEF LedgerInv

LEMMA EvictKeeps ==
  ASSUME LedgerInv, LossOnly, EvictLedger
  PROVE  LedgerInv'
<1> USE Numbers, LedgerConstants, OtherFaultsNever DEF LedgerInv, cursorVars, alarmVars, historyVars
<1>a. /\ IsLedger(metricsDay (+) flushing)
      /\ \A t : /\ Copies(metricsDay (+) flushing, t) = Copies(metricsDay, t) + Copies(flushing, t)
                /\ OffTicks(metricsDay (+) flushing, t) = OffTicks(metricsDay, t) + OffTicks(flushing, t)
  BY CountsAdd DEF LedgerData
<1>b. IsLedger(EmptyBag) /\ \A t : Copies(EmptyBag, t) = 0 /\ OffTicks(EmptyBag, t) = 0
  BY CountsOfEmpty
<1>1. LedgerData'
  <2>flags. forgotten' \in BOOLEAN /\ dropped' \in BOOLEAN
    BY DEF EvictLedger
  <2>cleared. /\ cursor' = {} /\ dayCurLoaded' = FALSE /\ dayCurDirty' = FALSE
              /\ dayPending' = EmptyBag /\ flushing' = EmptyBag
              /\ metricsDay' \in {metricsDay, metricsDay (+) flushing}
              /\ seeding' = {} /\ alarm' = "idle" /\ seen' = 0
              /\ UNCHANGED <<clock, lastSeen, daycur, started, firstFrame, lastFrame, up>>
    BY DEF EvictLedger
  <2>day. IsLedger(metricsDay) /\ IsLedger(metricsDay')
    <3>1. IsLedger(metricsDay) /\ IsLedger(metricsDay (+) flushing)
      BY <1>a DEF LedgerData
    <3>2. CASE metricsDay' = metricsDay
      BY <3>1, <3>2
    <3>3. CASE metricsDay' = metricsDay (+) flushing
      BY <3>1, <3>3
    <3> QED BY <2>cleared, <3>1, <3>2, <3>3
  <2>others. IsLedger(dayPending') /\ IsLedger(flushing')
    BY <1>b, <2>cleared
  <2>seen. seen' \in 0..MaxClock
    BY <2>cleared
  <2> QED BY <2>flags, <2>cleared, <2>day, <2>others, <2>seen DEF LedgerData
<1>2. TimesInv'
  BY <1>a, <1>b DEF LedgerData, TimesInv, CursorInv, EvictLedger
<1>3. CursorInv'
  BY <1>a, <1>b DEF LedgerData, TimesInv, CursorInv, EvictLedger
<1>4. BooksInv'
  BY <1>a, <1>b DEF LedgerData, TimesInv, CursorInv, BooksInv, Written, EvictLedger
<1>5. SeenInv'
  BY <1>a, <1>b DEF LedgerData, TimesInv, CursorInv, SeenInv, EvictLedger
<1>6. OffInv'
  BY <1>a, <1>b DEF LedgerData, TimesInv, CursorInv, BooksInv, Written, SeenInv, OffInv, EvictLedger
<1>7. WholeInv'
  <2>1. CASE ~ dropped'
    <3>1. ~ dropped /\ metricsDay' = metricsDay (+) flushing /\ ~ (daycur = 0 /\ lastFrame > 0)
      BY <2>1 DEF EvictLedger
    <3> QED BY <1>a, <1>b, <3>1 DEF LedgerData, TimesInv, WholeInv, Written, EvictLedger
  <2> QED BY <2>1 DEF WholeInv
<1> QED BY <1>1, <1>2, <1>3, <1>4, <1>5, <1>6, <1>7 DEF LedgerInv

LEMMA FlushesKeeps ==
  ASSUME LedgerInv, LossOnly, AlarmFlushes
  PROVE  LedgerInv'
<1> USE Numbers, LedgerConstants, OtherFaultsNever DEF LedgerInv, cursorVars, alarmVars, historyVars
<1>b. IsLedger(EmptyBag) /\ \A t : Copies(EmptyBag, t) = 0 /\ OffTicks(EmptyBag, t) = 0
  BY CountsOfEmpty
<1>1. LedgerData'
  BY <1>b, OneCursor DEF LedgerData, TimesInv, CursorInv, AlarmFlushes, TakePending
<1>2. TimesInv'
  BY <1>b, OneCursor DEF LedgerData, TimesInv, CursorInv, AlarmFlushes, TakePending
<1>3. CursorInv'
  BY <1>b, OneCursor DEF LedgerData, TimesInv, CursorInv, AlarmFlushes, TakePending
<1>4. BooksInv'
  BY <1>b, OneCursor DEF LedgerData, TimesInv, CursorInv, BooksInv, Written, AlarmFlushes, TakePending
<1>5. SeenInv'
  BY <1>b, OneCursor DEF LedgerData, TimesInv, CursorInv, SeenInv, AlarmFlushes, TakePending
<1>6. OffInv'
  BY <1>b, OneCursor DEF LedgerData, TimesInv, CursorInv, BooksInv, Written, SeenInv, OffInv, AlarmFlushes, TakePending
<1>7. WholeInv'
  BY <1>b, OneCursor DEF LedgerData, TimesInv, CursorInv, BooksInv, Written, WholeInv, AlarmFlushes, TakePending
<1> QED BY <1>1, <1>2, <1>3, <1>4, <1>5, <1>6, <1>7 DEF LedgerInv

LEMMA AccountsKeeps ==
  ASSUME LedgerInv, LossOnly, AlarmAccounts
  PROVE  LedgerInv'
<1> USE Numbers, LedgerConstants, OtherFaultsNever DEF LedgerInv, cursorVars, alarmVars, historyVars
<1>1. PICK c \in Time : cursor = {c}
  BY DEF LedgerData, CursorInv, AlarmAccounts
<1>2. CASE started <= c + Gap
  <2>a. /\ UNCHANGED <<clock, lastSeen, cursorVars, daycur, dayPending, flushing, metricsDay, seeding, seen, started, historyVars>>
        /\ alarm = "account" /\ alarm' = "flush"
    BY <1>1, <1>2, OneCursor DEF AlarmAccounts
  <2>LedgerData. LedgerData'
    BY <2>a DEF LedgerData, TimesInv, CursorInv
  <2>TimesInv. TimesInv'
    BY <2>a DEF LedgerData, TimesInv, CursorInv
  <2>CursorInv. CursorInv'
    BY <2>a DEF LedgerData, TimesInv, CursorInv
  <2>BooksInv. BooksInv'
    BY <2>a DEF LedgerData, TimesInv, CursorInv, BooksInv, Written
  <2>SeenInv. SeenInv'
    BY <2>a DEF LedgerData, TimesInv, CursorInv, SeenInv
  <2>OffInv. OffInv'
    BY <2>a DEF LedgerData, TimesInv, CursorInv, BooksInv, Written, SeenInv, OffInv
  <2>WholeInv. WholeInv'
    BY <2>a DEF LedgerData, TimesInv, CursorInv, BooksInv, Written, WholeInv
  <2> QED BY <2>LedgerData, <2>TimesInv, <2>CursorInv, <2>BooksInv, <2>SeenInv, <2>OffInv,
             <2>WholeInv DEF LedgerInv
<1>3. CASE started > c + Gap
  <2>e. PICK e \in Time : e + Gap = started /\ c < e /\ e = started - Gap
    <3>1. started - Gap \in Time /\ (started - Gap) + Gap = started /\ c < started - Gap
      BY <1>3 DEF Time, LedgerData
    <3> QED BY <3>1
  <2>a. /\ dayPending' = dayPending (+) Ticks(c, e, "off") /\ cursor' = {e} /\ dayCurDirty' = TRUE
        /\ alarm = "account" /\ alarm' = "flush"
        /\ UNCHANGED <<clock, lastSeen, dayCurLoaded, daycur, flushing, metricsDay, seeding, seen, started, historyVars>>
    BY <1>1, <1>3, <2>e, OneCursor DEF AlarmAccounts, MoveCursor
  <2>b. e \in Nat /\ e + Gap = started /\ c < e
    BY <2>e
  <2>c. /\ IsLedger(dayPending')
        /\ \A t \in Time :
             /\ Copies(dayPending', t) = Copies(dayPending, t) + (IF c < t /\ t <= e THEN 1 ELSE 0)
             /\ OffTicks(dayPending', t) = OffTicks(dayPending, t) + (IF c < t /\ t <= e THEN 1 ELSE 0)
    BY <2>a, AbsenceAdded
  <2>d. dayPending' # EmptyBag
    <3>1. Copies(dayPending', e) = Copies(dayPending, e) + 1
      BY <2>b, <2>c
    <3> QED BY <3>1, CountsOfEmpty
  <2>LedgerData. LedgerData'
    BY <1>1, <2>a, <2>b, <2>c, <2>d DEF LedgerData, TimesInv, CursorInv
  <2>TimesInv. TimesInv'
    BY <1>1, <2>a, <2>b, <2>c, <2>d DEF LedgerData, TimesInv, CursorInv
  <2>CursorInv. CursorInv'
    BY <1>1, <2>a, <2>b, <2>c, <2>d DEF LedgerData, TimesInv, CursorInv
  <2>BooksInv. BooksInv'
    BY <1>1, <2>a, <2>b, <2>c, <2>d DEF LedgerData, TimesInv, CursorInv, BooksInv, Written
  <2>SeenInv. SeenInv'
    BY <1>1, <2>a, <2>b, <2>c, <2>d DEF LedgerData, TimesInv, CursorInv, SeenInv
  <2>OffInv. OffInv'
    BY <1>1, <2>a, <2>b, <2>c, <2>d DEF LedgerData, TimesInv, CursorInv, BooksInv, Written, SeenInv, OffInv
  <2>WholeInv. WholeInv'
    BY <1>1, <2>a, <2>b, <2>c, <2>d DEF LedgerData, TimesInv, CursorInv, BooksInv, Written, WholeInv
  <2> QED BY <2>LedgerData, <2>TimesInv, <2>CursorInv, <2>BooksInv, <2>SeenInv, <2>OffInv,
             <2>WholeInv DEF LedgerInv
<1> QED BY <1>2, <1>3

LEMMA FrameKeeps ==
  ASSUME LedgerInv, LossOnly, Frame
  PROVE  LedgerInv'
<1> USE Numbers, LedgerConstants, OtherFaultsNever DEF LedgerInv, cursorVars, alarmVars, historyVars
<1>a. /\ clock \in Time /\ lastSeen' = clock /\ lastFrame' = clock /\ dayCurLoaded' = TRUE
      /\ firstFrame' = IF firstFrame = 0 THEN clock ELSE firstFrame
      /\ up' = IF lastFrame > 0 /\ clock - lastFrame <= Gap THEN up \cup (lastFrame + 1)..clock ELSE up
      /\ UNCHANGED <<clock, daycur, flushing, metricsDay, alarmVars, forgotten, dropped>>
  BY DEF Frame, LedgerData
<1>u. up' \subseteq Time /\ \A t \in up' : t \in up \/ (lastFrame > 0 /\ lastFrame < t /\ t <= clock /\ t + Gap > clock /\ clock <= lastFrame + Gap)
  <2>1. \A t \in (lastFrame + 1)..clock : t \in Time /\ t > lastFrame /\ t <= clock
    OBVIOUS
  <2>2. CASE lastFrame > 0 /\ clock - lastFrame <= Gap
    BY <1>a, <2>1, <2>2 DEF LedgerData
  <2>3. CASE ~ (lastFrame > 0 /\ clock - lastFrame <= Gap)
    BY <1>a, <2>3 DEF LedgerData
  <2> QED BY <2>2, <2>3
<1>1. CASE AccumulateDay(cursor, clock) /\ UNCHANGED seeding /\ cursor # {}
  <2>p. PICK x \in Time : cursor = {x}
    BY <1>1 DEF LedgerData
  <2>q. x \in Nat /\ x <= clock /\ daycur <= x
    BY <2>p DEF TimesInv
  <2>a. cursor' = {clock} /\ dayCurDirty' = TRUE /\ IsLedger(dayPending')
    BY <1>1, <1>a, <2>p, Accumulated
  <2>b. \A s \in Time :
          /\ Copies(dayPending', s) = Copies(dayPending, s) + (IF x < s /\ s <= clock THEN 1 ELSE 0)
          /\ OffTicks(dayPending', s) > OffTicks(dayPending, s) => x < s /\ s + Gap <= clock
    BY <1>1, <1>a, <2>p, Accumulated
  <2>c. Copies(dayPending', clock) \in Nat /\ \A t : OffTicks(dayPending', t) \in Nat
    BY <2>a, CountsAreNat
  <2>d. dayPending' = EmptyBag => dayPending = EmptyBag /\ x = clock
    <3> SUFFICES ASSUME dayPending' = EmptyBag PROVE dayPending = EmptyBag /\ x = clock
      OBVIOUS
    <3>1. \A t : Copies(dayPending', t) = 0
      BY CountsOfEmpty
    <3>2. x = clock
      BY <1>a, <2>q, <2>b, <3>1
    <3>3. \A t \in Time : Copies(dayPending, t) = 0
      BY <2>b, <3>1
    <3> QED BY <3>2, <3>3, NoneIsEmpty DEF LedgerData
  <2>LedgerData. LedgerData'
    BY <1>1, <1>a, <1>u, <2>p, <2>q, <2>a, <2>b, <2>c, <2>d DEF LedgerData, TimesInv, CursorInv
  <2>TimesInv. TimesInv'
    BY <1>1, <1>a, <1>u, <2>p, <2>q, <2>a, <2>b, <2>c, <2>d DEF LedgerData, TimesInv, CursorInv
  <2>CursorInv. CursorInv'
    BY <1>1, <1>a, <1>u, <2>p, <2>q, <2>a, <2>b, <2>c, <2>d DEF LedgerData, TimesInv, CursorInv
  <2>BooksInv. BooksInv'
    <3> SUFFICES ASSUME NEW s \in Time
                 PROVE  /\ Written(s)' + Copies(dayPending', s) <= 1
                        /\ Written(s)' > 0 => s <= daycur'
                        /\ Copies(dayPending', s) > 0 => \A y \in cursor' : s <= y
      BY DEF BooksInv
    <3>w. /\ Written(s) + Copies(dayPending, s) <= 1 /\ (Written(s) > 0 => s <= daycur)
          /\ Copies(dayPending, s) > 0 => \A y \in cursor : s <= y
      BY DEF BooksInv
    <3>n. Written(s) \in Nat /\ Copies(dayPending, s) \in Nat /\ s \in Nat
      BY DEF Written
    <3>v. Written(s)' = Written(s) /\ UNCHANGED <<clock, daycur>>
      BY <1>1, <1>a, <1>u, <2>p, <2>q, <2>a, <2>b, <2>c, <2>d DEF LedgerData, CursorInv, Written
    <3> QED BY <1>1, <1>a, <1>u, <2>p, <2>q, <2>a, <2>b, <2>c, <2>d, <3>w, <3>v, <3>n DEF LedgerData, TimesInv, CursorInv
  <2>SeenInv. SeenInv'
    BY <1>1, <1>a, <1>u, <2>p, <2>q, <2>a, <2>b, <2>c, <2>d DEF LedgerData, TimesInv, CursorInv, SeenInv
  <2>OffInv. OffInv'
    BY <1>1, <1>a, <1>u, <2>p, <2>q, <2>a, <2>b, <2>c, <2>d DEF LedgerData, TimesInv, CursorInv, BooksInv, Written, SeenInv, OffInv
  <2>WholeInv. WholeInv'
    BY <1>1, <1>a, <1>u, <2>p, <2>q, <2>a, <2>b, <2>c, <2>d DEF LedgerData, TimesInv, CursorInv, BooksInv, Written, WholeInv
  <2> QED BY <2>LedgerData, <2>TimesInv, <2>CursorInv, <2>BooksInv, <2>SeenInv, <2>OffInv,
             <2>WholeInv DEF LedgerInv
<1>4. CASE AccumulateDay(cursor, clock) /\ UNCHANGED seeding /\ dayCurLoaded /\ cursor = {}
  <2>a. cursor' = {clock} /\ dayCurDirty' = TRUE /\ dayPending' = dayPending /\ dayPending = EmptyBag
    BY <1>4, <1>a DEF AccumulateDay, CursorInv
  <2>b. daycur = 0 \/ (seeding = {clock} /\ lastSeen = clock /\ daycur = clock)
    BY <1>4 DEF CursorInv
  <2>c. \A t : Copies(dayPending, t) = 0 /\ OffTicks(dayPending, t) = 0
    BY <2>a, CountsOfEmpty
  <2>LedgerData. LedgerData'
    BY <1>4, <1>a, <1>u, <2>a, <2>b, <2>c DEF LedgerData, TimesInv, CursorInv
  <2>TimesInv. TimesInv'
    BY <1>4, <1>a, <1>u, <2>a, <2>b, <2>c DEF LedgerData, TimesInv, CursorInv
  <2>CursorInv. CursorInv'
    BY <1>4, <1>a, <1>u, <2>a, <2>b, <2>c DEF LedgerData, TimesInv, CursorInv
  <2>BooksInv. BooksInv'
    <3> SUFFICES ASSUME NEW s \in Time
                 PROVE  /\ Written(s)' + Copies(dayPending', s) <= 1
                        /\ Written(s)' > 0 => s <= daycur'
                        /\ Copies(dayPending', s) > 0 => \A y \in cursor' : s <= y
      BY DEF BooksInv
    <3>w. /\ Written(s) + Copies(dayPending, s) <= 1 /\ (Written(s) > 0 => s <= daycur)
          /\ Copies(dayPending, s) > 0 => \A y \in cursor : s <= y
      BY DEF BooksInv
    <3>n. Written(s) \in Nat /\ Copies(dayPending, s) \in Nat /\ s \in Nat
      BY DEF Written
    <3>v. Written(s)' = Written(s) /\ UNCHANGED <<clock, daycur>>
      BY <1>4, <1>a, <1>u, <2>a, <2>b, <2>c DEF LedgerData, CursorInv, Written
    <3> QED BY <1>4, <1>a, <1>u, <2>a, <2>b, <2>c, <3>w, <3>v, <3>n DEF LedgerData, TimesInv, CursorInv
  <2>SeenInv. SeenInv'
    BY <1>4, <1>a, <1>u, <2>a, <2>b, <2>c DEF LedgerData, TimesInv, CursorInv, SeenInv
  <2>OffInv. OffInv'
    BY <1>4, <1>a, <1>u, <2>a, <2>b, <2>c DEF LedgerData, TimesInv, CursorInv, BooksInv, Written, SeenInv, OffInv
  <2>WholeInv. WholeInv'
    BY <1>4, <1>a, <1>u, <2>a, <2>b, <2>c DEF LedgerData, TimesInv, CursorInv, BooksInv, Written, WholeInv
  <2> QED BY <2>LedgerData, <2>TimesInv, <2>CursorInv, <2>BooksInv, <2>SeenInv, <2>OffInv,
             <2>WholeInv DEF LedgerInv
<1>2. CASE AccumulateDay({daycur}, clock) /\ UNCHANGED seeding /\ ~ dayCurLoaded /\ cursor = {} /\ daycur > 0
  <2>a. /\ cursor' = {clock} /\ dayCurDirty' = TRUE /\ IsLedger(dayPending')
        /\ \A s \in Time :
              /\ Copies(dayPending', s) = Copies(dayPending, s) + (IF daycur < s /\ s <= clock THEN 1 ELSE 0)
              /\ OffTicks(dayPending', s) > OffTicks(dayPending, s) => daycur < s /\ s + Gap <= clock
    <3>1. daycur \in Time
      BY <1>2 DEF LedgerData, TimesInv
    <3> QED BY <1>2, <1>a, <3>1, Accumulated
  <2>b. Copies(dayPending', clock) \in Nat /\ \A t : OffTicks(dayPending', t) \in Nat
    BY <2>a, CountsAreNat
  <2>c. dayPending = EmptyBag /\ \A t : Copies(dayPending, t) = 0 /\ OffTicks(dayPending, t) = 0
    BY <1>2, CountsOfEmpty DEF CursorInv
  <2>LedgerData. LedgerData'
    BY <1>2, <1>a, <1>u, <2>a, <2>b, <2>c DEF LedgerData, TimesInv, CursorInv
  <2>TimesInv. TimesInv'
    BY <1>2, <1>a, <1>u, <2>a, <2>b, <2>c DEF LedgerData, TimesInv, CursorInv
  <2>CursorInv. CursorInv'
    BY <1>2, <1>a, <1>u, <2>a, <2>b, <2>c, SMTT(30) DEF LedgerData, TimesInv, CursorInv
  <2>BooksInv. BooksInv'
    <3> SUFFICES ASSUME NEW s \in Time
                 PROVE  /\ Written(s)' + Copies(dayPending', s) <= 1
                        /\ Written(s)' > 0 => s <= daycur'
                        /\ Copies(dayPending', s) > 0 => \A y \in cursor' : s <= y
      BY DEF BooksInv
    <3>w. /\ Written(s) + Copies(dayPending, s) <= 1 /\ (Written(s) > 0 => s <= daycur)
          /\ Copies(dayPending, s) > 0 => \A y \in cursor : s <= y
      BY DEF BooksInv
    <3>n. Written(s) \in Nat /\ Copies(dayPending, s) \in Nat /\ s \in Nat
      BY DEF Written
    <3>v. Written(s)' = Written(s) /\ UNCHANGED <<clock, daycur>>
      BY <1>2, <1>a, <1>u, <2>a, <2>b, <2>c DEF LedgerData, CursorInv, Written
    <3> QED BY <1>2, <1>a, <1>u, <2>a, <2>b, <2>c, <3>w, <3>v, <3>n DEF LedgerData, TimesInv, CursorInv
  <2>SeenInv. SeenInv'
    BY <1>2, <1>a, <1>u, <2>a, <2>b, <2>c DEF LedgerData, TimesInv, CursorInv, SeenInv
  <2>OffInv. OffInv'
    BY <1>2, <1>a, <1>u, <2>a, <2>b, <2>c DEF LedgerData, TimesInv, CursorInv, BooksInv, Written, SeenInv, OffInv
  <2>WholeInv. WholeInv'
    BY <1>2, <1>a, <1>u, <2>a, <2>b, <2>c DEF LedgerData, TimesInv, CursorInv, BooksInv, Written, WholeInv
  <2> QED BY <2>LedgerData, <2>TimesInv, <2>CursorInv, <2>BooksInv, <2>SeenInv, <2>OffInv,
             <2>WholeInv DEF LedgerInv
<1>3. CASE /\ ~ dayCurLoaded /\ cursor = {} /\ daycur = 0 /\ seeding' = seeding \cup {clock}
           /\ UNCHANGED <<cursor, dayCurDirty, dayPending>>
  <2>LedgerData. LedgerData'
    BY <1>3, <1>a, <1>u DEF LedgerData, TimesInv, CursorInv
  <2>TimesInv. TimesInv'
    BY <1>3, <1>a, <1>u DEF LedgerData, TimesInv, CursorInv
  <2>CursorInv. CursorInv'
    BY <1>3, <1>a, <1>u DEF LedgerData, TimesInv, CursorInv
  <2>BooksInv. BooksInv'
    <3> SUFFICES ASSUME NEW s \in Time
                 PROVE  /\ Written(s)' + Copies(dayPending', s) <= 1
                        /\ Written(s)' > 0 => s <= daycur'
                        /\ Copies(dayPending', s) > 0 => \A y \in cursor' : s <= y
      BY DEF BooksInv
    <3>w. /\ Written(s) + Copies(dayPending, s) <= 1 /\ (Written(s) > 0 => s <= daycur)
          /\ Copies(dayPending, s) > 0 => \A y \in cursor : s <= y
      BY DEF BooksInv
    <3>n. Written(s) \in Nat /\ Copies(dayPending, s) \in Nat /\ s \in Nat
      BY DEF Written
    <3>v. Written(s)' = Written(s) /\ UNCHANGED <<clock, daycur>>
      BY <1>3, <1>a, <1>u DEF LedgerData, CursorInv, Written
    <3> QED BY <1>3, <1>a, <1>u, <3>w, <3>v, <3>n DEF LedgerData, TimesInv, CursorInv
  <2>SeenInv. SeenInv'
    BY <1>3, <1>a, <1>u DEF LedgerData, TimesInv, CursorInv, SeenInv
  <2>OffInv. OffInv'
    BY <1>3, <1>a, <1>u DEF LedgerData, TimesInv, CursorInv, BooksInv, Written, SeenInv, OffInv
  <2>WholeInv. WholeInv'
    BY <1>3, <1>a, <1>u DEF LedgerData, TimesInv, CursorInv, BooksInv, Written, WholeInv
  <2> QED BY <2>LedgerData, <2>TimesInv, <2>CursorInv, <2>BooksInv, <2>SeenInv, <2>OffInv,
             <2>WholeInv DEF LedgerInv
<1> QED BY <1>1, <1>2, <1>3, <1>4 DEF Frame

LEMMA FrameSeededKeeps ==
  ASSUME LedgerInv, LossOnly, NEW f \in Time, FrameSeeded(f)
  PROVE  LedgerInv'
<1> USE Numbers, LedgerConstants, OtherFaultsNever DEF LedgerInv, cursorVars, alarmVars, historyVars
<1>a. /\ f = clock /\ lastSeen = clock /\ seeding = {clock} /\ seeding' = {} /\ AccumulateDay({clock}, clock)
      /\ UNCHANGED <<clock, lastSeen, dayCurLoaded, daycur, flushing, metricsDay, alarmVars, historyVars>>
  BY DEF FrameSeeded, CursorInv
<1>b. /\ cursor' = {clock} /\ dayCurDirty' = TRUE /\ IsLedger(dayPending')
      /\ \A s \in Time :
            /\ Copies(dayPending', s) = Copies(dayPending, s) + (IF clock < s /\ s <= clock THEN 1 ELSE 0)
            /\ OffTicks(dayPending', s) > OffTicks(dayPending, s) => clock < s /\ s + Gap <= clock
  <2>1. clock \in Time
    BY DEF LedgerData
  <2> QED BY <1>a, <2>1, Accumulated
<1>c. \A s \in Time : OffTicks(dayPending', s) \in Nat
  BY <1>b, CountsAreNat
<1>d. \A s \in Time : Copies(dayPending, s) > 0 => s <= clock
  BY <1>a, CountsOfEmpty DEF BooksInv, CursorInv
<1>1. LedgerData'
  BY <1>a, <1>b, <1>c, <1>d DEF LedgerData, TimesInv, CursorInv
<1>2. TimesInv'
  <2>frames. lastSeen' = lastFrame' /\ firstFrame' <= lastFrame' /\ lastFrame' <= clock' /\ (firstFrame' = 0 => lastFrame' = 0)
    BY <1>a DEF TimesInv
  <2>times. daycur' <= clock' /\ started' <= clock' /\ seen' <= lastSeen' /\ (alarm' = "seeding" => seen' > 0)
    BY <1>a DEF TimesInv
  <2>cursors. \A c \in cursor' : c <= clock' /\ daycur' <= c
    BY <1>a, <1>b DEF TimesInv
  <2>uptime. \A t \in up' : t <= lastFrame'
    BY <1>a DEF TimesInv
  <2> QED BY <2>frames, <2>times, <2>cursors, <2>uptime DEF TimesInv
<1>3. CursorInv'
  BY <1>a, <1>b, <1>c, <1>d DEF LedgerData, TimesInv, CursorInv
<1>4. BooksInv'
  <2> SUFFICES ASSUME NEW s \in Time
               PROVE  /\ Written(s)' + Copies(dayPending', s) <= 1
                      /\ Written(s)' > 0 => s <= daycur'
                      /\ Copies(dayPending', s) > 0 => \A y \in cursor' : s <= y
    BY DEF BooksInv
  <2>w. /\ Written(s) + Copies(dayPending, s) <= 1 /\ (Written(s) > 0 => s <= daycur)
        /\ Copies(dayPending, s) > 0 => \A y \in cursor : s <= y
    BY DEF BooksInv
  <2>n. Written(s) \in Nat /\ Copies(dayPending, s) \in Nat /\ s \in Nat
    BY DEF Written
  <2>v. Written(s)' = Written(s) /\ UNCHANGED <<clock, daycur>>
    BY <1>a, <1>b, <1>c, <1>d DEF LedgerData, CursorInv, Written
  <2> QED BY <1>a, <1>b, <1>c, <1>d, <2>w, <2>v, <2>n DEF LedgerData, TimesInv, CursorInv
<1>5. SeenInv'
  BY <1>a, <1>b, <1>c, <1>d DEF LedgerData, TimesInv, CursorInv, SeenInv
<1>6. OffInv'
  BY <1>a, <1>b, <1>c, <1>d DEF LedgerData, TimesInv, CursorInv, BooksInv, Written, SeenInv, OffInv
<1>7. WholeInv'
  BY <1>a, <1>b, <1>c, <1>d DEF LedgerData, TimesInv, CursorInv, BooksInv, Written, WholeInv
<1> QED BY <1>1, <1>2, <1>3, <1>4, <1>5, <1>6, <1>7 DEF LedgerInv

LEMMA LedgerInductive ==
  ASSUME LossOnly
  PROVE  LedgerSpec => []LedgerInv
<1>1. LedgerInit => LedgerInv
  <2> SUFFICES ASSUME LedgerInit PROVE LedgerInv
    OBVIOUS
  <2>1. IsLedger(EmptyBag) /\ \A t : Copies(EmptyBag, t) = 0 /\ OffTicks(EmptyBag, t) = 0
    BY CountsOfEmpty
  <2>2. LedgerData /\ TimesInv /\ CursorInv
    <3>1. 0 \in 0..MaxClock /\ 1 \in Time
      BY LedgerConstants DEF Time
    <3>2. LedgerData
      BY <2>1, <3>1 DEF LedgerInit, LedgerData
    <3>3. TimesInv /\ CursorInv
      BY <3>1 DEF LedgerInit, TimesInv, CursorInv
    <3> QED BY <3>2, <3>3
  <2>3. BooksInv /\ SeenInv /\ OffInv
    BY <2>1, LedgerConstants DEF LedgerInit, BooksInv, SeenInv, OffInv, Written
  <2>4. WholeInv
    <3>1. \A t \in Time : t > 0 /\ t \in Nat
      BY LedgerConstants DEF Time
    <3> QED BY <3>1 DEF LedgerInit, WholeInv
  <2> QED BY <2>2, <2>3, <2>4 DEF LedgerInv
<1>2. LedgerInv /\ [LedgerNext]_ledgerVars => LedgerInv'
  <2> SUFFICES ASSUME LedgerInv, [LedgerNext]_ledgerVars PROVE LedgerInv'
    OBVIOUS
  <2> QED BY StutterKeeps, ClockKeeps, FiresKeeps, LooksKeeps, SeededKeeps, EndsKeeps, EvictKeeps, FlushesKeeps,
             AccountsKeeps, FrameKeeps, FrameSeededKeeps DEF LedgerNext
<1> QED BY <1>1, <1>2, PTL DEF LedgerSpec

LEMMA LedgerTypes ==
  ASSUME LedgerInv
  PROVE  LedgerTypeOK
<1>1. Cardinality(cursor) <= 1 /\ cursor \subseteq Time
  <2>1. CASE cursor = {}
    BY <2>1, FS_EmptySet
  <2>2. CASE cursor # {}
    <3>1. PICK c \in Time : cursor = {c}
      BY <2>2 DEF LedgerInv, LedgerData
    <3> QED BY <3>1, FS_Singleton
  <2> QED BY <2>1, <2>2
<1> QED BY <1>1 DEF LedgerTypeOK, LedgerInv, LedgerData

\* "Rather too little than too much": however frames, alarms, failing batches and puts
\* and evictions interleave, no moment is added to metrics_day twice.
THEOREM NothingBookedTwice ==
  ASSUME LossOnly
  PROVE  LedgerSpec => []BookedOnce
<1>1. LedgerInv => BookedOnce
  <2> SUFFICES ASSUME LedgerInv, NEW t \in Time PROVE Copies(metricsDay, t) <= 1
    BY DEF BookedOnce
  <2> QED BY Numbers DEF LedgerInv, BooksInv, Written
<1> QED BY <1>1, LedgerInductive, PTL

\* A server that reports at the interval it should is not booked as absent in between,
\* unless increments went down with the object.
THEOREM NoFalseAbsence ==
  ASSUME LossOnly
  PROVE  LedgerSpec => []AbsenceIsReal
<1>1. LedgerInv => AbsenceIsReal
  <2> SUFFICES ASSUME LedgerInv, ~ forgotten, NEW t \in up PROVE Booked(<<t, "off">>, metricsDay) = 0
    BY DEF AbsenceIsReal, NoPhantomAbsence
  <2>1. t \in Time
    BY DEF LedgerInv, LedgerData
  <2> QED BY <2>1, Numbers DEF LedgerInv, OffInv, OffTicks
<1> QED BY <1>1, LedgerInductive, PTL

\* The cursor passes no moment that is not booked or about to be, unless a batch failed
\* or the object went down before it ever kept a cursor.
THEOREM LedgerIsWhole ==
  ASSUME LossOnly
  PROVE  LedgerSpec => []NothingSkipped
<1>1. LedgerInv => NothingSkipped
  <2> DEFINE all == metricsDay (+) flushing (+) dayPending
             end == IF cursor # {} THEN CHOOSE x \in cursor : TRUE ELSE daycur
  <2> SUFFICES ASSUME LedgerInv, ~ dropped, NEW t \in (firstFrame + 1)..end PROVE Copies(all, t) > 0
    BY DEF NothingSkipped
  <2>1. /\ IsLedger(metricsDay (+) flushing) /\ IsLedger(dayPending)
        /\ Copies(metricsDay (+) flushing, t) = Written(t)
    BY CountsAdd DEF LedgerInv, LedgerData, Written
  <2>2. Copies(all, t) = Written(t) + Copies(dayPending, t)
    BY <2>1, CountsAdd
  <2>3. Written(t) \in Nat /\ Copies(dayPending, t) \in Nat
    BY Numbers DEF LedgerInv, Written
  <2> HIDE DEF all
  <2>4. CASE cursor = {}
    <3>1. t \in Nat /\ firstFrame < t /\ t <= daycur /\ t > 0
      BY <2>4, Numbers DEF LedgerInv
    <3>2. t \in Time
      BY <3>1, Numbers DEF LedgerInv, TimesInv
    <3> QED BY <2>2, <2>3, <3>1, <3>2 DEF LedgerInv, WholeInv
  <2>5. CASE cursor # {}
    <3>1. PICK c \in Time : cursor = {c}
      BY <2>5 DEF LedgerInv, LedgerData
    <3>2. t \in Nat /\ firstFrame < t /\ t <= c /\ t > 0 /\ c <= clock
      BY <3>1, OneCursor, Numbers DEF LedgerInv, TimesInv
    <3>3. t \in Time
      BY <3>2, Numbers DEF LedgerInv
    <3> QED BY <2>2, <2>3, <3>1, <3>2, <3>3 DEF LedgerInv, WholeInv
  <2> QED BY <2>4, <2>5
<1> QED BY <1>1, LedgerInductive, PTL

--------------------------------------------------------------------------------
(* Alerts.                                                                     *)

LEMMA LessInRest ==
  ASSUME NEW r \in Rest, NEW n \in Nat PROVE Less(r, n) \in Rest /\ Less(r, n) <= r
BY AlertsAssumption DEF Rest, Less

LEMMA ProbeStatesClosed ==
  /\ {} \in ProbeStates
  /\ \A r \in Rest : {r} \in ProbeStates
  /\ \A p \in ProbeStates, n \in Nat : {Less(r, n) : r \in p} \in ProbeStates
<1>1. {} \in ProbeStates /\ \A r \in Rest : {r} \in ProbeStates
  BY DEF ProbeStates
<1>2. ASSUME NEW p \in ProbeStates, NEW n \in Nat PROVE {Less(r, n) : r \in p} \in ProbeStates
  <2>1. CASE p = {}
    BY <1>1, <2>1
  <2>2. ASSUME NEW x \in Rest, p = {x} PROVE {Less(r, n) : r \in p} \in ProbeStates
    <3>1. {Less(r, n) : r \in p} = {Less(x, n)}
      BY <2>2
    <3> QED BY <3>1, <1>1, LessInRest
  <2> QED BY <2>1, <2>2 DEF ProbeStates
<1> QED BY <1>1, <1>2

LEMMA RestHolds ==
  0 \in Rest /\ Cooldown \in Rest /\ Backoff \in Rest
BY AlertsAssumption DEF Rest

AlertFlags ==
  /\ alertLoaded \in BOOLEAN /\ probeLoaded \in BOOLEAN /\ offlineLoaded \in BOOLEAN
  /\ configured \in BOOLEAN /\ crossed \in BOOLEAN /\ cut \in BOOLEAN
  /\ early \in BOOLEAN /\ unreadProbe \in BOOLEAN /\ unreadHost \in BOOLEAN

AlertData ==
  /\ subject \in Subjects
  /\ alertLast \in Rest /\ alertDisk \in Rest /\ quiet \in Rest
  /\ probeState \in ProbeStates /\ probeDisk \in ProbeStates
  /\ offlineState \in {"on", "off"} /\ offlineDisk \in {"on", "off"}
  /\ told \in {"nothing", "down", "up"}
  /\ toldHost \in {"nothing", "offline", "recovered"}

LEMMA AlertsTypeInductive == AlertsSpec => []AlertsTypeOK
<1> DEFINE Types == AlertFlags /\ AlertData /\ webhooks \subseteq Webhook
<1>0. (AlertsTypeOK <=> Types) /\ (AlertsTypeOK' <=> Types')
  <2>1. AlertsTypeOK <=> Types
    BY Zenon DEF AlertsTypeOK, AlertFlags, AlertData
  <2>2. AlertsTypeOK' <=> Types'
    BY Zenon DEF AlertsTypeOK, AlertFlags, AlertData
  <2> QED BY <2>1, <2>2
<1>1. AlertsInit => AlertsTypeOK
  <2>1. AlertsInit => AlertFlags
    BY Zenon DEF AlertsInit, AlertFlags
  <2>2. AlertsInit => AlertData
    BY RestHolds, ProbeStatesClosed, SMT DEF AlertsInit, AlertData
  <2> QED BY <1>0, <2>1, <2>2 DEF AlertsInit
<1>2. AlertsTypeOK /\ [AlertsNext]_<<subject, alertVars>> => AlertsTypeOK'
  <2> SUFFICES ASSUME AlertFlags, AlertData, webhooks \subseteq Webhook, [AlertsNext]_<<subject, alertVars>>
               PROVE  Types'
    BY <1>0
  <2>subject. subject' = subject
    BY DEF AlertsNext
  <2>CheckAlerts. CASE CheckAlerts
    <3>1. AlertFlags'
      BY <2>CheckAlerts, Zenon DEF CheckAlerts, alertVars, thresholdVars, probeVars, hostVars,
         AlertFlags, Send, Put
    <3>2. AlertData'
      BY <2>CheckAlerts, <2>subject, LessInRest, ProbeStatesClosed, RestHolds, SMT
      DEF CheckAlerts, alertVars, thresholdVars, probeVars, hostVars, AlertData, Put, Send, RestLoaded, CooldownKept, ProbeRead, HostRead, Webhook
    <3>3. (webhooks \subseteq Webhook)'
      BY <2>CheckAlerts, ProbeStatesClosed, SMT DEF CheckAlerts, alertVars, thresholdVars,
         probeVars, hostVars, Send, Webhook, ProbeRead, AlertData
    <3> QED BY <3>1, <3>2, <3>3
  <2>ProbeUp. CASE ProbeUp
    <3>1. AlertFlags'
      BY <2>ProbeUp, Zenon DEF ProbeUp, alertVars, thresholdVars, probeVars, hostVars, AlertFlags,
         Send, Put
    <3>2. AlertData'
      BY <2>ProbeUp, <2>subject, LessInRest, ProbeStatesClosed, RestHolds, SMT
      DEF ProbeUp, alertVars, thresholdVars, probeVars, hostVars, AlertData, Put, Send, RestLoaded, CooldownKept, ProbeRead, HostRead, Webhook
    <3>3. (webhooks \subseteq Webhook)'
      BY <2>ProbeUp, ProbeStatesClosed, SMT DEF ProbeUp, alertVars, thresholdVars, probeVars,
         hostVars, Send, Webhook, ProbeRead, AlertData
    <3> QED BY <3>1, <3>2, <3>3
  <2>ProbeDown. CASE ProbeDown
    <3>1. AlertFlags'
      BY <2>ProbeDown, Zenon DEF ProbeDown, alertVars, thresholdVars, probeVars, hostVars,
         AlertFlags, Send, Put
    <3>2. AlertData'
      BY <2>ProbeDown, <2>subject, LessInRest, ProbeStatesClosed, RestHolds, SMT
      DEF ProbeDown, alertVars, thresholdVars, probeVars, hostVars, AlertData, Put, Send, RestLoaded, CooldownKept, ProbeRead, HostRead, Webhook
    <3>3. (webhooks \subseteq Webhook)'
      BY <2>ProbeDown, ProbeStatesClosed, SMT DEF ProbeDown, alertVars, thresholdVars, probeVars,
         hostVars, Send, Webhook, ProbeRead, AlertData
    <3> QED BY <3>1, <3>2, <3>3
  <2>Configure. CASE Configure
    <3>1. AlertFlags'
      BY <2>Configure, Zenon DEF Configure, alertVars, thresholdVars, probeVars, hostVars,
         AlertFlags, Send, Put
    <3>2. AlertData'
      BY <2>Configure, <2>subject, LessInRest, ProbeStatesClosed, RestHolds, SMT
      DEF Configure, alertVars, thresholdVars, probeVars, hostVars, AlertData, Put, Send, RestLoaded, CooldownKept, ProbeRead, HostRead, Webhook
    <3>3. (webhooks \subseteq Webhook)'
      BY <2>Configure, ProbeStatesClosed, SMT DEF Configure, alertVars, thresholdVars, probeVars,
         hostVars, Send, Webhook, ProbeRead, AlertData
    <3> QED BY <3>1, <3>2, <3>3
  <2>ClearProbeState. CASE ClearProbeState \/ PruneStaleProbeStates
    <3>1. AlertFlags'
      BY <2>ClearProbeState, Zenon DEF ClearProbeState, PruneStaleProbeStates, Forget, alertVars,
         thresholdVars, probeVars, hostVars, AlertFlags, Send, Put
    <3>2. AlertData'
      BY <2>ClearProbeState, <2>subject, LessInRest, ProbeStatesClosed, RestHolds, SMT
      DEF ClearProbeState, PruneStaleProbeStates, Forget, alertVars, thresholdVars, probeVars, hostVars, AlertData, Put, Send, RestLoaded, CooldownKept, ProbeRead, HostRead, Webhook
    <3>3. (webhooks \subseteq Webhook)'
      BY <2>ClearProbeState, ProbeStatesClosed, SMT DEF ClearProbeState, PruneStaleProbeStates,
         Forget, alertVars, thresholdVars, probeVars, hostVars, Send, Webhook, ProbeRead, AlertData
    <3> QED BY <3>1, <3>2, <3>3
  <2>CheckOffline. ASSUME NEW silent \in BOOLEAN, CheckOffline(silent) PROVE Types'
    <3>1. AlertFlags'
      BY <2>CheckOffline, Zenon DEF CheckOffline, alertVars, thresholdVars, probeVars, hostVars,
         AlertFlags, Send, Put
    <3>2. AlertData'
      BY <2>CheckOffline, <2>subject, LessInRest, ProbeStatesClosed, RestHolds, SMT
      DEF CheckOffline, alertVars, thresholdVars, probeVars, hostVars, AlertData, Put, Send, RestLoaded, CooldownKept, ProbeRead, HostRead, Webhook
    <3>3. (webhooks \subseteq Webhook)'
      BY <2>CheckOffline, ProbeStatesClosed, SMT DEF CheckOffline, alertVars, thresholdVars,
         probeVars, hostVars, Send, Webhook, ProbeRead, AlertData
    <3> QED BY <3>1, <3>2, <3>3
  <2>AlertReceived. ASSUME NEW w \in webhooks, AlertReceived(w) PROVE Types'
    <3>1. AlertFlags'
      BY <2>AlertReceived, Zenon DEF AlertReceived, EndWebhook, alertVars, thresholdVars, probeVars,
         hostVars, AlertFlags, Send, Put
    <3>2. AlertData'
      BY <2>AlertReceived, <2>subject, LessInRest, ProbeStatesClosed, RestHolds, SMT
      DEF AlertReceived, EndWebhook, alertVars, thresholdVars, probeVars, hostVars, AlertData, Put, Send, RestLoaded, CooldownKept, ProbeRead, HostRead, Webhook
    <3>3. (webhooks \subseteq Webhook)'
      BY <2>AlertReceived, ProbeStatesClosed, SMT DEF AlertReceived, EndWebhook, alertVars,
         thresholdVars, probeVars, hostVars, Send, Webhook, ProbeRead, AlertData
    <3> QED BY <3>1, <3>2, <3>3
  <2>AlertFails. ASSUME NEW w \in webhooks, AlertFails(w) PROVE Types'
    <3>1. AlertFlags'
      BY <2>AlertFails, Zenon DEF AlertFails, EndWebhook, CutCooldown, alertVars, thresholdVars,
         probeVars, hostVars, AlertFlags, Send, Put
    <3>2. AlertData'
      BY <2>AlertFails, <2>subject, LessInRest, ProbeStatesClosed, RestHolds, SMT
      DEF AlertFails, EndWebhook, CutCooldown, alertVars, thresholdVars, probeVars, hostVars, AlertData, Put, Send, RestLoaded, CooldownKept, ProbeRead, HostRead, Webhook
    <3>3. (webhooks \subseteq Webhook)'
      BY <2>AlertFails, ProbeStatesClosed, SMT DEF AlertFails, EndWebhook, CutCooldown, alertVars,
         thresholdVars, probeVars, hostVars, Send, Webhook, ProbeRead, AlertData
    <3> QED BY <3>1, <3>2, <3>3
  <2>ProbeReceived. ASSUME NEW w \in webhooks, ProbeReceived(w) PROVE Types'
    <3>1. AlertFlags'
      BY <2>ProbeReceived, Zenon DEF ProbeReceived, EndWebhook, SetProbe, alertVars, thresholdVars,
         probeVars, hostVars, AlertFlags, Send, Put
    <3>2. AlertData'
      BY <2>ProbeReceived, <2>subject, ProbeStatesClosed, Zenon
      DEF ProbeReceived, SetProbe, alertVars, thresholdVars, probeVars, hostVars, AlertData, Put
    <3>3. (webhooks \subseteq Webhook)'
      BY <2>ProbeReceived, ProbeStatesClosed, SMT DEF ProbeReceived, EndWebhook, SetProbe,
         alertVars, thresholdVars, probeVars, hostVars, Send, Webhook, ProbeRead, AlertData
    <3> QED BY <3>1, <3>2, <3>3
  <2>ProbeFails. ASSUME NEW w \in webhooks, ProbeFails(w) PROVE Types'
    <3>1. AlertFlags'
      BY <2>ProbeFails, Zenon DEF ProbeFails, EndWebhook, SetProbe, DownAgain, alertVars,
         thresholdVars, probeVars, hostVars, AlertFlags, Send, Put
    <3>2. AlertData'
      BY <2>ProbeFails, <2>subject, LessInRest, ProbeStatesClosed, RestHolds, SMT
      DEF ProbeFails, EndWebhook, SetProbe, DownAgain, alertVars, thresholdVars, probeVars, hostVars, AlertData, Put, Send, RestLoaded, CooldownKept, ProbeRead, HostRead, Webhook
    <3>3. (webhooks \subseteq Webhook)'
      BY <2>ProbeFails, ProbeStatesClosed, SMT DEF ProbeFails, EndWebhook, SetProbe, DownAgain,
         alertVars, thresholdVars, probeVars, hostVars, Send, Webhook, ProbeRead, AlertData
    <3> QED BY <3>1, <3>2, <3>3
  <2>HostReceived. ASSUME NEW w \in webhooks, HostReceived(w) PROVE Types'
    <3>1. AlertFlags'
      BY <2>HostReceived, Zenon DEF HostReceived, EndWebhook, RememberHost, alertVars,
         thresholdVars, probeVars, hostVars, AlertFlags, Send, Put
    <3>2. AlertData'
      BY <2>HostReceived, <2>subject, LessInRest, ProbeStatesClosed, RestHolds, SMT
      DEF HostReceived, EndWebhook, RememberHost, alertVars, thresholdVars, probeVars, hostVars, AlertData, Put, Send, RestLoaded, CooldownKept, ProbeRead, HostRead, Webhook
    <3>3. (webhooks \subseteq Webhook)'
      BY <2>HostReceived, ProbeStatesClosed, SMT DEF HostReceived, EndWebhook, RememberHost,
         alertVars, thresholdVars, probeVars, hostVars, Send, Webhook, ProbeRead, AlertData
    <3> QED BY <3>1, <3>2, <3>3
  <2>HostFails. ASSUME NEW w \in webhooks, HostFails(w) PROVE Types'
    <3>1. AlertFlags'
      BY <2>HostFails, Zenon DEF HostFails, EndWebhook, alertVars, thresholdVars, probeVars,
         hostVars, AlertFlags, Send, Put
    <3>2. AlertData'
      BY <2>HostFails, <2>subject, LessInRest, ProbeStatesClosed, RestHolds, SMT
      DEF HostFails, EndWebhook, alertVars, thresholdVars, probeVars, hostVars, AlertData, Put, Send, RestLoaded, CooldownKept, ProbeRead, HostRead, Webhook
    <3>3. (webhooks \subseteq Webhook)'
      BY <2>HostFails, ProbeStatesClosed, SMT DEF HostFails, EndWebhook, alertVars, thresholdVars,
         probeVars, hostVars, Send, Webhook, ProbeRead, AlertData
    <3> QED BY <3>1, <3>2, <3>3
  <2>EvictAlerts. CASE EvictAlerts
    <3>1. AlertFlags'
      BY <2>EvictAlerts, Zenon DEF EvictAlerts, alertVars, thresholdVars, probeVars, hostVars,
         AlertFlags, Send, Put
    <3>2. AlertData'
      BY <2>EvictAlerts, <2>subject, LessInRest, ProbeStatesClosed, RestHolds, SMT
      DEF EvictAlerts, alertVars, thresholdVars, probeVars, hostVars, AlertData, Put, Send, RestLoaded, CooldownKept, ProbeRead, HostRead, Webhook
    <3>3. (webhooks \subseteq Webhook)'
      BY <2>EvictAlerts, ProbeStatesClosed, SMT DEF EvictAlerts, alertVars, thresholdVars,
         probeVars, hostVars, Send, Webhook, ProbeRead, AlertData
    <3> QED BY <3>1, <3>2, <3>3
  <2>AlertTick. CASE AlertTick
    <3>1. AlertFlags'
      BY <2>AlertTick, Zenon DEF AlertTick, alertVars, thresholdVars, probeVars, hostVars,
         AlertFlags, Send, Put
    <3>2. AlertData'
      <4>1. \A r \in Rest : Less(r, 1) \in Rest
        BY LessInRest, 1 \in Nat
      <4>2. \A p \in ProbeStates : {Less(r, 1) : r \in p} \in ProbeStates
        BY ProbeStatesClosed, 1 \in Nat
      <4> QED BY <2>AlertTick, <2>subject, <4>1, <4>2, Zenon DEF AlertTick, alertVars,
                 thresholdVars, probeVars, hostVars, AlertData
    <3>3. (webhooks \subseteq Webhook)'
      BY <2>AlertTick, ProbeStatesClosed, SMT DEF AlertTick, alertVars, thresholdVars, probeVars,
         hostVars, Send, Webhook, ProbeRead, AlertData
    <3> QED BY <3>1, <3>2, <3>3
  <2>Stutters. CASE UNCHANGED <<subject, alertVars>>
    <3>1. AlertFlags'
      BY <2>Stutters, Zenon DEF alertVars, thresholdVars, probeVars, hostVars, AlertFlags, Send, Put
    <3>2. AlertData'
      BY <2>Stutters, <2>subject, LessInRest, ProbeStatesClosed, RestHolds, SMT
      DEF alertVars, thresholdVars, probeVars, hostVars, AlertData, Put, Send, RestLoaded, CooldownKept, ProbeRead, HostRead, Webhook
    <3>3. (webhooks \subseteq Webhook)'
      BY <2>Stutters, ProbeStatesClosed, SMT DEF alertVars, thresholdVars, probeVars, hostVars,
         Send, Webhook, ProbeRead, AlertData
    <3> QED BY <3>1, <3>2, <3>3
  <2> QED
    BY <2>CheckAlerts, <2>ProbeUp, <2>ProbeDown, <2>Configure, <2>ClearProbeState, <2>CheckOffline,
       <2>AlertReceived, <2>AlertFails, <2>ProbeReceived, <2>ProbeFails, <2>HostReceived, <2>HostFails,
       <2>EvictAlerts, <2>AlertTick, <2>Stutters
    DEF AlertsNext, AlertsStep, Ends
<1> QED BY <1>1, <1>2, PTL DEF AlertsSpec

\* While an alert is under way the whole cooldown but its age remains, and no other is.
CooldownInv ==
  ~ cut =>
    /\ alertLoaded => alertLast = alertDisk
    /\ ~ alertLoaded => alertLast = 0 /\ Sent({"alert"}) = {}
    /\ early \/ quiet <= alertDisk
    /\ \A w \in webhooks : w.kind = "alert" => alertDisk + w.age = Cooldown /\ (early \/ quiet = 0)
    /\ \A v, w \in Sent({"alert"}) : v = w

\* Whatever is evicted and read back from storage in between, no alert is received
\* while the cooldown of the one before it lasts, but for one after a load that failed.
THEOREM AlertsKeepQuiet == AlertsSpec => NeverTwice
<1> USE AlertsAssumption DEF CooldownInv, Sent, AlertData, Rest
<1>0. AlertsTypeOK => AlertData /\ webhooks \subseteq Webhook
  BY Zenon DEF AlertsTypeOK, AlertData
<1>1. AlertsInit => CooldownInv
  BY DEF AlertsInit
<1>2. AlertsTypeOK /\ CooldownInv /\ [AlertsNext]_<<subject, alertVars>> => CooldownInv'
  <2> SUFFICES ASSUME AlertData, webhooks \subseteq Webhook, CooldownInv, [AlertsNext]_<<subject, alertVars>>
               PROVE  CooldownInv'
    BY <1>0
  <2>CheckAlerts. CASE CheckAlerts
    <3>0. PICK ok \in Loads :
            /\ alertLoaded' /\ quiet' = quiet
            /\ (early \/ (~ alertLoaded /\ ~ ok)) => early'
            /\ IF RestLoaded(ok) > 0
               THEN alertLast' = RestLoaded(ok) /\ UNCHANGED <<alertDisk, webhooks, cut>>
               ELSE alertLast' = Cooldown /\ Put(alertDisk, Cooldown) /\ Send("alert", {})
      BY <2>CheckAlerts, Zenon DEF CheckAlerts, CooldownKept
    <3>1. CASE RestLoaded(ok) > 0
      BY <3>0, <3>1 DEF RestLoaded
    <3>2. CASE ~ (RestLoaded(ok) > 0) /\ ~ cut'
      <4> DEFINE x == [kind |-> "alert", age |-> 0, before |-> {}]
      <4>1. /\ alertLast' = Cooldown /\ alertDisk' = Cooldown /\ quiet' = quiet /\ ~ cut
            /\ webhooks' = webhooks \cup {x}
        BY <3>0, <3>2, Zenon DEF Put, Send
      <4>2. RestLoaded(ok) = 0 /\ (early' \/ alertDisk = 0)
        BY <3>0, <3>2, <4>1 DEF RestLoaded
      <4>3. \A w \in webhooks : w.kind # "alert"
        BY <3>2, <4>1, <4>2 DEF RestLoaded, Webhook
      <4>4. early' \/ quiet' = 0
        BY <3>0, <4>1, <4>2
      <4>5. \A w \in webhooks' : w.kind = "alert" => w = x
        BY <4>1, <4>3
      <4>6. Cooldown + x.age = Cooldown
        OBVIOUS
      <4> HIDE DEF x
      <4> QED BY <3>0, <4>1, <4>4, <4>5, <4>6
    <3> QED BY <3>0, <3>1, <3>2
  <2>ProbeUp. CASE ProbeUp
    BY <2>ProbeUp DEF ProbeUp, alertVars, thresholdVars, probeVars, hostVars, Send, Put, Less,
       RestLoaded, CooldownKept, Webhook
  <2>ProbeDown. CASE ProbeDown
    BY <2>ProbeDown DEF ProbeDown, alertVars, thresholdVars, probeVars, hostVars, Send, Put, Less,
       RestLoaded, CooldownKept, Webhook
  <2>Configure. CASE Configure
    BY <2>Configure DEF Configure, alertVars, thresholdVars, probeVars, hostVars, Send, Put, Less,
       RestLoaded, CooldownKept, Webhook
  <2>ClearProbeState. CASE ClearProbeState \/ PruneStaleProbeStates
    BY <2>ClearProbeState DEF ClearProbeState, PruneStaleProbeStates, Forget, alertVars,
       thresholdVars, probeVars, hostVars, Send, Put, Less, RestLoaded, CooldownKept, Webhook
  <2>CheckOffline. ASSUME NEW silent \in BOOLEAN, CheckOffline(silent) PROVE CooldownInv'
    BY <2>CheckOffline DEF CheckOffline, alertVars, thresholdVars, probeVars, hostVars, Send, Put,
       Less, RestLoaded, CooldownKept, Webhook
  <2>AlertReceived. ASSUME NEW w \in webhooks, AlertReceived(w) PROVE CooldownInv'
    BY <2>AlertReceived DEF AlertReceived, EndWebhook, alertVars, thresholdVars, probeVars,
       hostVars, Send, Put, Less, RestLoaded, CooldownKept, Webhook
  <2>AlertFails. ASSUME NEW w \in webhooks, AlertFails(w) PROVE CooldownInv'
    BY <2>AlertFails DEF AlertFails, EndWebhook, CutCooldown, alertVars, thresholdVars, probeVars,
       hostVars, Send, Put, Less, RestLoaded, CooldownKept, Webhook
  <2>ProbeReceived. ASSUME NEW w \in webhooks, ProbeReceived(w) PROVE CooldownInv'
    BY <2>ProbeReceived DEF ProbeReceived, EndWebhook, SetProbe, alertVars, thresholdVars,
       probeVars, hostVars, Send, Put, Less, RestLoaded, CooldownKept, Webhook
  <2>ProbeFails. ASSUME NEW w \in webhooks, ProbeFails(w) PROVE CooldownInv'
    BY <2>ProbeFails DEF ProbeFails, EndWebhook, SetProbe, DownAgain, alertVars, thresholdVars,
       probeVars, hostVars, Send, Put, Less, RestLoaded, CooldownKept, Webhook
  <2>HostReceived. ASSUME NEW w \in webhooks, HostReceived(w) PROVE CooldownInv'
    BY <2>HostReceived DEF HostReceived, EndWebhook, RememberHost, alertVars, thresholdVars,
       probeVars, hostVars, Send, Put, Less, RestLoaded, CooldownKept, Webhook
  <2>HostFails. ASSUME NEW w \in webhooks, HostFails(w) PROVE CooldownInv'
    BY <2>HostFails DEF HostFails, EndWebhook, alertVars, thresholdVars, probeVars, hostVars, Send,
       Put, Less, RestLoaded, CooldownKept, Webhook
  <2>EvictAlerts. CASE EvictAlerts
    BY <2>EvictAlerts DEF EvictAlerts, alertVars, thresholdVars, probeVars, hostVars, Send, Put,
       Less, RestLoaded, CooldownKept, Webhook
  <2>AlertTick. CASE AlertTick
    BY <2>AlertTick DEF AlertTick, alertVars, thresholdVars, probeVars, hostVars, Send, Put, Less,
       RestLoaded, CooldownKept, Webhook
  <2>Stutters. CASE UNCHANGED <<subject, alertVars>>
    BY <2>Stutters DEF alertVars, thresholdVars, probeVars, hostVars, Send, Put, Less, RestLoaded,
       CooldownKept, Webhook
  <2> QED
    BY <2>CheckAlerts, <2>ProbeUp, <2>ProbeDown, <2>Configure, <2>ClearProbeState, <2>CheckOffline,
       <2>AlertReceived, <2>AlertFails, <2>ProbeReceived, <2>ProbeFails, <2>HostReceived, <2>HostFails,
       <2>EvictAlerts, <2>AlertTick, <2>Stutters
    DEF AlertsNext, AlertsStep, Ends
<1>3. CooldownInv /\ [AlertsNext]_<<subject, alertVars>>
      => ((\E w \in webhooks : AlertReceived(w)) => quiet = 0 \/ early \/ cut)
  BY DEF AlertReceived
<1> QED BY <1>1, <1>2, <1>3, AlertsTypeInductive, PTL DEF AlertsSpec, NeverTwice

\* Of a probe: what is told, or about to be, is on disk, and one webhook is under way, none
\* while the instance has not loaded the state or could not.
ProbeInv ==
  ~ cut /\ ~ crossed =>
    /\ probeLoaded /\ ~ unreadProbe => probeState = probeDisk
    /\ unreadProbe \/ ~ probeLoaded => probeState = {} /\ Sent({"down", "up"}) = {}
    /\ unreadProbe => probeLoaded
    /\ told = "down" \/ Sent({"down", "up"}) # {} => probeDisk # {}
    /\ \A w \in webhooks : w.kind = "up" => w.before # {}
    /\ \A v, w \in Sent({"down", "up"}) : v = w

LEMMA ProbeToldInductive == AlertsSpec => []ProbeInv
<1> USE AlertsAssumption DEF ProbeInv, Sent, AlertData, Rest
<1>0. AlertsTypeOK => AlertData /\ webhooks \subseteq Webhook
  BY Zenon DEF AlertsTypeOK, AlertData
<1>1. AlertsInit => ProbeInv
  BY DEF AlertsInit
<1>2. AlertsTypeOK /\ ProbeInv /\ [AlertsNext]_<<subject, alertVars>> => ProbeInv'
  <2> SUFFICES ASSUME AlertData, webhooks \subseteq Webhook, ProbeInv, [AlertsNext]_<<subject, alertVars>>
               PROVE  ProbeInv'
    BY <1>0
  <2>CheckAlerts. CASE CheckAlerts
    BY <2>CheckAlerts DEF CheckAlerts, alertVars, thresholdVars, probeVars, hostVars, Send, Put,
       Webhook, ProbeRead
  <2>ProbeUp. CASE ProbeUp
    <3> SUFFICES ASSUME ~ cut', ~ crossed' PROVE ProbeInv'
      OBVIOUS
    <3>0. PICK ok \in Loads :
            /\ probeLoaded' /\ probeState' = ProbeRead(ok)
            /\ unreadProbe' <=> (unreadProbe \/ (~ probeLoaded /\ ~ ok))
            /\ IF ProbeRead(ok) = {} THEN UNCHANGED <<webhooks, crossed>>
               ELSE Send("up", ProbeRead(ok)) /\ crossed' = (crossed \/ Sent({"down", "up"}) # {})
            /\ UNCHANGED <<probeDisk, told, cut>>
      BY <2>ProbeUp, Zenon DEF ProbeUp
    <3> DEFINE x == [kind |-> "up", age |-> 0, before |-> ProbeRead(ok)]
    <3>1. CASE ProbeRead(ok) = {}
      BY <3>0, <3>1 DEF ProbeRead
    <3>2. CASE ProbeRead(ok) # {}
      <4>1. ~ cut /\ ~ crossed /\ Sent({"down", "up"}) = {} /\ webhooks' = webhooks \cup {x}
        BY <3>0, <3>2, Zenon DEF Send
      <4>2. ~ unreadProbe' /\ ProbeRead(ok) = probeDisk /\ probeState' = probeDisk /\ probeDisk' = probeDisk
        BY <3>0, <3>2, <4>1 DEF ProbeRead
      <4>3. \A w \in webhooks' : w.kind \in {"down", "up"} => w = x
        BY <4>1
      <4> QED BY <3>0, <3>2, <4>1, <4>2, <4>3
    <3> QED BY <3>1, <3>2
  <2>ProbeDown. CASE ProbeDown
    <3> SUFFICES ASSUME ~ cut', ~ crossed' PROVE ProbeInv'
      OBVIOUS
    <3> DEFINE x == [kind |-> "down", age |-> 0, before |-> {}]
    <3>0. PICK ok \in Loads :
            /\ probeLoaded' /\ told' = told
            /\ IF ProbeRead(ok) \in {{}, {0}}
               THEN /\ probeState' = {Cooldown} /\ Put(probeDisk, {Cooldown}) /\ Send("down", {})
                    /\ crossed' = (crossed \/ Sent({"down", "up"}) # {}) /\ ~ unreadProbe'
               ELSE /\ probeState' = ProbeRead(ok) /\ UNCHANGED <<probeDisk, webhooks, crossed, cut>>
                    /\ unreadProbe' <=> unreadProbe
      BY <2>ProbeDown, Zenon DEF ProbeDown
    <3>1. CASE ProbeRead(ok) \notin {{}, {0}}
      BY <3>0, <3>1 DEF ProbeRead
    <3>2. CASE ProbeRead(ok) \in {{}, {0}}
      <4>1. ~ cut /\ ~ crossed /\ Sent({"down", "up"}) = {} /\ webhooks' = webhooks \cup {x}
        BY <3>0, <3>2, Zenon DEF Send, Put
      <4>2. probeState' = {Cooldown} /\ probeDisk' = {Cooldown}
        BY <3>0, <3>2 DEF Put
      <4>3. /\ \A w \in webhooks' : w.kind \in {"down", "up"} => w = x
            /\ \A w \in webhooks' : w.kind # "up"
        BY <4>1
      <4>4. probeLoaded' /\ ~ unreadProbe' /\ probeDisk' # {}
        BY <3>0, <3>2, <4>2
      <4> HIDE DEF x
      <4> QED BY <4>2, <4>3, <4>4
    <3> QED BY <3>1, <3>2
  <2>Configure. CASE Configure
    BY <2>Configure DEF Configure, alertVars, thresholdVars, probeVars, hostVars, Send, Put,
       Webhook, ProbeRead
  <2>ClearProbeState. CASE ClearProbeState \/ PruneStaleProbeStates
    BY <2>ClearProbeState DEF ClearProbeState, PruneStaleProbeStates, Forget, alertVars,
       thresholdVars, probeVars, hostVars, Send, Put, Webhook, ProbeRead
  <2>CheckOffline. ASSUME NEW silent \in BOOLEAN, CheckOffline(silent) PROVE ProbeInv'
    BY <2>CheckOffline DEF CheckOffline, alertVars, thresholdVars, probeVars, hostVars, Send, Put,
       Webhook, ProbeRead
  <2>AlertReceived. ASSUME NEW w \in webhooks, AlertReceived(w) PROVE ProbeInv'
    BY <2>AlertReceived DEF AlertReceived, EndWebhook, alertVars, thresholdVars, probeVars,
       hostVars, Send, Put, Webhook, ProbeRead
  <2>AlertFails. ASSUME NEW w \in webhooks, AlertFails(w) PROVE ProbeInv'
    BY <2>AlertFails DEF AlertFails, EndWebhook, CutCooldown, alertVars, thresholdVars, probeVars,
       hostVars, Send, Put, Webhook, ProbeRead
  <2>ProbeReceived. ASSUME NEW w \in webhooks, ProbeReceived(w) PROVE ProbeInv'
    BY <2>ProbeReceived DEF ProbeReceived, EndWebhook, SetProbe, alertVars, thresholdVars,
       probeVars, hostVars, Send, Put, Webhook, ProbeRead
  <2>ProbeFails. ASSUME NEW w \in webhooks, ProbeFails(w) PROVE ProbeInv'
    <3>1. /\ w.kind \in {"down", "up"} /\ webhooks' = webhooks \ {w} /\ crossed' = crossed /\ told' = told
          /\ unreadProbe' = unreadProbe /\ probeLoaded' = probeLoaded
      BY <2>ProbeFails, Zenon DEF ProbeFails, EndWebhook, SetProbe, DownAgain
    <3>2. ~ cut' => ~ cut /\ probeDisk' = probeState'
      BY <2>ProbeFails DEF ProbeFails, SetProbe, DownAgain, Put
    <3>3. ~ cut /\ ~ crossed => probeState' # {}
      <4>1. CASE w.kind = "down"
        BY <2>ProbeFails, <4>1 DEF ProbeFails, SetProbe
      <4>2. CASE w.kind = "up"
        <5>1. probeState' = {Less(r, w.age) : r \in w.before}
          BY <2>ProbeFails, <4>2 DEF ProbeFails, SetProbe, DownAgain
        <5> QED BY <4>2, <5>1
      <4> QED BY <3>1, <4>1, <4>2
    <3> QED BY <3>1, <3>2, <3>3
  <2>HostReceived. ASSUME NEW w \in webhooks, HostReceived(w) PROVE ProbeInv'
    BY <2>HostReceived DEF HostReceived, EndWebhook, RememberHost, alertVars, thresholdVars,
       probeVars, hostVars, Send, Put, Webhook, ProbeRead
  <2>HostFails. ASSUME NEW w \in webhooks, HostFails(w) PROVE ProbeInv'
    BY <2>HostFails DEF HostFails, EndWebhook, alertVars, thresholdVars, probeVars, hostVars, Send,
       Put, Webhook, ProbeRead
  <2>EvictAlerts. CASE EvictAlerts
    BY <2>EvictAlerts DEF EvictAlerts, alertVars, thresholdVars, probeVars, hostVars, Send, Put,
       Webhook, ProbeRead
  <2>AlertTick. CASE AlertTick
    BY <2>AlertTick DEF AlertTick, alertVars, thresholdVars, probeVars, hostVars, Send, Put,
       Webhook, ProbeRead
  <2>Stutters. CASE UNCHANGED <<subject, alertVars>>
    BY <2>Stutters DEF alertVars, thresholdVars, probeVars, hostVars, Send, Put, Webhook, ProbeRead
  <2> QED
    BY <2>CheckAlerts, <2>ProbeUp, <2>ProbeDown, <2>Configure, <2>ClearProbeState, <2>CheckOffline,
       <2>AlertReceived, <2>AlertFails, <2>ProbeReceived, <2>ProbeFails, <2>HostReceived, <2>HostFails,
       <2>EvictAlerts, <2>AlertTick, <2>Stutters
    DEF AlertsNext, AlertsStep, Ends
<1> QED BY <1>1, <1>2, AlertsTypeInductive, PTL DEF AlertsSpec

\* Of a server: its owner was told last what is on disk.
HostInv ==
  ~ cut =>
    /\ offlineLoaded /\ ~ unreadHost => offlineState = offlineDisk
    /\ unreadHost => offlineLoaded
    /\ toldHost = "offline" <=> offlineDisk = "off"

LEMMA HostToldInductive == AlertsSpec => []HostInv
<1> USE AlertsAssumption DEF HostInv, Sent, AlertData, Rest
<1>0. AlertsTypeOK => AlertData /\ webhooks \subseteq Webhook
  BY Zenon DEF AlertsTypeOK, AlertData
<1>1. AlertsInit => HostInv
  BY DEF AlertsInit
<1>2. AlertsTypeOK /\ HostInv /\ [AlertsNext]_<<subject, alertVars>> => HostInv'
  <2> SUFFICES ASSUME AlertData, webhooks \subseteq Webhook, HostInv, [AlertsNext]_<<subject, alertVars>>
               PROVE  HostInv'
    BY <1>0
  <2>CheckAlerts. CASE CheckAlerts
    BY <2>CheckAlerts DEF CheckAlerts, alertVars, thresholdVars, probeVars, hostVars, Send, Put, Webhook
  <2>ProbeUp. CASE ProbeUp
    BY <2>ProbeUp DEF ProbeUp, alertVars, thresholdVars, probeVars, hostVars, Send, Put, Webhook
  <2>ProbeDown. CASE ProbeDown
    BY <2>ProbeDown DEF ProbeDown, alertVars, thresholdVars, probeVars, hostVars, Send, Put, Webhook
  <2>Configure. CASE Configure
    BY <2>Configure DEF Configure, alertVars, thresholdVars, probeVars, hostVars, Send, Put, Webhook
  <2>ClearProbeState. CASE ClearProbeState \/ PruneStaleProbeStates
    BY <2>ClearProbeState DEF ClearProbeState, PruneStaleProbeStates, Forget, alertVars,
       thresholdVars, probeVars, hostVars, Send, Put, Webhook
  <2>CheckOffline. ASSUME NEW silent \in BOOLEAN, CheckOffline(silent) PROVE HostInv'
    <3>1. PICK ok \in Loads :
            /\ offlineLoaded' /\ offlineState' = HostRead(ok)
            /\ unreadHost' <=> (unreadHost \/ (~ offlineLoaded /\ ~ ok))
            /\ UNCHANGED <<offlineDisk, toldHost, cut>>
      BY <2>CheckOffline, Zenon DEF CheckOffline
    <3> QED BY <3>1 DEF HostRead
  <2>AlertReceived. ASSUME NEW w \in webhooks, AlertReceived(w) PROVE HostInv'
    BY <2>AlertReceived DEF AlertReceived, EndWebhook, alertVars, thresholdVars, probeVars,
       hostVars, Send, Put, Webhook
  <2>AlertFails. ASSUME NEW w \in webhooks, AlertFails(w) PROVE HostInv'
    BY <2>AlertFails DEF AlertFails, EndWebhook, CutCooldown, alertVars, thresholdVars, probeVars,
       hostVars, Send, Put, Webhook
  <2>ProbeReceived. ASSUME NEW w \in webhooks, ProbeReceived(w) PROVE HostInv'
    BY <2>ProbeReceived DEF ProbeReceived, EndWebhook, SetProbe, alertVars, thresholdVars,
       probeVars, hostVars, Send, Put, Webhook
  <2>ProbeFails. ASSUME NEW w \in webhooks, ProbeFails(w) PROVE HostInv'
    BY <2>ProbeFails DEF ProbeFails, EndWebhook, SetProbe, DownAgain, alertVars, thresholdVars,
       probeVars, hostVars, Send, Put, Webhook
  <2>HostReceived. ASSUME NEW w \in webhooks, HostReceived(w) PROVE HostInv'
    BY <2>HostReceived DEF HostReceived, EndWebhook, RememberHost, alertVars, thresholdVars,
       probeVars, hostVars, Send, Put, Webhook
  <2>HostFails. ASSUME NEW w \in webhooks, HostFails(w) PROVE HostInv'
    BY <2>HostFails DEF HostFails, EndWebhook, alertVars, thresholdVars, probeVars, hostVars, Send,
       Put, Webhook
  <2>EvictAlerts. CASE EvictAlerts
    BY <2>EvictAlerts DEF EvictAlerts, alertVars, thresholdVars, probeVars, hostVars, Send, Put, Webhook
  <2>AlertTick. CASE AlertTick
    BY <2>AlertTick DEF AlertTick, alertVars, thresholdVars, probeVars, hostVars, Send, Put, Webhook
  <2>Stutters. CASE UNCHANGED <<subject, alertVars>>
    BY <2>Stutters DEF alertVars, thresholdVars, probeVars, hostVars, Send, Put, Webhook
  <2> QED
    BY <2>CheckAlerts, <2>ProbeUp, <2>ProbeDown, <2>Configure, <2>ClearProbeState, <2>CheckOffline,
       <2>AlertReceived, <2>AlertFails, <2>ProbeReceived, <2>ProbeFails, <2>HostReceived, <2>HostFails,
       <2>EvictAlerts, <2>AlertTick, <2>Stutters
    DEF AlertsNext, AlertsStep, Ends
<1> QED BY <1>1, <1>2, AlertsTypeInductive, PTL DEF AlertsSpec

\* However webhooks fail, end late or go down with the object: what the owner was told
\* last of a probe or a server agrees with what the object takes it for, if this instance
\* could load that.
THEOREM OwnerIsTold == AlertsSpec => []ToldAgrees
<1>1. ProbeInv /\ HostInv => ToldAgrees
  BY DEF ProbeInv, HostInv, ToldAgrees, Probe, Host, ProbeRead, HostRead
<1> QED BY <1>1, ProbeToldInductive, HostToldInductive, PTL
==============================================================================
