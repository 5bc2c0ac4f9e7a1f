---------------------------- MODULE MetricsArchive ----------------------------
(***************************************************************************)
(* The minutes of one server in MetricsDO (do-metrics.js): the first frame *)
(* of a minute becomes a row in the storage of the object, rows older than *)
(* ArchiveAfter go to D1, either with the frames (archiveIncrement) or     *)
(* with the hourly sweep (fullSweep), and rows older than Keep and below   *)
(* the archive watermark are deleted.  Neither looks below the watermark   *)
(* again, so a row the watermark passes unarchived is lost.  The history   *)
(* that is shown (queryMonitorRows, db.js) is put together from both.      *)
(*                                                                         *)
(* A minute stands for the values reported in it.  Time is in ticks, in    *)
(* which the constants are given too.  A call of storage that fails is the *)
(* other branch of its step; every D1 batch is a step of its own, with     *)
(* frames, queries, sweeps and the loss of the object in between.          *)
(*                                                                         *)
(* Operators marked "Defect:" are no part of the model, see OperationJobs. *)
(***************************************************************************)
EXTENDS Naturals, FiniteSets, FiniteSetsExt

CONSTANTS
  ArchiveAfter,  \* ARCHIVE_AFTER_MIN
  Keep,          \* METRICS_KEEP_MIN
  PersistEvery,  \* ARC_PERSIST_MIN
  SweepEvery,    \* 6 * ARCHIVE_INTERVAL_MS
  MaxOverdue,    \* how long sweeps fail in a row at most
  MaxNow         \* bound: the last minute

ASSUME ArchiveAssumption ==
  /\ {ArchiveAfter, PersistEvery, SweepEvery, MaxNow} \subseteq Nat \ {0}
  /\ ArchiveAfter > 1  \* a frame is seconds old when it arrives, the age an hour
  /\ Keep \in Nat /\ Keep >= ArchiveAfter
  /\ MaxOverdue \in Nat

VARIABLES
  now,
  stored,        \* rows m:<id>:<minute>
  arc,           \* arc:<id>, the watermark persisted, 0 without one
  archived,      \* rows of metrics_min
  lastSweep,     \* housekeep.lastSweepAt
  memory,        \* minutes in this.data; without any the next frame is fresh
  hotLoaded,     \* the rows of storage are in this.data
  putMin,
  arcCache,      \* the watermark in memory, {} until it is read
  arcPersisted,
  pendingArcRetry,
  batches,       \* D1 batches of archiveIncrement under way
  sweep,         \* the D1 batch of sweepServerRows under way
  reported,      \* history: minutes that have been in storage
  overtaken      \* history: rows of storage an increment went past without reading them

diskVars == <<stored, arc, archived, lastSweep>>
frameVars == <<memory, hotLoaded, putMin, arcCache, arcPersisted, pendingArcRetry>>
archiveVars == <<now, diskVars, frameVars, batches, sweep, reported, overtaken>>

Minute == 1..MaxNow
AtMostOne(S) == {{}} \cup {{x} : x \in S}

Batch == [rows : SUBSET Minute, unseen : SUBSET Minute, from : 0..MaxNow, upto : Minute, sure : BOOLEAN]
Sweep == [rows : SUBSET Minute, candidates : SUBSET Minute, from : 0..MaxNow, keep : Minute \cup {0},
          at : Minute]

ArchiveTypeOK ==
  /\ now \in Minute
  /\ stored \subseteq Minute
  /\ arc \in 0..MaxNow
  /\ archived \subseteq Minute
  /\ lastSweep \in 0..MaxNow
  /\ memory \subseteq Minute /\ hotLoaded \in BOOLEAN
  /\ putMin \in 0..MaxNow
  /\ arcCache \in AtMostOne(0..MaxNow)
  /\ arcPersisted \in AtMostOne(0..MaxNow)
  /\ pendingArcRetry \in BOOLEAN
  /\ batches \subseteq Batch /\ Cardinality(batches) <= 1
  /\ sweep \subseteq Sweep /\ Cardinality(sweep) <= 1
  /\ reported \subseteq Minute /\ overtaken \subseteq Minute

FreshInstance ==
  /\ memory' = {} /\ hotLoaded' = FALSE
  /\ putMin' = 0
  /\ arcCache' = {}
  /\ arcPersisted' = {}
  /\ pendingArcRetry' = FALSE
  /\ batches' = {}
  /\ sweep' = {}

ArchiveInit ==
  /\ now = 1
  /\ stored = {}
  /\ arc = 0
  /\ archived = {}
  /\ lastSweep = 0
  /\ memory = {} /\ hotLoaded = FALSE
  /\ putMin = 0
  /\ arcCache = {}
  /\ arcPersisted = {}
  /\ pendingArcRetry = FALSE
  /\ batches = {}
  /\ sweep = {}
  /\ reported = {} /\ overtaken = {}

ArchiveCutoff == IF now > ArchiveAfter THEN now - ArchiveAfter ELSE 0
KeepCutoff == IF now > Keep THEN now - Keep ELSE 0

Trim(m) == {t \in m : t >= KeepCutoff}

--------------------------------------------------------------------------------
(* processReportFrame                                                          *)

\* The minute of a frame is that of its arrival at the Worker, a few seconds ago.
FrameMinutes == {t \in Minute : t = now \/ t + 1 = now}

\* The put of the first frame of a minute fails: the rest of the frame is skipped.
PutFails(t) ==
  /\ t # putMin
  /\ memory' = Trim(memory \cup {t})
  /\ UNCHANGED <<now, diskVars, hotLoaded, putMin, arcCache, arcPersisted, pendingArcRetry,
                 batches, sweep, reported, overtaken>>

\* The hot row; for the snapshot that goes with it see LatestFeed.
HotWrite(t) ==
  /\ memory' = Trim(memory \cup {t})
  /\ putMin' = t
  /\ stored' = IF t = putMin THEN stored ELSE stored \cup {t}
  /\ reported' = reported \cup stored'

\* The rows of this.data between watermark and cutoff, and the frame's own row
\* once it is that old.
Due(t, from) ==
  {x \in memory' : /\ x <= ArchiveCutoff
                   /\ x = t \/ (x > from /\ x + Keep > ArchiveCutoff)}

NeedsFallback(from, due) ==
  /\ due # {} /\ Max(due) > from
  /\ memory = {} \/ pendingArcRetry

\* archiveIncrement up to its batch; from is the watermark it goes by.  Without the
\* fallback storage is not read: rows that are only there are unseen.
CollectDue(t, from) ==
  LET due == Due(t, from)
      fallback == NeedsFallback(from, due)
      missing == {x \in stored' : from < x /\ x <= Max(due)}
      start(rows, unseen, sure) ==
        batches' = {[rows |-> rows, unseen |-> unseen, from |-> from, upto |-> Max(due), sure |-> sure]}
  IN \/ due = {} /\ UNCHANGED <<batches, pendingArcRetry>>
     \/ due # {} /\ ~ fallback /\ start(due, missing \ memory', TRUE) /\ UNCHANGED pendingArcRetry
     \/ fallback /\ start(due \cup missing, {}, TRUE) /\ pendingArcRetry' = FALSE
     \/ fallback /\ start(due, {}, FALSE) /\ pendingArcRetry' = TRUE  \* the list fails

\* The bound of one increment under way keeps the batches apart; the sweep
\* runs beside them.
ReportFrame(t) ==
  /\ batches = {}
  /\ HotWrite(t)
  /\ IF arcCache = {}
     THEN \E from \in {arc, 0} :  \* 0: the read of the watermark fails
            arcCache' = {from} /\ arcPersisted' = {from} /\ CollectDue(t, from)
     ELSE \E from \in arcCache : CollectDue(t, from) /\ UNCHANGED <<arcCache, arcPersisted>>
  /\ UNCHANGED <<now, arc, archived, lastSweep, hotLoaded, sweep, overtaken>>

\* The batch is in D1: the watermark moves in memory, and now and then on disk.
AdvanceWatermark(b) ==
  IF b.upto > b.from /\ b.sure
  THEN /\ arcCache' = {b.upto}
       /\ overtaken' = overtaken \cup b.unseen
       /\ \/ UNCHANGED <<arc, arcPersisted>>  \* too near to the last one, or the put fails
          \/ /\ \A p \in arcPersisted : b.upto >= p + PersistEvery
             /\ arc' = b.upto
             /\ arcPersisted' = {b.upto}
  ELSE UNCHANGED <<arcCache, arc, arcPersisted, overtaken>>

ArchiveRows(b) ==
  /\ b \in batches
  /\ archived' = archived \cup b.rows
  /\ AdvanceWatermark(b)
  /\ batches' = {}
  /\ UNCHANGED <<now, stored, lastSweep, memory, hotLoaded, putMin, pendingArcRetry,
                 sweep, reported>>

ArchiveFails(b) ==
  /\ b \in batches
  /\ batches' = {}
  /\ UNCHANGED <<now, diskVars, frameVars, sweep, reported, overtaken>>

\* ensureHot, with the first /query an instance is asked.
LoadHot ==
  /\ ~ hotLoaded /\ hotLoaded' = TRUE
  /\ memory' = memory \cup stored
  /\ UNCHANGED <<now, diskVars, putMin, arcCache, arcPersisted, pendingArcRetry,
                 batches, sweep, reported, overtaken>>

--------------------------------------------------------------------------------
(* fullSweep, in an alarm                                                      *)

\* Defect: the sweep takes the rows it has in memory.
CandidatesInMemory(from) == {t \in memory : from < t /\ t <= ArchiveCutoff}

Candidates(from) == {t \in stored : from < t /\ t <= ArchiveCutoff}

\* sweepServerRows up to its batch.  If the watermark cannot be read nothing
\* happens: the next alarm tries again.
SweepBegin ==
  /\ sweep = {}
  /\ now >= lastSweep + SweepEvery
  /\ IF arcCache = {} THEN arcCache' = {arc} /\ arcPersisted' = {arc}
                      ELSE UNCHANGED <<arcCache, arcPersisted>>
  /\ \E from \in arcCache' :
       sweep' = {[rows |-> stored, candidates |-> Candidates(from), from |-> from, keep |-> KeepCutoff,
                  at |-> now]}
  /\ UNCHANGED <<now, diskVars, memory, hotLoaded, putMin, pendingArcRetry, batches, reported, overtaken>>

\* The last part of sweepServerRows: only rows the watermark covers are deleted.
DeleteCovered(s, watermark) ==
  LET doomed == {t \in s.rows : t <= s.keep /\ t <= watermark}
  IN stored' = stored \ doomed /\ memory' = memory \ doomed

\* Everything succeeds: the sweep counts as done, at the time the alarm began it.
SweepDone ==
  \E s \in sweep :
    LET watermark == Max(s.candidates \cup {s.from})
    IN /\ archived' = archived \cup s.candidates
       /\ IF s.candidates = {} THEN UNCHANGED <<arc, arcCache, arcPersisted>>
          ELSE arc' = watermark /\ arcCache' = {watermark} /\ arcPersisted' = {watermark}
       /\ DeleteCovered(s, watermark)
       /\ lastSweep' = s.at
       /\ sweep' = {}
       /\ UNCHANGED <<now, hotLoaded, putMin, pendingArcRetry, batches, reported, overtaken>>

\* Defect: a batch that fails leaves the rows out and goes on.
SweepMoves(s) ==
  /\ arc' = Max(s.candidates \cup {s.from})
  /\ DeleteCovered(s, arc')

\* A batch fails after some of the rows, or the put of the watermark: it stays.
SweepHolds(s) ==
  /\ arc' = arc
  /\ DeleteCovered(s, s.from)

SweepFails ==
  \E s \in sweep : \E part \in SUBSET s.candidates :
    /\ s.candidates # {}
    /\ archived' = archived \cup part
    /\ SweepHolds(s)
    /\ sweep' = {}
    /\ UNCHANGED <<now, lastSweep, hotLoaded, putMin, arcCache, arcPersisted,
                   pendingArcRetry, batches, reported, overtaken>>

--------------------------------------------------------------------------------

\* The object leaves memory; a batch under way may still arrive.
Evict ==
  /\ archived' \in {archived \cup UNION {b.rows : b \in B} : B \in SUBSET batches}
  /\ FreshInstance
  /\ UNCHANGED <<now, stored, arc, lastSweep, reported, overtaken>>

Tick ==
  /\ now < MaxNow
  /\ now < lastSweep + SweepEvery + MaxOverdue
  /\ now' = now + 1
  /\ UNCHANGED <<diskVars, frameVars, batches, sweep, reported, overtaken>>

ArchiveNext ==
  \/ \E t \in FrameMinutes : PutFails(t) \/ ReportFrame(t)
  \/ \E b \in batches : ArchiveRows(b) \/ ArchiveFails(b)
  \/ LoadHot
  \/ SweepBegin \/ SweepDone \/ SweepFails
  \/ Evict
  \/ Tick

ArchiveSpec == ArchiveInit /\ [][ArchiveNext]_archiveVars

--------------------------------------------------------------------------------
(* queryMonitorRows: the history of the last minutes, of a server              *)

\* Defect: an instance that has not loaded the rows answers with those it has.
HotNow == memory

HotRows == IF hotLoaded THEN memory ELSE memory \cup stored

\* /query answers with so many rows at most.
Newest(rows, count) == {t \in rows : Cardinality({x \in rows : x > t}) < count}

\* The hot rows are asked for before D1, which is asked for what is before ArchiveAfter
\* only.  Rows come to D1 and do not go (retention is far longer), so that what D1 has
\* with the hot rows it has later.
MonitorRows(minutes) ==
  {t \in Newest(HotRows, minutes) : t + minutes >= now} \cup
  {t \in archived : minutes > ArchiveAfter /\ t + minutes >= now /\ t + ArchiveAfter < now}

--------------------------------------------------------------------------------
(* What is promised.                                                           *)

\* Comments at do-metrics.js:261 and :285: the watermark must not pass rows of storage
\* that are not archived, for the sweep looks only above it and they would leave a
\* permanent hole in the history.
PassesNone ==
  \A w \in arcCache \cup {arc} : \A t \in stored \ archived : t > w

\* What holds of it: however frames, sweeps, failures and evictions interleave, the
\* watermark passes no row but those an increment did not read (do-metrics.js:296).
NoRowPassed ==
  \A w \in arcCache \cup {arc} : \A t \in (stored \ archived) \ overtaken : t > w

\* The history has no holes (comments at do-metrics.js:200 and :261): whatever was
\* evicted, archived, trimmed or deleted, a minute that reached storage is in every
\* history that goes back to it; one that was overtaken while it is in the window.
HistoryIsWhole ==
  \A minutes \in Minute :
    {t \in reported : t + minutes > now /\ (t \notin overtaken \/ t + Keep > now)} \subseteq MonitorRows(minutes)

\* Every row that was not overtaken gets to D1 when the sweeps have had time for it.
ArchivedAtLast ==
  \A t \in 1..MaxNow :
    t + ArchiveAfter + SweepEvery <= MaxNow => []<>(t \in reported \ overtaken => t \in archived)

================================================================================
