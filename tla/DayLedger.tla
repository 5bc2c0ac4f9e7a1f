------------------------------- MODULE DayLedger -------------------------------
(***************************************************************************)
(* The day ledger of one server in MetricsDO (do-metrics.js): every report *)
(* books the time since the last one, the alarm books the absence of a     *)
(* server that no longer reports, and writes what has been booked to       *)
(* metrics_day, where it is added up and never corrected.                  *)
(*                                                                         *)
(* An entry is a tick and whether the server was on or off in it; the      *)
(* ledger and its increments are bags of entries, so that a tick booked    *)
(* twice shows.  Traffic goes with the "on" entries, days are ranges of    *)
(* ticks.  Awaits of D1 are step boundaries, those of storage are not (the *)
(* input gate of the object); each of LedgerFaults is an event that        *)
(* happens only where they name it.                                        *)
(*                                                                         *)
(* Operators marked "Defect:" are no part of the model, see OperationJobs. *)
(***************************************************************************)
EXTENDS Naturals, FiniteSets, Bags

CONSTANTS
  Gap,           \* DAY_ONLINE_GAP_S: a longer silence is an absence
  AlarmEvery,    \* ARCHIVE_INTERVAL_MS
  LedgerFaults,  \* "evict" with increments in memory, "get" of a cursor, "seed" of one from D1
  MaxClock       \* bound: the last tick

ASSUME LedgerAssumption ==
  /\ {Gap, AlarmEvery, MaxClock} \subseteq Nat \ {0}
  /\ LedgerFaults \subseteq {"evict", "get", "seed"}

VARIABLES
  clock,
  lastSeen,       \* servers.last_seen, 0 before the first report
  cursor,         \* dayAccum.lastSec, {} when unknown
  dayCurLoaded,
  dayCurDirty,
  daycur,         \* daycur:<id> in storage, 0 without one
  dayPending,     \* increments in memory
  flushing,       \* increments in the D1 batch under way
  metricsDay,     \* the ledger
  seeding,        \* frames that await last_seen from D1, by the time they carry
  alarm,          \* program counter of the alarm
  seen,           \* max(last_seen, lastSeenSec) as the alarm goes by it
  started,        \* when that alarm or the last one fired
  firstFrame,     \* history: the first report
  lastFrame,      \* history: the last report, 0 before the first
  up,             \* history: ticks between two reports that are no more than Gap apart
  forgotten,      \* history: increments were lost with the object
  dropped         \* history: increments were lost in a batch, or before any cursor was kept

cursorVars == <<cursor, dayCurLoaded, dayCurDirty>>
alarmVars == <<alarm, seen, started>>
historyVars == <<firstFrame, lastFrame, up, forgotten, dropped>>
ledgerVars == <<clock, lastSeen, cursorVars, daycur, dayPending, flushing, metricsDay, seeding, alarmVars, historyVars>>

Time == 1..MaxClock
Entry == Time \X {"on", "off"}
IsLedger(b) == IsABag(b) /\ DOMAIN b \subseteq Entry

LedgerTypeOK ==
  /\ clock \in Time
  /\ {lastSeen, daycur, seen, firstFrame, lastFrame} \subseteq 0..MaxClock
  /\ cursor \subseteq Time /\ Cardinality(cursor) <= 1
  /\ {dayCurLoaded, dayCurDirty, forgotten, dropped} \subseteq BOOLEAN
  /\ \A b \in {dayPending, flushing, metricsDay} : IsLedger(b)
  /\ seeding \subseteq Time
  /\ alarm \in {"idle", "selected", "seeding", "account", "flush", "batch"}
  /\ started \in 0..MaxClock
  /\ up \subseteq Time

LedgerInit ==
  /\ clock = 1
  /\ lastSeen = 0
  /\ cursor = {} /\ dayCurLoaded = FALSE /\ dayCurDirty = FALSE
  /\ daycur = 0
  /\ dayPending = EmptyBag /\ flushing = EmptyBag /\ metricsDay = EmptyBag
  /\ seeding = {}
  /\ alarm = "idle" /\ seen = 0 /\ started = 0
  /\ firstFrame = 0 /\ lastFrame = 0 /\ up = {} /\ forgotten = FALSE /\ dropped = FALSE

Ticks(from, to, kind) == SetToBag({<<t, kind>> : t \in (from + 1)..to})

--------------------------------------------------------------------------------
(* Reports: ensureDayCursor, then accumulateDay.                               *)

\* The time up to a report at t, of which at most Gap counts as on.
Span(from, t) ==
  IF t <= from THEN EmptyBag
  ELSE IF t - from <= Gap THEN Ticks(from, t, "on")
  ELSE Ticks(from, t - Gap, "off") (+) Ticks(t - Gap, t, "on")

\* Without a cursor the report only sets one.
AccumulateDay(c, t) ==
  /\ dayPending' = IF c = {} THEN dayPending
                   ELSE dayPending (+) Span(CHOOSE x \in c : TRUE, t)
  /\ cursor' = {t}
  /\ dayCurDirty' = TRUE

\* The Worker has written last_seen (at most a minute ago), the frame arrives.
\* The cursor comes from memory, else from storage, else the frame awaits
\* last_seen; later frames do not wait for it.
Frame ==
  /\ lastSeen' = clock
  /\ firstFrame' = IF firstFrame = 0 THEN clock ELSE firstFrame
  /\ lastFrame' = clock
  /\ up' = IF lastFrame > 0 /\ clock - lastFrame <= Gap THEN up \cup (lastFrame + 1)..clock ELSE up
  /\ dayCurLoaded' = TRUE
  /\ \/ /\ dayCurLoaded \/ cursor # {}
        /\ AccumulateDay(cursor, clock)
        /\ UNCHANGED seeding
     \/ /\ ~ dayCurLoaded /\ cursor = {} /\ daycur > 0
        /\ AccumulateDay({daycur}, clock)
        /\ UNCHANGED seeding
     \/ /\ ~ dayCurLoaded /\ cursor = {}
        /\ daycur = 0 \/ "get" \in LedgerFaults
        /\ seeding' = seeding \cup {clock}
        /\ UNCHANGED <<cursor, dayCurDirty, dayPending>>
  /\ UNCHANGED <<clock, daycur, flushing, metricsDay, alarmVars, forgotten, dropped>>

\* last_seen arrives, and replaces whatever cursor came up meanwhile.
FrameSeeded(t) ==
  /\ t \in seeding
  /\ seeding' = seeding \ {t}
  /\ \/ AccumulateDay({lastSeen}, t)
     \/ "seed" \in LedgerFaults /\ AccumulateDay(cursor, t)
  /\ UNCHANGED <<clock, lastSeen, dayCurLoaded, daycur, flushing, metricsDay, alarmVars, historyVars>>

--------------------------------------------------------------------------------
(* The alarm: sweepOfflineDaySpans, then flushDayPending.                      *)

AlarmFires ==
  /\ alarm = "idle"
  /\ clock >= started + AlarmEvery
  /\ started' = clock
  /\ alarm' \in {"selected", "flush"}  \* "flush": the SELECT fails, no absence is booked
  /\ seen' = lastSeen
  /\ UNCHANGED <<clock, lastSeen, cursorVars, daycur, dayPending, flushing, metricsDay, seeding, historyVars>>

\* Only a server that seems to be gone is worth the read of its cursor.  A frame
\* that awaits its cursor has been seen already.
AlarmLooks ==
  /\ alarm = "selected"
  /\ seen' = IF seeding = {} THEN seen ELSE lastSeen
  /\ \/ seen' = 0 /\ alarm' = "flush" /\ UNCHANGED <<cursor, dayCurLoaded>>
     \/ seen' > 0 /\ cursor # {} /\ alarm' = "account" /\ UNCHANGED <<cursor, dayCurLoaded>>
     \/ /\ seen' > 0 /\ cursor = {} /\ started <= seen' + Gap
        /\ alarm' = "flush" /\ UNCHANGED <<cursor, dayCurLoaded>>
     \/ /\ seen' > 0 /\ cursor = {} /\ started > seen' + Gap
        /\ dayCurLoaded' = TRUE
        /\ \/ dayCurLoaded /\ alarm' = "account" /\ UNCHANGED cursor
           \/ ~ dayCurLoaded /\ daycur > 0 /\ cursor' = {daycur} /\ alarm' = "account"
           \/ /\ ~ dayCurLoaded /\ (daycur = 0 \/ "get" \in LedgerFaults)
              /\ alarm' = "seeding" /\ UNCHANGED cursor
  /\ UNCHANGED <<clock, lastSeen, dayCurDirty, daycur, dayPending, flushing, metricsDay, seeding, started, historyVars>>

AlarmSeeded ==
  /\ alarm = "seeding"
  /\ alarm' = "account"
  /\ cursor' = {lastSeen} \/ ("seed" \in LedgerFaults /\ UNCHANGED cursor)
  /\ UNCHANGED <<clock, lastSeen, dayCurLoaded, dayCurDirty, daycur, dayPending, flushing, metricsDay,
                 seeding, seen, started, historyVars>>

\* Defect: the cursor stays where it was.
MoveCursorNot(c, t) == UNCHANGED cursor

\* Defect: the cursor moves up to now, not up to what has been booked.
MoveCursorToNow(c, t) == cursor' = IF c = {} THEN {} ELSE {started}

\* The cursor follows what has been booked, if there is a cursor.
MoveCursor(c, t) == cursor' = IF c = {} THEN {} ELSE {t}

\* The absence up to Gap ago is booked.
AlarmAccounts ==
  /\ alarm = "account"
  /\ alarm' = "flush"
  /\ LET since == IF cursor = {} THEN seen ELSE CHOOSE x \in cursor : TRUE
     IN IF started <= since + Gap
        THEN UNCHANGED <<cursor, dayCurDirty, dayPending>>
        ELSE /\ dayPending' = dayPending (+) Ticks(since, started - Gap, "off")
             /\ MoveCursor(cursor, started - Gap)
             /\ dayCurDirty' = TRUE
  /\ UNCHANGED <<clock, lastSeen, dayCurLoaded, daycur, flushing, metricsDay, seeding, seen, started, historyVars>>

\* Defect: the increments are written although the cursor could not be kept.
TakePendingAnyway(kept) == flushing' = dayPending /\ dayPending' = EmptyBag

\* The increments go into the batch when their cursor is on disk.
TakePending(kept) ==
  IF kept THEN flushing' = dayPending /\ dayPending' = EmptyBag
          ELSE UNCHANGED <<flushing, dayPending>>

\* persistDayCursors, then the increments leave memory for the batch.
AlarmFlushes ==
  /\ alarm = "flush"
  /\ alarm' = "batch"
  /\ \/ ~ dayCurDirty /\ TakePending(TRUE) /\ UNCHANGED <<daycur, dayCurDirty>>
     \/ /\ dayCurDirty
        /\ daycur' = IF cursor = {} THEN daycur ELSE CHOOSE x \in cursor : TRUE
        /\ dayCurDirty' = FALSE
        /\ TakePending(TRUE)
     \/ /\ dayCurDirty /\ cursor # {}  \* the put fails
        /\ TakePending(FALSE)
        /\ UNCHANGED <<daycur, dayCurDirty>>
  /\ UNCHANGED <<clock, lastSeen, cursor, dayCurLoaded, metricsDay, seeding, seen, started, historyVars>>

\* The UPSERT adds the increments to the rows; one that fails is not repeated.
AlarmEnds ==
  /\ alarm = "batch"
  /\ alarm' = "idle"
  /\ flushing' = EmptyBag
  /\ \/ metricsDay' = metricsDay (+) flushing /\ UNCHANGED dropped
     \/ flushing # EmptyBag /\ dropped' = TRUE /\ UNCHANGED metricsDay
  /\ UNCHANGED <<clock, lastSeen, cursorVars, daycur, dayPending, seeding, seen, started, firstFrame, lastFrame, up, forgotten>>

--------------------------------------------------------------------------------

\* The object leaves memory.
EvictLedger ==
  /\ "evict" \in LedgerFaults \/ (dayPending = EmptyBag /\ alarm = "idle" /\ seeding = {} /\ ~ dayCurDirty)
  /\ cursor' = {} /\ dayCurLoaded' = FALSE /\ dayCurDirty' = FALSE
  /\ dayPending' = EmptyBag /\ flushing' = EmptyBag
  /\ metricsDay' \in {metricsDay, metricsDay (+) flushing}
  /\ seeding' = {} /\ alarm' = "idle" /\ seen' = 0
  /\ forgotten' = (forgotten \/ dayPending # EmptyBag)
  /\ dropped' = (dropped \/ metricsDay' # metricsDay (+) flushing \/ (daycur = 0 /\ lastFrame > 0))
  /\ UNCHANGED <<clock, lastSeen, daycur, started, firstFrame, lastFrame, up>>

\* D1 answers, or fails, within a tick.
ClockTick ==
  /\ clock < MaxClock
  /\ seeding = {} /\ alarm \in {"idle", "batch"}
  /\ clock' = clock + 1
  /\ UNCHANGED <<lastSeen, cursorVars, daycur, dayPending, flushing, metricsDay, seeding, alarmVars, historyVars>>

LedgerNext ==
  \/ Frame
  \/ \E t \in Time : FrameSeeded(t)
  \/ AlarmFires \/ AlarmLooks \/ AlarmSeeded \/ AlarmAccounts \/ AlarmFlushes \/ AlarmEnds
  \/ EvictLedger
  \/ ClockTick

LedgerSpec == LedgerInit /\ [][LedgerNext]_ledgerVars

--------------------------------------------------------------------------------
(* What is promised.                                                           *)

Booked(e, b) == IF BagIn(e, b) THEN b[e] ELSE 0
Copies(b, t) == Booked(<<t, "on">>, b) + Booked(<<t, "off">>, b)

\* "Rather too little than too much" (do-metrics.js:371, :502): no moment is added
\* to the ledger twice, whatever is lost or repeated between memory, storage and D1.
BookedOnce == \A t \in Time : Copies(metricsDay, t) <= 1

\* Between two reports that are close together a server is never booked as absent.
NoPhantomAbsence == \A t \in up : Booked(<<t, "off">>, metricsDay) = 0

\* It is not, as long as no increments were lost with the object.
AbsenceIsReal == NoPhantomAbsence \/ forgotten

\* Everything between the first report and the cursor is in the ledger or on its
\* way there, unless a batch failed or the object was lost before it ever kept a
\* cursor: cursor and increments part nowhere else.
NothingSkipped ==
  LET all == metricsDay (+) flushing (+) dayPending
      end == IF cursor # {} THEN CHOOSE x \in cursor : TRUE ELSE daycur
  IN dropped \/ \A t \in (firstFrame + 1)..end : Copies(all, t) > 0

================================================================================
