------------------------------ MODULE Housekeeping ------------------------------
(***************************************************************************)
(* The alarm of MetricsDO (do-metrics.js), which is all that runs there    *)
(* without a request: it puts the probe states in order, sweeps the hot    *)
(* rows and prunes D1, each when its time stamp is old enough, and sets    *)
(* the next alarm.  The time stamps are kept in the row housekeep.  Frames *)
(* set an alarm where there is none in time (scheduleArchive).             *)
(*                                                                         *)
(* What a chore does is not here, see MetricsArchive for the sweep, and a  *)
(* behaviour is about one of them: they share nothing but the alarm and    *)
(* the row.  A tick is ARCHIVE_INTERVAL_MS.  A time is kept as what        *)
(* remains: until the alarm, or until the chore is due.  Setting an alarm, *)
(* reading or writing storage and the chore may fail; awaits of D1 are     *)
(* step boundaries.                                                        *)
(*                                                                         *)
(* Operators marked "Defect:" are no part of the model, see OperationJobs. *)
(***************************************************************************)
EXTENDS Naturals

CONSTANTS
  Idle,        \* ARCHIVE_IDLE_INTERVAL_MS
  SweepRest,   \* 6 * ARCHIVE_INTERVAL_MS
  ProbesRest,  \* PROBE_PRUNE_INTERVAL_MS
  PruneRest    \* PRUNE_INTERVAL_MS

ASSUME HousekeepingAssumption == {Idle, SweepRest, ProbesRest, PruneRest} \subseteq Nat \ {0}

VARIABLES
  chore,           \* "sweep", "probes" or "prune"
  webhookSet,      \* an alert webhook is configured
  hosts,           \* there are servers in D1
  alarmAt,         \* the alarm in storage, {} without one
  alarmCached,     \* {} until it is known
  hot,             \* this.data has rows
  unset,           \* history: the last setAlarm of this instance failed and left none
  stamp,           \* lastSweepAt, lastProbePruneAt or lastPruneAt
  housekeepLoaded,
  housekeep,       \* what the row has of it
  running          \* the alarm handler

envVars == <<chore, webhookSet, hosts>>
chainVars == <<alarmAt, alarmCached, hot, unset>>
choreVars == <<stamp, housekeepLoaded, housekeep, running>>
keepingVars == <<envVars, chainVars, choreVars>>

Period == [sweep |-> SweepRest, probes |-> ProbesRest, prune |-> PruneRest]
Remaining == 0..Idle

\* on: alertOn as the handler read it; due: the chore is, and has not been tried; idle:
\* there is nothing to come back to soon, {} until that is known.
Running == [on : BOOLEAN, due : BOOLEAN, idle : SUBSET BOOLEAN]

KeepingTypeOK ==
  /\ chore \in DOMAIN Period
  /\ {webhookSet, hosts, hot, unset, housekeepLoaded} \subseteq BOOLEAN
  /\ alarmAt \subseteq Remaining /\ alarmCached \subseteq Remaining
  /\ {stamp, housekeep} \subseteq 0..Period[chore]
  /\ running \subseteq Running

KeepingInit ==
  /\ chore \in DOMAIN Period
  /\ webhookSet \in BOOLEAN /\ hosts \in BOOLEAN
  /\ alarmAt = {} /\ alarmCached = {} /\ hot = FALSE /\ unset = FALSE
  /\ stamp = 0 /\ housekeepLoaded = FALSE /\ housekeep = 0
  /\ running = {}

InTime(at) == \E left \in at : left <= 1

--------------------------------------------------------------------------------
(* Frames.                                                                     *)

\* setAlarm, which may fail; the cache says it did not.
SetAlarm(ticks) ==
  /\ alarmCached' = {ticks}
  /\ alarmAt' \in {alarmAt, {ticks}} /\ unset' = (alarmAt' = {})

\* scheduleArchive.  An alarm in the cache is in time even if it should have gone off.
ScheduleArchive ==
  \/ InTime(alarmCached) /\ UNCHANGED <<alarmAt, alarmCached, unset>>
  \/ ~ InTime(alarmCached) /\ InTime(alarmAt) /\ alarmCached' = alarmAt /\ UNCHANGED <<alarmAt, unset>>
  \/ ~ InTime(alarmCached) /\ ~ InTime(alarmAt) /\ SetAlarm(1)
  \/ ~ InTime(alarmCached) /\ UNCHANGED <<alarmAt, alarmCached, unset>>  \* getAlarm fails

HostFrame ==
  /\ hosts /\ hot' = TRUE
  /\ ScheduleArchive
  /\ UNCHANGED <<envVars, choreVars>>

--------------------------------------------------------------------------------
(* alarm.                                                                      *)

\* ensureHousekeepLoaded.  What cannot be read counts as never done.
LoadedStamp == IF housekeepLoaded THEN {stamp} ELSE {housekeep, 0}

\* Then the configuration, whose failure counts as alerts being on, and whether the chore
\* is due.
AlarmRuns ==
  /\ running = {} /\ alarmAt = {0} /\ alarmAt' = {}
  /\ housekeepLoaded' = TRUE
  /\ stamp' \in LoadedStamp
  /\ \E on \in {webhookSet, TRUE} :
       running' = {[on |-> on, due |-> stamp' = 0 /\ (chore = "probes" => on), idle |-> {}]}
  /\ UNCHANGED <<envVars, alarmCached, hot, unset, housekeep>>

TriedChore == \E r \in running : r.due /\ running' = {[r EXCEPT !.due = FALSE]}

\* The sweep may leave no rows.
ChoreDone ==
  /\ TriedChore
  /\ stamp' = Period[chore]
  /\ hot' \in {hot, hot /\ chore # "sweep"}
  /\ UNCHANGED <<envVars, alarmAt, alarmCached, unset, housekeepLoaded, housekeep>>

\* It is not done, or not all of it: the next alarm tries again.
ChoreFails ==
  /\ TriedChore
  /\ UNCHANGED <<envVars, chainVars, stamp, housekeepLoaded, housekeep>>

\* The stamps are written, if this chore or another renewed one.  Without rows in memory
\* D1 is asked whether there are servers.
SavesHousekeep ==
  /\ \E r \in running :
       /\ ~ r.due /\ r.idle = {}
       /\ \E idle \in {FALSE, ~ r.on /\ ~ hot /\ ~ hosts} : running' = {[r EXCEPT !.idle = {idle}]}
  /\ housekeep' \in {stamp, housekeep}
  /\ UNCHANGED <<envVars, chainVars, stamp, housekeepLoaded>>

\* checkOfflineAlerts throws; of what comes after it only the finally block is done.
AlarmThrows ==
  /\ \E r \in running :
       r.on /\ r.due /\ running' = {[r EXCEPT !.due = FALSE, !.idle = {FALSE}]}
  /\ UNCHANGED <<envVars, chainVars, stamp, housekeepLoaded, housekeep>>

\* Defect: the next frame sets the alarm.
LeavesToFrames(ticks) == UNCHANGED <<alarmAt, alarmCached, unset>>

SetsNext(ticks) == SetAlarm(ticks)

AlarmRearms ==
  /\ \E r \in running : \E idle \in r.idle : SetsNext(IF idle THEN Idle ELSE 1)
  /\ running' = {}
  /\ UNCHANGED <<envVars, hot, stamp, housekeepLoaded, housekeep>>

--------------------------------------------------------------------------------

\* The object leaves memory; a handler that was running is called again.
KeepingEvicted ==
  /\ alarmAt' = IF running = {} THEN alarmAt ELSE {0}
  /\ alarmCached' = {} /\ hot' = FALSE /\ unset' = FALSE
  /\ stamp' = 0 /\ housekeepLoaded' = FALSE /\ running' = {}
  /\ UNCHANGED <<envVars, housekeep>>

\* The webhook is configured or removed, the first server added or the last deleted.
Reconfigured ==
  /\ \/ webhookSet' = ~ webhookSet /\ UNCHANGED <<chore, hosts, hot>>
     \/ hosts' = ~ hosts /\ hot' = FALSE /\ UNCHANGED <<chore, webhookSet>>
  /\ UNCHANGED <<alarmAt, alarmCached, unset, choreVars>>

OneLess(n) == IF n = 0 THEN 0 ELSE n - 1

KeepingTick ==
  /\ alarmAt' = {OneLess(n) : n \in alarmAt}
  /\ alarmCached' = {OneLess(n) : n \in alarmCached}
  /\ stamp' = OneLess(stamp) /\ housekeep' = OneLess(housekeep)
  /\ UNCHANGED <<envVars, hot, unset, housekeepLoaded, running>>

KeepingNext ==
  \/ HostFrame
  \/ AlarmRuns \/ SavesHousekeep \/ AlarmThrows \/ AlarmRearms
  \/ ChoreDone \/ ChoreFails
  \/ KeepingEvicted \/ Reconfigured \/ KeepingTick

KeepingSpec == KeepingInit /\ [][KeepingNext]_keepingVars

--------------------------------------------------------------------------------
(* Properties.                                                                 *)

\* A chore is done again and again, whatever fails and however often the object is
\* evicted (comments at do-metrics.js:123, :1160 and :1225).  The exception is an instance
\* that takes a failed setAlarm for a success: its frames set none until it is evicted.
ChoresGetDone ==
  \/ []<>(~ hosts \/ unset \/ (chore = "probes" /\ ~ webhookSet))
  \/ []<><<ChoreDone>>_keepingVars
================================================================================
