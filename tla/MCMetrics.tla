------------------------------- MODULE MCMetrics -------------------------------
(* The three things MetricsDO keeps for a server and the alarm that tends them,   *)
(* side by side.  They share no state but the clock and the life of the object,   *)
(* so one behaviour moves one of them: the archive of the minutes, the day        *)
(* ledger, the alerts, or the alarm.                                              *)
(*                                                                                *)
(* A tick is half an hour for the archive (as in the code, rows are archived      *)
(* when they are as old as the time between two sweeps), five minutes for the     *)
(* ledger, a minute for the alerts and ten for the alarm.                         *)
EXTENDS MetricsArchive, DayLedger, MetricsAlerts, Housekeeping

VARIABLE part  \* the part that moves

metricsVars == <<part, archiveVars, ledgerVars, subject, alertVars, keepingVars>>

MetricsInit ==
  /\ part \in {"archive", "ledger", "alerts", "alarm"}
  /\ ArchiveInit /\ LedgerInit /\ AlertsInit /\ KeepingInit
  /\ part # "alerts" => subject = "host"
  /\ part # "alarm" => chore = "sweep" /\ ~ hosts /\ ~ webhookSet

InArchive(step) == part = "archive" /\ step /\ UNCHANGED <<part, ledgerVars, subject, alertVars, keepingVars>>
InLedger(step) == part = "ledger" /\ step /\ UNCHANGED <<part, archiveVars, subject, alertVars, keepingVars>>
InAlerts(step) == part = "alerts" /\ step /\ UNCHANGED <<part, archiveVars, ledgerVars, subject, keepingVars>>
InAlarm(step) == part = "alarm" /\ step /\ UNCHANGED <<part, archiveVars, ledgerVars, subject, alertVars>>

MetricsNext ==
  InArchive(ArchiveNext) \/ InLedger(LedgerNext) \/ InAlerts(AlertsStep) \/ InAlarm(KeepingNext)

\* As one part moves, a fairness formula may speak of a step of each.  Time goes on.
TimePasses == InArchive(Tick) \/ InAlerts(AlertTick) \/ InAlarm(KeepingTick)

\* A webhook ends by its timeout, and an alarm that is due goes off and goes on.
Proceeds ==
  \/ InAlerts(\E w \in webhooks : w.age = 1 /\ Ends(w))
  \/ InAlarm(AlarmRuns \/ SavesHousekeep \/ AlarmRearms)

\* The alarm sweeps and looks after probes that are gone; a breach that lasts is reported.
Attempts ==
  \/ InArchive(SweepBegin)
  \/ InAlerts(subject = "threshold" /\ CheckAlerts)
  \/ InAlerts(subject = "probe" /\ PruneStaleProbeStates)

\* D1 and storage do not fail for ever, and the network lets a webhook through.
Succeeds ==
  \/ InArchive(SweepDone)
  \/ InAlerts(\E w \in webhooks : AlertReceived(w))
  \/ InAlarm(ChoreDone)

\* Frames come, and setAlarm does not fail for ever.
AlarmSet == InAlarm(HostFrame /\ alarmAt' # {})

FairMetricsSpec ==
  /\ MetricsInit /\ [][MetricsNext]_metricsVars
  /\ WF_metricsVars(TimePasses) /\ WF_metricsVars(Proceeds) /\ WF_metricsVars(Attempts)
  /\ SF_metricsVars(Succeeds) /\ SF_metricsVars(AlarmSet)
================================================================================
