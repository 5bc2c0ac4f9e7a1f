SPECIFICATION FairMetricsSpec
CONSTANTS
  ArchiveAfter = 2
  Keep = 4
  PersistEvery = 1
  SweepEvery = 2
  MaxOverdue = 0
  MaxNow = 5
  Gap = 1
  AlarmEvery = 2
  LedgerFaults = {"evict"}
  MaxClock = 6
  Subjects = {"threshold", "probe", "host"}
  Cooldown = 2
  Backoff = 1
  AlertFaults = {"put", "list", "evict"}
  Idle = 2
  SweepRest = 2
  ProbesRest = 2
  PruneRest = 3
INVARIANTS
  NoRowPassed
  
  BookedOnce
  AbsenceIsReal
  NothingSkipped
  ToldAgrees
PROPERTIES
  ArchivedAtLast
  NeverTwice
  AlertGetsThrough
  ChoresGetDone
CHECK_DEADLOCK FALSE
