SPECIFICATION FairMetricsSpec
CONSTANTS
  ArchiveAfter = 3
  Keep = 12
  PersistEvery = 1
  SweepEvery = 3
  MaxOverdue = 0
  MaxNow = 6
  Gap = 1
  AlarmEvery = 2
  LedgerFaults = {"evict"}
  MaxClock = 6
  Subjects = {"threshold", "probe", "host"}
  Cooldown = 2
  Backoff = 1
  AlertFaults = {"put", "list", "evict"}
  Idle = 2
  SweepRest = 2
  ProbesRest = 2
  PruneRest = 3
INVARIANTS
  PassesNone
CHECK_DEADLOCK FALSE
