------------------------ MODULE OperationJobs_proofs ------------------------
(***************************************************************************)
(* Theorems about the operation_jobs table, for any jobs, servers, keys    *)
(* and windows: TypeOK, IndexesHold and ExpiredWasOverdue are invariants   *)
(* of JobsSpec, and JobsSpec implements JobLifecycle.                      *)
(*                                                                         *)
(* All of them rest on StepShape, which sorts the statements by what they  *)
(* do to the status column, and on KindInv, the states each kind of job    *)
(* uses.                                                                   *)
(***************************************************************************)
EXTENDS OperationJobs, TLAPS

ActiveOf(k) == IF k = "upload" THEN ActiveStates \ {"queued"} ELSE {"queued", "running"}

\* An active job is in a state of its kind.
KindInv == \A j \in Job : Active(j) => status[j] \in ActiveOf(KindOf[j])

\* What a step can do to the status column besides an INSERT and the purge.
Advances == \E j \in Job : \E to \in ActiveOf(KindOf[j]) : Move(j, ActiveStates, to)
Resolves == \E j \in Job, to \in ResultStates : Move(j, ActiveStates \cup {"expired"}, to)
Lapses == \E j \in Job : Move(j, ActiveStates, "expired")
Requeues == \E srv \in Server : RequeueOrphanUploads(srv)
--------------------------------------------------------------------------------

LEMMA InitType == JobsInit => TypeOK
BY WindowAssumption DEF JobsInit, TypeOK, Status

LEMMA NextType == TypeOK /\ [JobsNext]_jobsVars => TypeOK'
<1> SUFFICES ASSUME TypeOK, [JobsNext]_jobsVars PROVE TypeOK'
  OBVIOUS
<1> USE WindowAssumption
<1>1. ASSUME NEW j \in Job, NEW st \in Status, NEW w \in Nat, Insert(j, st, w) PROVE TypeOK'
  BY <1>1 DEF Insert, TypeOK
<1>2. ASSUME NEW j \in Job, NEW from, NEW to \in Status, Move(j, from, to),
             UNCHANGED <<now, deadline_at, expires_at, seen>>
      PROVE  TypeOK'
  BY <1>2 DEF Move, TypeOK
<1>3. ASSUME NEW j \in Job, NEW from, NEW to \in Status, NEW w \in Nat, MoveUntil(j, from, to, w),
             UNCHANGED <<now, expires_at, seen>>
      PROVE  TypeOK'
  BY <1>3 DEF MoveUntil, Move, TypeOK
<1>4. CASE Tick
  BY <1>4 DEF Tick, rowVars, TypeOK
<1>5. CASE PurgeExpired
  BY <1>5 DEF PurgeExpired, TypeOK, Status
<1>6. ASSUME NEW j \in Job, Create(j) PROVE TypeOK'
  BY <1>1, <1>6 DEF Create, InsertExecJob, InsertUploadJob, InsertAgentUpdateJob, Status, RowStates, ActiveStates
<1>7. ASSUME NEW j \in Job, Progress(j) PROVE TypeOK'
  BY <1>2, <1>3, <1>7 DEF Progress, MarkRunning, ClaimUploadStaging, MarkUploadStaged,
     MarkUploadWaitingAgent, MarkUploadRunning, Status, RowStates, ActiveStates
<1>8. ASSUME NEW j \in Job, Finish(j) PROVE TypeOK'
  BY <1>2, <1>8 DEF Finish, FailJob, FinishExecOrUpdate, FinishUploadJob, Status, RowStates, ResultStates
<1>9. ASSUME NEW j \in Job, Sweep(j) PROVE TypeOK'
  <2>1. CASE PollRead(j) \/ SelectOverdue(j)
    BY <2>1 DEF PollRead, SelectOverdue, rowVars, TypeOK
  <2>2. CASE TimeOutOrphan(j) \/ ExpireWaiting(j)
    BY <1>2, <2>2 DEF TimeOutOrphan, ExpireWaiting, Status, RowStates, ResultStates
  <2> QED BY <1>9, <2>1, <2>2 DEF Sweep
<1>10. ASSUME NEW r \in seen, SettleExpired(r) \/ SkipSeen(r) PROVE TypeOK'
  <2>1. r.job \in Job
    BY DEF TypeOK
  <2>2. CASE SettleExpired(r)
    BY <2>1, <2>2 DEF SettleExpired, Move, TypeOK, Status, RowStates
  <2>3. CASE SkipSeen(r)
    BY <2>3 DEF SkipSeen, rowVars, TypeOK
  <2> QED BY <1>10, <2>2, <2>3
<1>11. ASSUME NEW srv \in Server, RequeueOrphanUploads(srv) PROVE TypeOK'
  BY <1>11 DEF RequeueOrphanUploads, TypeOK, Status, RowStates, ActiveStates
<1>12. CASE UNCHANGED jobsVars
  BY <1>12 DEF jobsVars, TypeOK
<1> QED BY <1>4, <1>5, <1>6, <1>7, <1>8, <1>9, <1>10, <1>11, <1>12 DEF JobsNext

\* Every column keeps its type, whatever statements run: in particular the status
\* column only ever holds a state of the schema.
THEOREM TypeCorrect == JobsSpec => []TypeOK
BY InitType, NextType, PTL DEF JobsSpec
--------------------------------------------------------------------------------
(* The states of each kind, and the shape of a step.                           *)

LEMMA StatusSets ==
  /\ ActiveStates \cap ResultStates = {}
  /\ \A st \in ActiveStates \cup ResultStates : st \notin {"absent", "purged", "expired"}
  /\ RowStates = ActiveStates \cup ResultStates \cup {"expired"}
BY DEF RowStates, ActiveStates, ResultStates

LEMMA StepShape ==
  ASSUME TypeOK, KindInv, [JobsNext]_jobsVars
  PROVE  \/ UNCHANGED status
         \/ \E j \in Job : Create(j)
         \/ PurgeExpired
         \/ Advances
         \/ Resolves
         \/ Lapses
         \/ Requeues
<1> USE DEF Move
<1>1. CASE Tick \/ UNCHANGED jobsVars
  BY <1>1 DEF Tick, rowVars, jobsVars
<1>2. ASSUME NEW j \in Job, Progress(j) PROVE Advances
  <2>MarkRunning. CASE MarkRunning(j)
    BY <2>MarkRunning DEF MarkRunning, Advances, ActiveOf, ActiveStates
  <2>ClaimUploadStaging. CASE ClaimUploadStaging(j)
    BY <2>ClaimUploadStaging DEF ClaimUploadStaging, Advances, ActiveOf, ActiveStates
  <2>MarkUploadStaged. CASE MarkUploadStaged(j)
    BY <2>MarkUploadStaged DEF MarkUploadStaged, MoveUntil, Advances, ActiveOf, ActiveStates
  <2>MarkUploadWaitingAgent. CASE MarkUploadWaitingAgent(j)
    BY <2>MarkUploadWaitingAgent DEF MarkUploadWaitingAgent, Advances, ActiveOf, ActiveStates
  <2>MarkUploadRunning. CASE MarkUploadRunning(j)
    BY <2>MarkUploadRunning DEF MarkUploadRunning, MoveUntil, Advances, ActiveOf, ActiveStates
  <2> QED BY <1>2, <2>MarkRunning, <2>ClaimUploadStaging, <2>MarkUploadStaged,
             <2>MarkUploadWaitingAgent, <2>MarkUploadRunning DEF Progress
<1>3. ASSUME NEW j \in Job, Finish(j) PROVE Resolves
  <2>1. CASE FailJob(j)
    BY <2>1 DEF FailJob, Resolves, ResultStates
  <2>2. ASSUME NEW result \in ResultStates, FinishExecOrUpdate(j, result) PROVE Resolves
    BY <2>2 DEF FinishExecOrUpdate, Resolves, ActiveStates
  <2>3. ASSUME NEW result \in ResultStates, FinishUploadJob(j, result) PROVE Resolves
    BY <2>3 DEF FinishUploadJob, Resolves, ActiveStates
  <2> QED BY <1>3, <2>1, <2>2, <2>3 DEF Finish
<1>4. ASSUME NEW j \in Job, Sweep(j) PROVE UNCHANGED status \/ Resolves \/ Lapses
  <2>1. CASE PollRead(j) \/ SelectOverdue(j)
    BY <2>1 DEF PollRead, SelectOverdue, rowVars
  <2>2. CASE TimeOutOrphan(j)
    BY <2>2 DEF TimeOutOrphan, Resolves, ResultStates, ActiveStates
  <2>3. CASE ExpireWaiting(j)
    BY <2>3 DEF ExpireWaiting, Lapses, ActiveStates
  <2> QED BY <1>4, <2>1, <2>2, <2>3 DEF Sweep
<1>5. ASSUME NEW r \in seen, SettleExpired(r) \/ SkipSeen(r) PROVE UNCHANGED status \/ Lapses
  BY <1>5 DEF TypeOK, SettleExpired, SkipSeen, rowVars, Lapses
<1> QED BY <1>1, <1>2, <1>3, <1>4, <1>5 DEF JobsNext, Requeues

LEMMA NextKind == TypeOK /\ KindInv /\ [JobsNext]_jobsVars => KindInv'
<1> SUFFICES ASSUME TypeOK, KindInv, [JobsNext]_jobsVars, NEW k \in Job, Active(k)'
             PROVE  (status[k] \in ActiveOf(KindOf[k]))'
  BY DEF KindInv
<1> USE DEF KindInv, Active, TypeOK
<1>1. CASE UNCHANGED status
  BY <1>1
<1>2. ASSUME NEW j \in Job, Create(j) PROVE (status[k] \in ActiveOf(KindOf[k]))'
  BY <1>2 DEF Create, InsertExecJob, InsertUploadJob, InsertAgentUpdateJob, Insert, ActiveOf, ActiveStates
<1>3. CASE PurgeExpired
  BY <1>3 DEF PurgeExpired, ActiveStates
<1>4. CASE Advances
  BY <1>4 DEF Advances, Move
<1>5. CASE Resolves
  BY <1>5, StatusSets DEF Resolves, Move
<1>6. CASE Lapses
  BY <1>6, StatusSets DEF Lapses, Move
<1>7. CASE Requeues
  BY <1>7 DEF Requeues, RequeueOrphanUploads, Orphaned, Unexpired, ActiveOf, ActiveStates
<1> QED BY StepShape, <1>1, <1>2, <1>3, <1>4, <1>5, <1>6, <1>7

LEMMA TypeAndKind == JobsSpec => [](TypeOK /\ KindInv)
<1>1. JobsInit => KindInv
  BY DEF JobsInit, KindInv, Active, ActiveStates
<1> QED BY <1>1, InitType, NextType, NextKind, PTL DEF JobsSpec

\* Whoever is active and not an exec job is in its server's unique index.
LEMMA ActiveHoldsSlot ==
  ASSUME KindInv, NEW j \in Job
  PROVE  HoldsSlot(j) <=> Active(j) /\ KindOf[j] # "exec"
BY KindAssumption DEF KindInv, HoldsSlot, SlotStates, Active, ActiveOf, ActiveStates, Kind
--------------------------------------------------------------------------------
(* The unique indexes.                                                         *)

\* A step that is not an INSERT makes no job active and brings no row into an index
\* it was not in.
LEMMA OnlyInsertsEnter ==
  ASSUME TypeOK, KindInv, [JobsNext]_jobsVars, ~ \E j \in Job : Create(j), NEW k \in Job
  PROVE  /\ HoldsSlot(k)' => HoldsSlot(k)
         /\ IsRow(k)' => IsRow(k)
         /\ Active(k)' => Active(k)
<1> DEFINE Kept == (Active(k)' => Active(k)) /\ (IsRow(k)' => IsRow(k))
<1>1. Kept
  <2> USE DEF TypeOK, Active, IsRow
  <2>Stutters. CASE UNCHANGED status
    BY <2>Stutters
  <2>PurgeExpired. CASE PurgeExpired
    BY <2>PurgeExpired, StatusSets DEF PurgeExpired
  <2>Advances. CASE Advances
    BY <2>Advances, StatusSets DEF Advances, Move
  <2>Resolves. CASE Resolves
    BY <2>Resolves, StatusSets DEF Resolves, Move
  <2>Lapses. CASE Lapses
    BY <2>Lapses, StatusSets DEF Lapses, Move
  <2>Requeues. CASE Requeues
    BY <2>Requeues, StatusSets DEF Requeues, RequeueOrphanUploads, Orphaned, Unexpired, ActiveStates
  <2> QED BY StepShape, <2>Stutters, <2>PurgeExpired, <2>Advances, <2>Resolves, <2>Lapses, <2>Requeues
<1>2. KindInv'
  BY NextKind
<1>3. HoldsSlot(k)' <=> Active(k)' /\ KindOf[k] # "exec"
  BY <1>2, KindAssumption DEF KindInv, HoldsSlot, SlotStates, Active, ActiveOf, ActiveStates, Kind
<1> QED BY <1>1, <1>3, ActiveHoldsSlot

LEMMA NextIndexes == TypeOK /\ KindInv /\ IndexesHold /\ [JobsNext]_jobsVars => IndexesHold'
<1> SUFFICES ASSUME TypeOK, KindInv, IndexesHold, [JobsNext]_jobsVars PROVE IndexesHold'
  OBVIOUS
<1>1. ASSUME NEW i \in Job, Create(i) PROVE IndexesHold'
  <2>1. PICK st \in Status, w \in Nat : Insert(i, st, w)
    BY <1>1, WindowAssumption DEF Create, InsertExecJob, InsertUploadJob, InsertAgentUpdateJob,
       Status, RowStates, ActiveStates
  <2>2. ASSUME NEW k \in Job, k # i
        PROVE  (HoldsSlot(k)' <=> HoldsSlot(k)) /\ (IsRow(k)' <=> IsRow(k))
    BY <2>1, <2>2 DEF Insert, TypeOK, HoldsSlot, IsRow
  <2>3. ASSUME NEW k \in Job, k # i
        PROVE  /\ ~ (HoldsSlot(k)' /\ KindOf[k] = KindOf[i] /\ ServerOf[k] = ServerOf[i])
               /\ ~ (IsRow(k)' /\ KeyOf[k] = KeyOf[i] /\ KeyOf[i] # NoKey)
    BY <2>1, <2>2, <2>3 DEF Insert
  <2> QED BY <2>2, <2>3 DEF IndexesHold
<1>2. CASE ~ \E i \in Job : Create(i)
  BY <1>2, OnlyInsertsEnter DEF IndexesHold
<1> QED BY <1>1, <1>2

\* The unique indexes of schema.sql are never violated by an UPDATE: no claim, requeue,
\* late result or sweep brings a row back into an index another row holds by then.
THEOREM IndexesNeverViolated == JobsSpec => []IndexesHold
<1>1. JobsInit => IndexesHold
  BY KindAssumption DEF JobsInit, IndexesHold, HoldsSlot, SlotStates, IsRow, RowStates,
     ActiveStates, ResultStates, Kind
<1> QED BY <1>1, TypeAndKind, NextIndexes, PTL DEF JobsSpec
--------------------------------------------------------------------------------
(* Expiry by a copied deadline.                                                *)

\* What the sweeps read of a job that is not an upload cannot go stale: its row has
\* been inserted, and no statement changes its deadline any more.
SeenInv == \A r \in seen : KindOf[r.job] # "upload" =>
             /\ status[r.job] # "absent"
             /\ r.due = deadline_at[r.job]

\* An id is used once: no row becomes absent again.
LEMMA RowsStay ==
  ASSUME TypeOK, KindInv, [JobsNext]_jobsVars, NEW j \in Job, status[j] # "absent"
  PROVE  status'[j] # "absent"
<1> USE DEF TypeOK
<1>1. ASSUME NEW k \in Job, Create(k) PROVE status'[j] # "absent"
  BY <1>1 DEF Create, InsertExecJob, InsertUploadJob, InsertAgentUpdateJob, Insert
<1>2. CASE PurgeExpired
  BY <1>2 DEF PurgeExpired
<1>3. CASE Advances
  BY <1>3 DEF Advances, Move, ActiveOf, ActiveStates
<1>4. CASE Resolves \/ Lapses
  BY <1>4 DEF Resolves, Lapses, Move, ResultStates
<1>5. CASE Requeues
  BY <1>5 DEF Requeues, RequeueOrphanUploads
<1> QED BY StepShape, <1>1, <1>2, <1>3, <1>4, <1>5

\* A job whose row has been inserted becomes neither active nor a row again.
LEMMA NoneRevives ==
  ASSUME TypeOK, KindInv, [JobsNext]_jobsVars, NEW k \in Job, status[k] # "absent"
  PROVE  (Active(k)' => Active(k)) /\ (IsRow(k)' => IsRow(k))
<1>1. ASSUME NEW i \in Job, Create(i) PROVE status'[k] = status[k]
  BY <1>1 DEF Create, InsertExecJob, InsertUploadJob, InsertAgentUpdateJob, Insert, TypeOK
<1> QED BY <1>1, OnlyInsertsEnter DEF Active, IsRow

\* Time goes on and the row of a job that exists keeps its TTL.
LEMMA TtlStays ==
  ASSUME TypeOK, KindInv, [JobsNext]_jobsVars, NEW j \in Job
  PROVE  /\ now <= now'
         /\ status[j] # "absent" => expires_at'[j] = expires_at[j]
         /\ status'[j] = "purged" => status[j] = "purged" \/ (IsRow(j) /\ expires_at[j] < now)
<1> USE DEF TypeOK
<1>1. CASE Tick \/ UNCHANGED jobsVars
  BY <1>1, WindowAssumption DEF Tick, rowVars, jobsVars
<1>2. CASE PurgeExpired
  BY <1>2, WindowAssumption DEF PurgeExpired
<1>3. ASSUME NEW k \in Job, Create(k)
      PROVE  /\ now <= now'
             /\ status[j] # "absent" => expires_at'[j] = expires_at[j]
             /\ status'[j] = "purged" => status[j] = "purged"
  BY <1>3 DEF Create, InsertExecJob, InsertUploadJob, InsertAgentUpdateJob, Insert
<1>4. ASSUME ~ (Tick \/ PurgeExpired \/ \E k \in Job : Create(k)), ~ UNCHANGED jobsVars
      PROVE  UNCHANGED <<now, expires_at>>
  BY <1>4 DEF JobsNext, Progress, MarkRunning, ClaimUploadStaging, MarkUploadStaged, MarkUploadWaitingAgent,
     MarkUploadRunning, Finish, FailJob, FinishExecOrUpdate, FinishUploadJob, Sweep, PollRead, SelectOverdue,
     TimeOutOrphan, ExpireWaiting, SettleExpired, SkipSeen, RequeueOrphanUploads, rowVars
<1>5. status'[j] = "purged" => status[j] = "purged" \/ PurgeExpired
  <2>Stutters. CASE UNCHANGED status
    BY <2>Stutters
  <2>Advances. CASE Advances
    BY <2>Advances DEF Advances, Move, ActiveOf, ActiveStates
  <2>Resolves. CASE Resolves \/ Lapses
    BY <2>Resolves DEF Resolves, Lapses, Move, ResultStates
  <2>Requeues. CASE Requeues
    BY <2>Requeues DEF Requeues, RequeueOrphanUploads
  <2> QED BY <1>3, StepShape, <2>Stutters, <2>Advances, <2>Resolves, <2>Requeues
<1> QED BY <1>1, <1>2, <1>3, <1>4, <1>5, WindowAssumption

\* Only uploads get a second deadline, and no row becomes absent again.
LEMMA DeadlinesStay ==
  ASSUME TypeOK, KindInv, [JobsNext]_jobsVars,
         NEW j \in Job, KindOf[j] # "upload", status[j] # "absent"
  PROVE  deadline_at'[j] = deadline_at[j] /\ status'[j] # "absent"
<1>1. deadline_at'[j] = deadline_at[j]
  <2> USE DEF TypeOK
  <2>Tick. CASE Tick \/ UNCHANGED jobsVars
    BY <2>Tick DEF Tick, rowVars, jobsVars
  <2>PurgeExpired. CASE PurgeExpired
    BY <2>PurgeExpired DEF PurgeExpired
  <2>Create. ASSUME NEW k \in Job, Create(k) PROVE deadline_at'[j] = deadline_at[j]
    BY <2>Create DEF Create, InsertExecJob, InsertUploadJob, InsertAgentUpdateJob, Insert
  <2>Progress. ASSUME NEW k \in Job, Progress(k) PROVE deadline_at'[j] = deadline_at[j]
    BY <2>Progress DEF Progress, MarkRunning, ClaimUploadStaging, MarkUploadStaged,
       MarkUploadWaitingAgent, MarkUploadRunning, MoveUntil
  <2>Finish. ASSUME NEW k \in Job, Finish(k) PROVE deadline_at'[j] = deadline_at[j]
    BY <2>Finish DEF Finish, FailJob, FinishExecOrUpdate, FinishUploadJob
  <2>Sweep. ASSUME NEW k \in Job, Sweep(k) PROVE deadline_at'[j] = deadline_at[j]
    BY <2>Sweep DEF Sweep, PollRead, SelectOverdue, TimeOutOrphan, ExpireWaiting, rowVars
  <2>SettleExpired. ASSUME NEW r \in seen, SettleExpired(r) \/ SkipSeen(r) PROVE deadline_at'[j] = deadline_at[j]
    BY <2>SettleExpired DEF SettleExpired, SkipSeen, rowVars
  <2>Requeues. CASE Requeues
    BY <2>Requeues DEF Requeues, RequeueOrphanUploads
  <2> QED BY <2>Tick, <2>PurgeExpired, <2>Create, <2>Progress, <2>Finish, <2>Sweep,
             <2>SettleExpired, <2>Requeues DEF JobsNext, Requeues
<1>2. status'[j] # "absent"
  BY RowsStay
<1> QED BY <1>1, <1>2

LEMMA NextSeen == TypeOK /\ KindInv /\ SeenInv /\ [JobsNext]_jobsVars => SeenInv'
<1> SUFFICES ASSUME TypeOK, KindInv, SeenInv, [JobsNext]_jobsVars,
                    NEW r \in seen', KindOf[r.job] # "upload"
             PROVE  status'[r.job] # "absent" /\ r.due = deadline_at'[r.job]
  BY DEF SeenInv
<1>1. CASE r \in seen
  <2>1. r.job \in Job /\ status[r.job] # "absent" /\ r.due = deadline_at[r.job]
    BY <1>1 DEF SeenInv, TypeOK
  <2> QED BY <2>1, DeadlinesStay
<1>2. CASE r \notin seen
  <2>1. PICK j \in Job : PollRead(j) \/ SelectOverdue(j)
    BY <1>2 DEF JobsNext, jobsVars, Tick, PurgeExpired, rowVars, RequeueOrphanUploads,
       Create, InsertExecJob, InsertUploadJob, InsertAgentUpdateJob, Insert,
       Progress, MarkRunning, ClaimUploadStaging, MarkUploadStaged, MarkUploadWaitingAgent,
       MarkUploadRunning, Finish, FailJob, FinishExecOrUpdate, FinishUploadJob,
       Sweep, TimeOutOrphan, ExpireWaiting, SettleExpired, SkipSeen
  <2>2. /\ r = [job |-> j, due |-> deadline_at[j]]
        /\ UNCHANGED rowVars
        /\ Active(j)
    BY <1>2, <2>1 DEF PollRead, SelectOverdue
  <2> QED BY <2>2, StatusSets DEF rowVars, Active
<1> QED BY <1>1, <1>2

LEMMA NextOverdue ==
  TypeOK /\ KindInv /\ SeenInv /\ ExpiredWasOverdue /\ [JobsNext]_jobsVars => ExpiredWasOverdue'
<1> SUFFICES ASSUME TypeOK, KindInv, SeenInv, ExpiredWasOverdue, [JobsNext]_jobsVars,
                    NEW j \in Job, KindOf[j] # "upload", status'[j] = "expired"
             PROVE  deadline_at'[j] < now'
  BY DEF ExpiredWasOverdue
<1>0. now \in Int /\ now' \in Int /\ now <= now' /\ deadline_at[j] \in Int
  BY NextType, WindowAssumption DEF TypeOK, JobsNext, jobsVars, Tick, PurgeExpired, RequeueOrphanUploads,
     Create, InsertExecJob, InsertUploadJob, InsertAgentUpdateJob, Insert,
     Progress, MarkRunning, ClaimUploadStaging, MarkUploadStaged, MarkUploadWaitingAgent,
     MarkUploadRunning, Finish, FailJob, FinishExecOrUpdate, FinishUploadJob,
     Sweep, PollRead, SelectOverdue, TimeOutOrphan, ExpireWaiting, SettleExpired, SkipSeen
<1>1. CASE status[j] = "expired"
  BY <1>0, <1>1, DeadlinesStay DEF ExpiredWasOverdue
<1>2. CASE status[j] # "expired"
  <2>1. PICK r \in seen : SettleExpired(r) /\ r.job = j
    <3>1. ~ \E k \in Job : Create(k) \/ Progress(k) \/ Finish(k) \/ Sweep(k)
      BY <1>2 DEF TypeOK, Create, InsertExecJob, InsertUploadJob, InsertAgentUpdateJob, Insert,
         Progress, MarkRunning, ClaimUploadStaging, MarkUploadStaged, MarkUploadWaitingAgent,
         MarkUploadRunning, Finish, FailJob, FinishExecOrUpdate, FinishUploadJob, ResultStates,
         Sweep, PollRead, SelectOverdue, TimeOutOrphan, ExpireWaiting, rowVars, Move, MoveUntil
    <3>2. ~ (Tick \/ PurgeExpired \/ Requeues \/ UNCHANGED jobsVars)
      BY <1>2 DEF TypeOK, Tick, PurgeExpired, Requeues, RequeueOrphanUploads, jobsVars, rowVars
    <3>3. PICK r \in seen : SettleExpired(r) \/ SkipSeen(r)
      BY <3>1, <3>2 DEF JobsNext, Requeues
    <3> QED BY <1>2, <3>3 DEF TypeOK, SettleExpired, SkipSeen, Move, rowVars
  <2>2. r.due = deadline_at[j] /\ r.due < now /\ status[j] # "absent"
    BY <2>1 DEF SeenInv, SettleExpired, Move, ActiveStates
  <2> QED BY <1>0, <2>2, DeadlinesStay
<1> QED BY <1>1, <1>2

\* Settling by a copy of the row never expires a command or an agent update early.
THEOREM NeverExpiredEarly == JobsSpec => []ExpiredWasOverdue
<1>1. JobsInit => SeenInv /\ ExpiredWasOverdue
  BY DEF JobsInit, SeenInv, ExpiredWasOverdue
<1> QED BY <1>1, TypeAndKind, NextSeen, NextOverdue, PTL DEF JobsSpec
--------------------------------------------------------------------------------
(* The table implements JobLifecycle.                                          *)

LEMMA Phases ==
  ASSUME NEW st \in Status
  PROVE  /\ PhaseOf(st) = "new" <=> st = "absent"
         /\ PhaseOf(st) = "open" <=> st \in ActiveStates
         /\ PhaseOf(st) = "lapsed" <=> st = "expired"
         /\ PhaseOf(st) = "resolved" <=> st \in ResultStates
         /\ PhaseOf(st) = "forgotten" <=> st = "purged"
         /\ PhaseOf(st) \in {"new", "open", "lapsed", "resolved", "forgotten"}
         /\ st \in ResultStates => OutcomeOf(st) = st
         /\ st \notin ResultStates => OutcomeOf(st) = "none"
BY DEF PhaseOf, OutcomeOf, Status, RowStates, ActiveStates, ResultStates

\* One row that moves changes phase and outcome of its own job only.
LEMMA MoveMapped ==
  ASSUME TypeOK, NEW j \in Job, NEW to \in Status, status' = [status EXCEPT ![j] = to]
  PROVE  /\ phaseBar' = [phaseBar EXCEPT ![j] = PhaseOf(to)]
         /\ outcomeBar' = [outcomeBar EXCEPT ![j] = OutcomeOf(to)]
BY DEF TypeOK, phaseBar, outcomeBar

\* What keeps phase and outcome is a stutter.
LEMMA StutterMapped ==
  ASSUME TypeOK, TypeOK',
         \A j \in Job : PhaseOf(status'[j]) = PhaseOf(status[j]) /\ OutcomeOf(status'[j]) = OutcomeOf(status[j])
  PROVE  UNCHANGED <<phaseBar, outcomeBar>>
BY DEF phaseBar, outcomeBar

LEMMA InitMapped == JobsInit => Lifecycle!LifeInit
<1>1. PhaseOf("absent") = "new" /\ OutcomeOf("absent") = "none"
  BY Phases, StatusSets DEF Status
<1> QED BY <1>1 DEF JobsInit, Lifecycle!LifeInit, phaseBar, outcomeBar

LEMMA NextMapped ==
  TypeOK /\ KindInv /\ [JobsNext]_jobsVars => [Lifecycle!LifeNext]_<<phaseBar, outcomeBar>>
<1> SUFFICES ASSUME TypeOK, KindInv, [JobsNext]_jobsVars
             PROVE  Lifecycle!LifeNext \/ UNCHANGED <<phaseBar, outcomeBar>>
  OBVIOUS
<1>0. TypeOK'
  BY NextType
<1>1. CASE UNCHANGED status
  BY <1>1 DEF phaseBar, outcomeBar
<1>2. ASSUME NEW j \in Job, Create(j) PROVE Lifecycle!Open(j)
  <2>1. PICK st \in ActiveStates, w \in Nat : Insert(j, st, w)
    BY <1>2, WindowAssumption DEF Create, InsertExecJob, InsertUploadJob, InsertAgentUpdateJob, ActiveStates
  <2>2. st \in Status /\ status[j] = "absent" /\ status' = [status EXCEPT ![j] = st]
    BY <2>1 DEF Insert, Status, RowStates
  <2>3. phaseBar' = [phaseBar EXCEPT ![j] = "open"] /\ phaseBar[j] = "new"
    <3>1. PhaseOf(st) = "open" /\ PhaseOf(status[j]) = "new"
      BY <2>1, <2>2, Phases DEF TypeOK
    <3>2. phaseBar[j] = PhaseOf(status[j])
      BY DEF phaseBar
    <3> QED BY <2>2, <3>1, <3>2, MoveMapped
  <2>4. outcomeBar' = outcomeBar
    <3>1. OutcomeOf(st) = "none" /\ outcomeBar[j] = "none"
      BY <2>1, <2>2, StatusSets, Phases DEF outcomeBar, TypeOK
    <3>2. outcomeBar' = [outcomeBar EXCEPT ![j] = "none"]
      BY <2>2, <3>1, MoveMapped
    <3> QED BY <3>1, <3>2 DEF outcomeBar
  <2>5. ASSUME NEW k \in Job, slotBar[j] # <<"none">>, slotBar[k] = slotBar[j] PROVE phaseBar[k] # "open"
    <3>1. KindOf[j] # "exec" /\ KindOf[k] # "exec" /\ KindOf[k] = KindOf[j] /\ ServerOf[k] = ServerOf[j]
      BY <2>5 DEF slotBar
    <3>2. ~ HoldsSlot(k)
      BY <2>1, <3>1 DEF Insert
    <3> QED BY <3>1, <3>2, ActiveHoldsSlot, Phases DEF phaseBar, Active, TypeOK
  <2> QED BY <2>3, <2>4, <2>5 DEF Lifecycle!Open, Lifecycle!SameSlot
<1>3. CASE PurgeExpired
  <2> DEFINE S == {j \in Job : IsRow(j) /\ expires_at[j] < now}
  <2>1. status' = [j \in Job |-> IF j \in S THEN "purged" ELSE status[j]]
    BY <1>3 DEF PurgeExpired
  <2>2. \A j \in S : phaseBar[j] # "new"
    BY Phases, StatusSets DEF phaseBar, IsRow, TypeOK, RowStates
  <2>3. phaseBar' = [j \in Job |-> IF j \in S THEN "forgotten" ELSE phaseBar[j]]
    <3>1. "purged" \in Status /\ PhaseOf("purged") = "forgotten"
      BY Phases DEF Status
    <3> QED BY <2>1, <3>1 DEF phaseBar
  <2>4. outcomeBar' = [j \in Job |-> IF j \in S THEN "none" ELSE outcomeBar[j]]
    <3>1. OutcomeOf("purged") = "none"
      BY DEF OutcomeOf, ResultStates
    <3> QED BY <2>1, <3>1 DEF outcomeBar
  <2>5. Lifecycle!Forget(S)
    BY <2>2, <2>3, <2>4 DEF Lifecycle!Forget
  <2> QED BY <2>5 DEF Lifecycle!LifeNext
<1>4. CASE Advances
  <2>1. PICK j \in Job, to \in ActiveStates : Move(j, ActiveStates, to)
    BY <1>4 DEF Advances, ActiveOf, ActiveStates
  <2>2. \A k \in Job : status'[k] = status[k] \/ (status[k] \in ActiveStates /\ status'[k] \in ActiveStates)
    BY <2>1 DEF Move, TypeOK
  <2> QED BY <1>0, <2>2, StutterMapped, Phases, StatusSets DEF TypeOK
<1>5. CASE Resolves
  <2>1. PICK j \in Job, to \in ResultStates : Move(j, ActiveStates \cup {"expired"}, to)
    BY <1>5 DEF Resolves
  <2>2. to \in Status /\ status' = [status EXCEPT ![j] = to]
    BY <2>1 DEF Move, Status, RowStates
  <2>3. phaseBar[j] \in {"open", "lapsed"}
    BY <2>1, Phases DEF Move, phaseBar, TypeOK
  <2>4. Lifecycle!Resolve(j, to)
    <3>1. PhaseOf(to) = "resolved" /\ OutcomeOf(to) = to
      BY <2>1, <2>2, Phases
    <3> QED BY <2>2, <2>3, <3>1, MoveMapped DEF Lifecycle!Resolve
  <2> QED BY <2>4 DEF Lifecycle!LifeNext
<1>6. CASE Lapses
  <2>1. PICK j \in Job : Move(j, ActiveStates, "expired")
    BY <1>6 DEF Lapses
  <2>2. "expired" \in Status /\ status' = [status EXCEPT ![j] = "expired"] /\ status[j] \in ActiveStates
    BY <2>1 DEF Move, Status, RowStates
  <2>3. phaseBar[j] = "open" /\ phaseBar' = [phaseBar EXCEPT ![j] = "lapsed"]
    <3>1. PhaseOf("expired") = "lapsed" /\ PhaseOf(status[j]) = "open"
      BY <2>2, Phases DEF TypeOK
    <3>2. phaseBar[j] = PhaseOf(status[j])
      BY DEF phaseBar
    <3> QED BY <2>2, <3>1, <3>2, MoveMapped
  <2>4. \A k \in Job : OutcomeOf(status'[k]) = OutcomeOf(status[k])
    BY <2>2, Phases, StatusSets DEF TypeOK
  <2>5. outcomeBar' = outcomeBar
    BY <2>4 DEF outcomeBar
  <2> QED BY <2>3, <2>5 DEF Lifecycle!Lapse, Lifecycle!LifeNext
<1>7. CASE Requeues
  <2>1. \A k \in Job : status'[k] = status[k] \/ (status[k] \in ActiveStates /\ status'[k] \in ActiveStates)
    BY <1>7 DEF Requeues, RequeueOrphanUploads, Orphaned, Unexpired, ActiveStates
  <2> QED BY <1>0, <2>1, StutterMapped, Phases, StatusSets DEF TypeOK
<1> QED BY StepShape, <1>1, <1>2, <1>3, <1>4, <1>5, <1>6, <1>7 DEF Lifecycle!LifeNext

\* The table keeps the promise a client relies on when it polls a job id: see JobLifecycle.
THEOREM TableImplementsLifecycle == JobsSpec => ImplementsLifecycle
<1>1. TypeOK /\ KindInv /\ [JobsNext]_jobsVars => [Lifecycle!LifeNext]_Lifecycle!lifeVars
  BY NextMapped DEF Lifecycle!lifeVars
<1> QED BY <1>1, InitMapped, TypeAndKind, PTL DEF JobsSpec, ImplementsLifecycle, Lifecycle!LifeSpec
===============================================================================
