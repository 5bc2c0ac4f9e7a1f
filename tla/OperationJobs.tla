----------------------------- MODULE OperationJobs -----------------------------
(***************************************************************************)
(* The operation_jobs table of D1 and the statements src/jobs.js (and, for *)
(* two of them, src/do-terminal.js) runs on it.  One action is one SQL     *)
(* statement: D1 executes it atomically, and between two statements of one *)
(* caller any statement of any other caller may run.  Callers (Worker      *)
(* requests, Durable Objects, polls, the hourly cron) are left open here:  *)
(* JobsNext lets every statement run whenever its WHERE clause selects a   *)
(* row.  UploadFlow and ExecFlow say who calls what, in which order.       *)
(*                                                                         *)
(* A poll or a sweep that reads overdue rows and settles them one by one   *)
(* is two actions, the SELECT and the UPDATE; what the SELECT returned and *)
(* is not settled yet is in seen.  One set stands for any number of        *)
(* concurrent sweeps: a second UPDATE of a row finds it settled already.   *)
(*                                                                         *)
(* Operators marked "Defect:" are no part of the model.  Each is the       *)
(* definition below it with a slip a programmer could make, and is there   *)
(* to see which property notices the slip (the README lists them).         *)
(***************************************************************************)
EXTENDS Integers, FiniteSets

CONSTANTS
  Job,            \* ids newJobId can return; never reused
  Server,
  Key,            \* (user, idempotency_key) pairs of exec requests
  NoKey,          \* the request carries no idempotency_key
  KindOf,         \* kind column of each job
  ServerOf,       \* server_id column
  KeyOf,          \* user_id and idempotency_key columns
  ExecWindow,     \* timeout_s + EXEC_JOB_GRACE_S
  UploadWindow,   \* UPLOAD_JOB_UPLOAD_WINDOW_S
  AgentWindow,    \* UPLOAD_JOB_AGENT_WINDOW_S + UPLOAD_JOB_GRACE_S
  UpdateWindow,   \* UPDATE_JOB_TIMEOUT_S + UPDATE_JOB_GRACE_S
  JobTtl,         \* JOB_TTL_S
  MaxTime         \* bound of the clock

Kind == {"exec", "upload", "agent_update"}

ASSUME KindAssumption == KindOf \in [Job -> Kind]
ASSUME ServerAssumption == ServerOf \in [Job -> Server]
ASSUME KeyAssumption == /\ NoKey \notin Key
                        /\ KeyOf \in [Job -> Key \cup {NoKey}]
                        /\ \A j \in Job : KindOf[j] # "exec" => KeyOf[j] = NoKey
ASSUME WindowAssumption == /\ ExecWindow \in Nat
                           /\ UploadWindow \in Nat
                           /\ AgentWindow \in Nat
                           /\ UpdateWindow \in Nat
                           /\ JobTtl \in Nat
                           /\ MaxTime \in Nat

VARIABLES
  now,          \* the clock nowSec() reads
  status,       \* status column; "absent" before the INSERT, "purged" after the DELETE
  deadline_at,  \* deadline_at column
  expires_at,   \* expires_at column
  seen          \* rows read by a poll or an expiry sweep, with the deadline they had

rowVars == <<status, deadline_at, expires_at>>
jobsVars == <<now, status, deadline_at, expires_at, seen>>

ActiveStates == {"queued", "awaiting_upload", "staging", "staged", "waiting_agent", "running"}
ResultStates == {"succeeded", "failed", "timed_out"}
RowStates == ActiveStates \cup ResultStates \cup {"expired"}
Status == RowStates \cup {"absent", "purged"}

\* The partial unique indexes of schema.sql: at most one row per server in these states.
SlotStates(k) == CASE k = "upload" -> {"awaiting_upload", "staging", "staged", "waiting_agent", "running"}
                   [] k = "agent_update" -> {"queued", "waiting_agent", "running"}
                   [] OTHER -> {}

IsRow(j) == status[j] \in RowStates
Active(j) == status[j] \in ActiveStates
HoldsSlot(j) == status[j] \in SlotStates(KindOf[j])

TypeOK == /\ now \in 0..MaxTime
          /\ status \in [Job -> Status]
          /\ deadline_at \in [Job -> Nat]
          /\ expires_at \in [Job -> Nat]
          /\ seen \subseteq [job : Job, due : Nat]

JobsInit == /\ now = 0
            /\ status = [j \in Job |-> "absent"]
            /\ deadline_at = [j \in Job |-> 0]
            /\ expires_at = [j \in Job |-> 0]
            /\ seen = {}

--------------------------------------------------------------------------------
(* Building blocks: one conditional UPDATE of the status column, one INSERT.   *)

\* UPDATE ... SET status = to WHERE id = j AND status IN from (meta.changes = 1)
Move(j, from, to) == /\ status[j] \in from
                     /\ status' = [status EXCEPT ![j] = to]

\* The same UPDATE with a fresh deadline_at.
MoveUntil(j, from, to, window) == /\ Move(j, from, to)
                                  /\ deadline_at' = [deadline_at EXCEPT ![j] = now + window]

\* Defect: the unique index on idempotency_key is missing.
InsertAnyKey(j, st, window) ==
  /\ status[j] = "absent"
  /\ \A k \in Job : ~ (HoldsSlot(k) /\ KindOf[k] = KindOf[j] /\ ServerOf[k] = ServerOf[j])
  /\ status' = [status EXCEPT ![j] = st]
  /\ deadline_at' = [deadline_at EXCEPT ![j] = now + window]
  /\ expires_at' = [expires_at EXCEPT ![j] = now + JobTtl]
  /\ UNCHANGED <<now, seen>>

\* INSERT succeeds: the id is new and no unique index already holds the row.
Insert(j, st, window) ==
  /\ status[j] = "absent"
  /\ \A k \in Job : ~ (/\ HoldsSlot(k)
                       /\ KindOf[k] = KindOf[j]
                       /\ ServerOf[k] = ServerOf[j])
  /\ KeyOf[j] # NoKey => \A k \in Job : IsRow(k) => KeyOf[k] # KeyOf[j]
  /\ status' = [status EXCEPT ![j] = st]
  /\ deadline_at' = [deadline_at EXCEPT ![j] = now + window]
  /\ expires_at' = [expires_at EXCEPT ![j] = now + JobTtl]
  /\ UNCHANGED <<now, seen>>

--------------------------------------------------------------------------------
(* Creation and the retention sweep.                                           *)

InsertExecJob(j) == KindOf[j] = "exec" /\ Insert(j, "queued", ExecWindow)

InsertUploadJob(j) == KindOf[j] = "upload" /\ Insert(j, "awaiting_upload", UploadWindow)

InsertAgentUpdateJob(j) == KindOf[j] = "agent_update" /\ Insert(j, "queued", UpdateWindow)

\* DELETE ... WHERE expires_at < now: run before every creation and by the cron,
\* on rows of any status.
PurgeExpired ==
  LET gone == {j \in Job : IsRow(j) /\ expires_at[j] < now} IN
  /\ gone # {}
  /\ status' = [j \in Job |-> IF j \in gone THEN "purged" ELSE status[j]]
  /\ UNCHANGED <<now, deadline_at, expires_at, seen>>

--------------------------------------------------------------------------------
(* exec and agent_update.                                                      *)

\* markJobRunning, markUpdateRunning
MarkRunning(j) == /\ KindOf[j] \in {"exec", "agent_update"}
                  /\ Move(j, {"queued"}, "running")
                  /\ UNCHANGED <<now, deadline_at, expires_at, seen>>

\* Defect: a failed job takes a result like an expired one.
FinishFailedToo(j, result) == /\ KindOf[j] \in {"exec", "agent_update"}
                              /\ Move(j, {"queued", "running", "expired", "failed"}, result)
                              /\ UNCHANGED <<now, deadline_at, expires_at, seen>>

\* finishExecJob, finishUpdateJob: a result, late ones included
FinishExecOrUpdate(j, result) == /\ KindOf[j] \in {"exec", "agent_update"}
                                 /\ Move(j, {"queued", "running", "expired"}, result)
                                 /\ UNCHANGED <<now, deadline_at, expires_at, seen>>

\* failJob: a dispatch failure, from any active state
FailJob(j) == /\ Move(j, ActiveStates, "failed")
              /\ UNCHANGED <<now, deadline_at, expires_at, seen>>

--------------------------------------------------------------------------------
(* upload.                                                                     *)

ClaimUploadStaging(j) == /\ KindOf[j] = "upload"
                         /\ now <= deadline_at[j]
                         /\ Move(j, {"awaiting_upload"}, "staging")
                         /\ UNCHANGED <<now, deadline_at, expires_at, seen>>

MarkUploadStaged(j) == /\ KindOf[j] = "upload"
                       /\ MoveUntil(j, {"staging"}, "staged", AgentWindow)
                       /\ UNCHANGED <<now, expires_at, seen>>

MarkUploadWaitingAgent(j) == /\ KindOf[j] = "upload"
                             /\ Move(j, {"staged"}, "waiting_agent")
                             /\ UNCHANGED <<now, deadline_at, expires_at, seen>>

MarkUploadRunning(j) == /\ KindOf[j] = "upload"
                        /\ MoveUntil(j, {"waiting_agent"}, "running", AgentWindow)
                        /\ UNCHANGED <<now, expires_at, seen>>

\* Defect: a second result overwrites the first.
FinishUploadAgain(j, result) ==
  /\ KindOf[j] = "upload"
  /\ result # "timed_out"
  /\ Move(j, (ActiveStates \ {"queued"}) \cup {"expired", "succeeded", "failed"}, result)
  /\ UNCHANGED <<now, deadline_at, expires_at, seen>>

\* finishUploadJob: the agent's result or the Worker's failure, late ones included
FinishUploadJob(j, result) ==
  /\ KindOf[j] = "upload"
  /\ result # "timed_out"
  /\ Move(j, (ActiveStates \ {"queued"}) \cup {"expired"}, result)
  /\ UNCHANGED <<now, deadline_at, expires_at, seen>>

\* requeueOrphanUploads, first statement: every unexpired running upload of the
\* server goes back to waiting_agent, in one UPDATE.
Orphaned(srv) == {j \in Job : /\ KindOf[j] = "upload"
                              /\ ServerOf[j] = srv
                              /\ status[j] = "running"}

Unexpired(S) == {j \in S : now < deadline_at[j]}

RequeueOrphanUploads(srv) ==
  /\ status' = [j \in Job |-> IF j \in Unexpired(Orphaned(srv)) THEN "waiting_agent" ELSE status[j]]
  /\ UNCHANGED <<now, deadline_at, expires_at, seen>>

\* The UPDATE of its second half (the caller selected the row as overdue).
TimeOutOrphan(j) == /\ KindOf[j] = "upload"
                    /\ Move(j, {"running"}, "timed_out")
                    /\ UNCHANGED <<now, deadline_at, expires_at, seen>>

\* The UPDATE of settleExpiredWaitingUploads (likewise)
ExpireWaiting(j) == /\ KindOf[j] = "upload"
                    /\ Move(j, {"waiting_agent"}, "expired")
                    /\ UNCHANGED <<now, deadline_at, expires_at, seen>>

--------------------------------------------------------------------------------
(* Sweeps: a SELECT, then one UPDATE per selected row.                         *)

\* A poll reads the row (getJob) and settles it by that copy of deadline_at.
PollRead(j) == /\ Active(j)
               /\ seen' = seen \cup {[job |-> j, due |-> deadline_at[j]]}
               /\ UNCHANGED <<now, rowVars>>

\* SELECT ... deadline_at < now of settleServerExpired and settleExpiredAll.  The
\* rows of one SELECT are added one by one, which also covers its LIMIT.
SelectOverdue(j) == /\ Active(j)
                    /\ deadline_at[j] < now
                    /\ seen' = seen \cup {[job |-> j, due |-> deadline_at[j]]}
                    /\ UNCHANGED <<now, rowVars>>

\* Defect: whatever was read is settled.
SettleUnchecked(r) == /\ r \in seen
                      /\ Move(r.job, ActiveStates, "expired")
                      /\ seen' = seen \ {r}
                      /\ UNCHANGED <<now, deadline_at, expires_at>>

\* The UPDATE of the three of them: by id and active state, not by deadline_at.
SettleExpired(r) == /\ r \in seen
                    /\ r.due < now
                    /\ Move(r.job, ActiveStates, "expired")
                    /\ seen' = seen \ {r}
                    /\ UNCHANGED <<now, deadline_at, expires_at>>

\* The job is not overdue for that copy, or is settled already: nothing is written.
SkipSeen(r) == /\ r \in seen
               /\ r.due >= now \/ ~ Active(r.job)
               /\ seen' = seen \ {r}
               /\ UNCHANGED <<now, rowVars>>

--------------------------------------------------------------------------------
Tick == /\ now < MaxTime
        /\ now' = now + 1
        /\ UNCHANGED <<rowVars, seen>>

Create(j) == InsertExecJob(j) \/ InsertUploadJob(j) \/ InsertAgentUpdateJob(j)

Progress(j) == \/ MarkRunning(j)
               \/ ClaimUploadStaging(j)
               \/ MarkUploadStaged(j)
               \/ MarkUploadWaitingAgent(j)
               \/ MarkUploadRunning(j)

Finish(j) == \/ FailJob(j)
             \/ \E result \in ResultStates : FinishExecOrUpdate(j, result) \/ FinishUploadJob(j, result)

Sweep(j) == PollRead(j) \/ SelectOverdue(j) \/ TimeOutOrphan(j) \/ ExpireWaiting(j)

JobsNext == \/ Tick
            \/ PurgeExpired
            \/ \E j \in Job : Create(j) \/ Progress(j) \/ Finish(j) \/ Sweep(j)
            \/ \E r \in seen : SettleExpired(r) \/ SkipSeen(r)
            \/ \E srv \in Server : RequeueOrphanUploads(srv)

JobsSpec == JobsInit /\ [][JobsNext]_jobsVars
--------------------------------------------------------------------------------
(* Properties.                                                                 *)

\* The unique indexes hold in every state although only INSERT looks at them: no
\* UPDATE of jobs.js ever brings a row back into an index that another row has
\* taken meanwhile (a requeue, a late result or a sweep would then raise UNIQUE).
IndexesHold ==
  \A j, k \in Job : j # k =>
    /\ ~ (/\ HoldsSlot(j) /\ HoldsSlot(k)
          /\ KindOf[j] = KindOf[k] /\ ServerOf[j] = ServerOf[k])
    /\ ~ (/\ IsRow(j) /\ IsRow(k)
          /\ KeyOf[j] = KeyOf[k] /\ KeyOf[j] # NoKey)

\* The sweeps settle by a row copied earlier and never re-read deadline_at.  For
\* exec and agent_update, whose deadline is set once, that copy cannot go stale:
\* such a job is expired only when its own deadline has passed.  (For an upload
\* it does go stale, see UploadFlow.)
ExpiredWasOverdue ==
  \A j \in Job : KindOf[j] # "upload" /\ status[j] = "expired" => deadline_at[j] < now

\* The table implements the life cycle a client is promised: a job that has a
\* result keeps it whatever arrives later, only an expired one is corrected, and
\* nothing dead becomes active again.
PhaseOf(st) == CASE st = "absent" -> "new"
                 [] st \in ActiveStates -> "open"
                 [] st = "expired" -> "lapsed"
                 [] st \in ResultStates -> "resolved"
                 [] OTHER -> "forgotten"

OutcomeOf(st) == IF st \in ResultStates THEN st ELSE "none"

phaseBar == [j \in Job |-> PhaseOf(status[j])]
outcomeBar == [j \in Job |-> OutcomeOf(status[j])]
slotBar == [j \in Job |-> IF KindOf[j] = "exec" THEN <<"none">> ELSE <<KindOf[j], ServerOf[j]>>]

Lifecycle == INSTANCE JobLifecycle WITH Outcome <- ResultStates, NoSlot <- <<"none">>,
                                        SlotOf <- slotBar, phase <- phaseBar,
                                        outcome <- outcomeBar

ImplementsLifecycle == Lifecycle!LifeSpec
================================================================================
