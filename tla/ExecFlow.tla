------------------------------- MODULE ExecFlow -------------------------------
(***************************************************************************)
(* Commands and agent updates of one server from end to end: the Worker    *)
(* request (dispatchExecJob, agentUpdateCore), the Durable Object handler  *)
(* it calls (/rpc/exec/submit, /rpc/agent_update/submit), the agent, its   *)
(* result on the way back (settleExecJob, settleUpdateJob), the cleanup of *)
(* a closed control connection (cleanup, settleJobsOnDisconnect) and the   *)
(* sweeps.  Unlike uploads these jobs are never redelivered: a command may *)
(* already have run.                                                       *)
(*                                                                         *)
(* Every await of the code is a step boundary; a handler, a frame or an    *)
(* answer may also get no further step, which is how it is lost and how a  *)
(* handler ends whose D1 statement throws.  The updating map of the        *)
(* Durable Object is left out: isUpdating asks D1 in every case and D1     *)
(* decides.  CleanupSelectExec, marked "Defect:", is no part of the model, *)
(* see OperationJobs.                                                      *)
(***************************************************************************)
EXTENDS OperationJobs

CONSTANT MaxConn  \* bound: control connections the agent opens

ASSUME ConnAssumption == MaxConn \in Nat \ {0}
ASSUME OneServerAssumption == \A j, k \in Job : ServerOf[j] = ServerOf[k]

Conn == 1..MaxConn

VARIABLES
  request,   \* program counter of the Worker request that creates each job
  submit,    \* program counter of the Durable Object handler of each job
  target,    \* the connection that handler took from this.agents, to send on
  conn,      \* this.agents.get(server), 0 when offline
  epoch,     \* connections opened so far
  cleanup,   \* program counter of cleanup of each closed connection
  batch,     \* the rows its loop still has to fail
  misfired,  \* history: jobs a cleanup failed while another connection had them
  tasks,     \* frames sent and the commands or updates they run on the agent
  results,   \* jobs with a result frame on its way to the Durable Object
  audits     \* audit rows per exec job and cause, the INSERT that follows a hit included

flowVars == <<request, submit, target>>
connVars == <<conn, epoch, cleanup, batch, misfired>>
agentVars == <<tasks, results>>
vars == <<jobsVars, flowVars, connVars, agentVars, audits>>

RequestPc == {"none", "purged", "settled", "created", "calling", "done"}
SubmitPc == {"none", "check", "mark", "send", "ok", "no"}
CleanupPc == {"none", "select", "fail"}
\* What an audit row records: "result" is action exec.command, the others are the
\* reasons of exec.command.failed.
Cause == {"result", "dispatch", "disconnect", "expiry"}

FlowTypeOK ==
  /\ TypeOK
  /\ request \in [Job -> RequestPc]
  /\ submit \in [Job -> SubmitPc]
  /\ target \in [Job -> Conn \cup {0}]
  /\ conn \in Conn \cup {0}
  /\ epoch \in Conn
  /\ cleanup \in [Conn -> CleanupPc]
  /\ batch \in [Conn -> SUBSET Job]
  /\ misfired \subseteq Job
  /\ tasks \subseteq [job : Job, conn : Conn]
  /\ results \subseteq Job
  /\ audits \in [Job -> [Cause -> Nat]]

\* The agent is connected; it may go and come back at any time.
FlowInit ==
  /\ JobsInit
  /\ request = [j \in Job |-> "none"]
  /\ submit = [j \in Job |-> "none"]
  /\ target = [j \in Job |-> 0]
  /\ conn = 1
  /\ epoch = 1
  /\ cleanup = [c \in Conn |-> "none"]
  /\ batch = [c \in Conn |-> {}]
  /\ misfired = {}
  /\ tasks = {}
  /\ results = {}
  /\ audits = [j \in Job |-> [cause \in Cause |-> 0]]

\* The connection the frame of j was sent on, 0 if it was not.
SentOn(j) == IF submit[j] = "ok" THEN target[j] ELSE 0

RequestAt(j, from, to) == request[j] = from /\ request' = [request EXCEPT ![j] = to]
SubmitAt(j, from, to) == submit[j] = from /\ submit' = [submit EXCEPT ![j] = to]

\* hasActiveAgentUpdate, without the job j itself
UpdateActive(j) == \E k \in Job \ {j} : /\ KindOf[k] = "agent_update"
                                        /\ HoldsSlot(k)
                                        /\ now < deadline_at[k]

\* The statement changed the row of an exec job: its audit row follows.
Audit(j, cause) == audits' = IF KindOf[j] = "exec" THEN [audits EXCEPT ![j][cause] = @ + 1]
                                                   ELSE audits

\* failJob and the audit that failExecJobWithAudit or auditExecFailed adds on a hit
FailAudited(j, cause) == \/ FailJob(j) /\ Audit(j, cause)
                         \/ ~ Active(j) /\ UNCHANGED <<jobsVars, audits>>

\* No row is past its TTL.
Retained == \A j \in Job : IsRow(j) => expires_at[j] >= now

--------------------------------------------------------------------------------
(* The Worker request.                                                         *)

\* purgeExpired, the first statement of createExecJob and createAgentUpdateJob
PurgeFirst == PurgeExpired \/ (Retained /\ UNCHANGED jobsVars)

\* dispatchExecJob asks hasActiveAgentUpdate and answers 409 without a job, or goes on
\* to purge.  (One step for both: what runs between them could as well run before or
\* after them, given that Purge may run at any time.)
RequestCheck(j) == /\ KindOf[j] = "exec"
                   /\ \/ RequestAt(j, "none", "purged") /\ ~ UpdateActive(j) /\ PurgeFirst
                      \/ RequestAt(j, "none", "done") /\ UpdateActive(j) /\ UNCHANGED jobsVars
                   /\ UNCHANGED <<submit, target, connVars, agentVars, audits>>

RequestPurge(j) == /\ KindOf[j] = "agent_update"
                   /\ RequestAt(j, "none", "purged")
                   /\ PurgeFirst
                   /\ UNCHANGED <<submit, target, connVars, agentVars, audits>>

\* createAgentUpdateJob goes on with settleServerExpired, which frees the slot of an
\* update nobody polled; its UPDATEs are Settle.
Stalled == {k \in Job : KindOf[k] = "agent_update" /\ Active(k) /\ deadline_at[k] < now}

RequestSettle(j) == /\ KindOf[j] = "agent_update"
                    /\ RequestAt(j, "purged", "settled")
                    /\ seen' = seen \cup {[job |-> k, due |-> deadline_at[k]] : k \in Stalled}
                    /\ UNCHANGED <<now, rowVars, submit, target, connVars, agentVars, audits>>

\* Inserted, or the key or slot is taken (the job of an earlier request is answered,
\* UPDATE_BUSY).
RequestCreate(j) ==
  /\ \/ KindOf[j] = "exec" /\ request[j] = "purged"
     \/ request[j] = "settled" /\ \A r \in seen : KindOf[r.job] # "agent_update"
  /\ \/ /\ InsertExecJob(j) \/ InsertAgentUpdateJob(j)
        /\ request' = [request EXCEPT ![j] = "created"]
     \/ /\ \/ \E k \in Job \ {j} : IsRow(k) /\ KeyOf[k] = KeyOf[j] /\ KeyOf[j] # NoKey
           \/ \E k \in Job \ {j} : HoldsSlot(k) /\ KindOf[k] = KindOf[j]
        /\ request' = [request EXCEPT ![j] = "done"]
        /\ UNCHANGED jobsVars
  /\ UNCHANGED <<submit, target, connVars, agentVars, audits>>

RequestCall(j) == /\ RequestAt(j, "created", "calling")
                  /\ SubmitAt(j, "none", "check")
                  /\ UNCHANGED <<jobsVars, target, connVars, agentVars, audits>>

RequestAnswer(j) == /\ submit[j] = "ok"
                    /\ RequestAt(j, "calling", "done")
                    /\ UNCHANGED <<jobsVars, submit, target, connVars, agentVars, audits>>

\* The handler refused, or the fetch threw, before the handler ran or while it does;
\* or the request of an update could not be audited.
RequestFail(j) == /\ RequestAt(j, "created", "done") \/ RequestAt(j, "calling", "done")
                  /\ FailAudited(j, "dispatch")
                  /\ UNCHANGED <<submit, target, connVars, agentVars>>

RequestStep(j) == \/ RequestCheck(j) \/ RequestPurge(j) \/ RequestSettle(j) \/ RequestCreate(j)
                  \/ RequestCall(j) \/ RequestAnswer(j) \/ RequestFail(j)

--------------------------------------------------------------------------------
(* /rpc/exec/submit and /rpc/agent_update/submit.                              *)

\* After the await of isUpdating the connection is looked up synchronously.
SubmitCheck(j) == /\ SubmitAt(j, "check", "mark")
                  /\ ~ UpdateActive(j) /\ conn # 0
                  /\ target' = [target EXCEPT ![j] = conn]
                  /\ UNCHANGED <<jobsVars, request, connVars, agentVars, audits>>

SubmitMark(j) == /\ \/ SubmitAt(j, "mark", "send") /\ MarkRunning(j)
                    \/ SubmitAt(j, "mark", "no") /\ status[j] # "queued" /\ UNCHANGED jobsVars
                 /\ UNCHANGED <<request, target, connVars, agentVars, audits>>

SubmitSend(j) == /\ SubmitAt(j, "send", "ok")
                 /\ target[j] = conn
                 /\ tasks' = tasks \cup {[job |-> j, conn |-> conn]}
                 /\ UNCHANGED <<jobsVars, request, target, connVars, results, audits>>

\* Refused (updating, offline, no fresh round trip, no capability), or send threw on
\* a connection that has been closed meanwhile.
SubmitFail(j) == /\ \/ SubmitAt(j, "check", "no")
                    \/ SubmitAt(j, "send", "no") /\ target[j] # conn
                 /\ FailAudited(j, "dispatch")
                 /\ UNCHANGED <<request, target, connVars, agentVars>>

SubmitStep(j) == SubmitCheck(j) \/ SubmitMark(j) \/ SubmitSend(j) \/ SubmitFail(j)

--------------------------------------------------------------------------------
(* The control connection.                                                     *)

\* A new connection replaces the registered one, whose late close is not current.
Connect == /\ epoch < MaxConn
           /\ epoch' = epoch + 1
           /\ conn' = epoch + 1
           /\ UNCHANGED <<jobsVars, flowVars, cleanup, batch, misfired, agentVars, audits>>

\* webSocketClose of the registered connection: it is removed at once, the rows are
\* looked up after the awaits of cleanup.
Disconnect == /\ conn # 0
              /\ conn' = 0
              /\ cleanup' = [cleanup EXCEPT ![conn] = "select"]
              /\ UNCHANGED <<jobsVars, flowVars, epoch, batch, misfired, agentVars, audits>>

\* Defect: agent updates are left to their deadline.
CleanupSelectExec(c) == /\ cleanup[c] = "select"
                        /\ cleanup' = [cleanup EXCEPT ![c] = "fail"]
                        /\ batch' = [batch EXCEPT ![c] = {j \in Job : /\ KindOf[j] = "exec"
                                                                      /\ status[j] \in {"queued", "running"}}]
                        /\ UNCHANGED <<jobsVars, flowVars, conn, epoch, misfired, agentVars, audits>>

\* settleJobsOnDisconnect: the exec and agent_update rows of the server, whichever
\* connection they were sent on
CleanupSelect(c) == /\ cleanup[c] = "select"
                    /\ cleanup' = [cleanup EXCEPT ![c] = "fail"]
                    /\ batch' = [batch EXCEPT ![c] = {j \in Job : /\ KindOf[j] \in {"exec", "agent_update"}
                                                                  /\ status[j] \in {"queued", "running"}}]
                    /\ UNCHANGED <<jobsVars, flowVars, conn, epoch, misfired, agentVars, audits>>

CleanupFail(c, j) == /\ cleanup[c] = "fail"
                     /\ j \in batch[c]
                     /\ batch' = [batch EXCEPT ![c] = @ \ {j}]
                     /\ FailAudited(j, "disconnect")
                     /\ misfired' = IF Active(j) /\ SentOn(j) > c THEN misfired \cup {j} ELSE misfired
                     /\ UNCHANGED <<flowVars, conn, epoch, cleanup, agentVars>>

CleanupStep(c) == CleanupSelect(c) \/ \E j \in Job : CleanupFail(c, j)

--------------------------------------------------------------------------------
(* The agent and its results.                                                  *)

\* One task per frame; it outlives the connection the frame came on, but its answer
\* goes to that connection, if it is still there.
AgentAnswer(t) == /\ t \in tasks
                  /\ tasks' = tasks \ {t}
                  /\ results' = IF t.conn = conn THEN results \cup {t.job} ELSE results
                  /\ UNCHANGED <<jobsVars, flowVars, connVars, audits>>

\* settleExecJob, settleUpdateJob: whatever the result is, it is written, late ones
\* included; a duplicate or a result of a settled job changes nothing and is not
\* audited.  An update answers ok or not.
ResultWrite(j, result) ==
  /\ j \in results
  /\ KindOf[j] = "agent_update" => result # "timed_out"
  /\ results' = results \ {j}
  /\ \/ FinishExecOrUpdate(j, result) /\ Audit(j, "result")
     \/ /\ status[j] \in ResultStates \cup {"purged"}
        /\ UNCHANGED <<jobsVars, audits>>
  /\ UNCHANGED <<flowVars, connVars, tasks>>

--------------------------------------------------------------------------------
(* Sweeps and the retention.                                                   *)

SweepSelect(j) == /\ SelectOverdue(j)
                  /\ UNCHANGED <<flowVars, connVars, agentVars, audits>>

Settle(r) == /\ \/ SettleExpired(r) /\ Audit(r.job, "expiry")
                \/ SkipSeen(r) /\ UNCHANGED audits
             /\ UNCHANGED <<flowVars, connVars, agentVars>>

Purge == /\ PurgeExpired
         /\ UNCHANGED <<flowVars, connVars, agentVars, audits>>

FlowTick == Tick /\ UNCHANGED <<flowVars, connVars, agentVars, audits>>

--------------------------------------------------------------------------------
FlowNext ==
  \/ FlowTick \/ Purge \/ Connect \/ Disconnect
  \/ \E j \in Job : RequestStep(j) \/ SubmitStep(j) \/ SweepSelect(j)
  \/ \E c \in Conn : CleanupStep(c)
  \/ \E t \in tasks : AgentAnswer(t)
  \/ \E j \in results, result \in ResultStates : ResultWrite(j, result)
  \/ \E r \in seen : Settle(r)

FlowSpec == FlowInit /\ [][FlowNext]_vars
--------------------------------------------------------------------------------
(* Properties.                                                                 *)

\* Retrying a request with its idempotency_key never runs the command twice: of two
\* jobs with one key, the second is sent to the agent only after the row of the first
\* was deleted at the end of its TTL.
OncePerKey ==
  \A j, k \in Job : j # k /\ KeyOf[j] = KeyOf[k] /\ KeyOf[j] # NoKey /\ SentOn(j) # 0 /\ SentOn(k) # 0
    => \E done \in {j, k} : status[done] = "purged" /\ expires_at[done] < now

\* However dispatch failure, disconnect, expiry and result race, the audit log tells
\* the story of an exec job once: every job that ended has its entry, no entry is
\* written twice, at most one failure is recorded, and a result stands beside
\* a failure only when that failure was the expiry the late result corrected.
AuditTrail ==
  \A j \in Job : KindOf[j] = "exec" =>
    /\ audits[j]["result"] <= 1
    /\ audits[j]["dispatch"] + audits[j]["disconnect"] + audits[j]["expiry"] <= 1
    /\ audits[j]["result"] = 1 => audits[j]["dispatch"] + audits[j]["disconnect"] = 0
    /\ Active(j) => \A cause \in Cause : audits[j][cause] = 0
    /\ status[j] \in ResultStates => \E cause \in Cause \ {"expiry"} : audits[j][cause] = 1
    /\ status[j] = "expired" => audits[j]["expiry"] = 1 /\ audits[j]["result"] = 0

\* Once the cleanup of a closed connection is through, no job that was sent on it is
\* still open: whoever polls it sees the end without waiting for the deadline,
\* wherever the handler of the job was when the connection went away.
DisconnectConverges ==
  \A c \in Conn : cleanup[c] = "fail" /\ batch[c] = {} => \A j \in Job : SentOn(j) = c => ~ Active(j)

\* The cleanup of a connection ends no job that was sent on a later one ("the task is
\* still running on the new connection, failing it would kill a command in progress").
CleanupSparesNewConnection == misfired = {}
===============================================================================
