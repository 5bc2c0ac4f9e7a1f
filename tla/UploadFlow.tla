------------------------------ MODULE UploadFlow ------------------------------
(***************************************************************************)
(* An asynchronous upload from end to end: the Worker request that streams *)
(* the client's bytes to R2 (handleJobContentUpload), the Durable Object   *)
(* that hands the job to the agent (/rpc/upload/submit), the reconnect     *)
(* that redelivers what waited (resendWaitingUploads), the agent that      *)
(* fetches the staged object and reports, the polls and the cron that      *)
(* settle what nobody finished and clear R2.  Every await of the code is a *)
(* step boundary: between two steps of one handler all others may run, and *)
(* a handler may never take its next step: that is an isolate that died, a *)
(* request that was cancelled, a frame or an answer that was lost.         *)
(*                                                                         *)
(* The rows and the statements on them are OperationJobs'; this module     *)
(* adds the staging bucket, the handlers' program counters, the control    *)
(* connection of one server and the agent's transfers.  Operators marked   *)
(* "Defect:" are no part of the model, see OperationJobs.                  *)
(***************************************************************************)
EXTENDS OperationJobs

CONSTANTS
  MaxConn,        \* bound: control connections the agent opens
  CapsAtConnect   \* what supportsFetch may find in the attachment of a connection
                  \* whose handshake still runs: {FALSE}, see Connect

ASSUME ConnAssumption == MaxConn \in Nat \ {0}
ASSUME CapsAssumption == CapsAtConnect \in SUBSET BOOLEAN

Conn == 1..MaxConn
NoObject == -1

VARIABLES
  object,    \* upload time of the R2 object of each job, NoObject if there is none
  dropping,  \* jobs just settled whose deleteStagingObject has not run yet
  content,   \* program counter of the content request of each job
  submit,    \* program counter of /rpc/upload/submit of each job
  target,    \* the connection the submit of each job will send on
  conn,      \* this.agents.get(server): the current connection, 0 when offline
  epoch,     \* connections opened so far
  caps,      \* supportsFetch of each connection
  resend,    \* program counter of resendWaitingUploads of each connection
  batch,     \* the rows its current loop still has to visit
  transfers, \* upload_fetch frames and the agent's fetches they start
  receipts,  \* upload_result frames on their way to the Durable Object
  resendFailed, \* history: jobs whose failJob came from the loop of resendWaitingUploads
  cron       \* the hourly maintenance: pc, its clock, the keys it will delete

r2Vars == <<object, dropping>>
workerVars == <<content, submit, target>>
connVars == <<conn, epoch, caps, resend, batch, resendFailed>>
agentVars == <<transfers, receipts>>
vars == <<jobsVars, r2Vars, workerVars, connVars, agentVars, cron>>

ContentPc == {"none", "storing", "storeFailed", "storeCleared", "stored", "staged",
              "submitting", "rejected", "clearing", "done"}
SubmitPc == {"none", "check", "offline", "mark", "waiting", "send", "fail", "ok", "no"}
ResendPc == {"none", "begin", "requeue", "pickOrphans", "orphans", "pickStale", "stale",
             "list", "dispatch", "send", "done"}

FlowTypeOK ==
  /\ TypeOK
  /\ object \in [Job -> {NoObject} \cup 0..MaxTime]
  /\ dropping \subseteq Job
  /\ content \in [Job -> ContentPc]
  /\ submit \in [Job -> SubmitPc]
  /\ target \in [Job -> Conn \cup {0}]
  /\ conn \in Conn \cup {0}
  /\ epoch \in 0..MaxConn
  /\ caps \in [Conn -> BOOLEAN]
  /\ resend \in [Conn -> ResendPc]
  /\ batch \in [Conn -> SUBSET Job]
  /\ transfers \subseteq [job : Job, conn : Conn, got : BOOLEAN]
  /\ receipts \subseteq [job : Job, ok : BOOLEAN]
  /\ resendFailed \subseteq Job
  /\ cron \in [pc : {"idle", "clear"}, at : 0..MaxTime, keys : SUBSET Job]

\* The agent is connected and has reported; it may go and come back at any time.
FlowInit ==
  /\ JobsInit
  /\ object = [j \in Job |-> NoObject]
  /\ dropping = {}
  /\ content = [j \in Job |-> "none"]
  /\ submit = [j \in Job |-> "none"]
  /\ target = [j \in Job |-> 0]
  /\ conn = 1
  /\ epoch = 1
  /\ caps = [c \in Conn |-> c = 1]
  /\ resend = [c \in Conn |-> IF c = 1 THEN "done" ELSE "none"]
  /\ batch = [c \in Conn |-> {}]
  /\ transfers = {}
  /\ receipts = {}
  /\ resendFailed = {}
  /\ cron = [pc |-> "idle", at |-> 0, keys |-> {}]

HasObject(j) == object[j] # NoObject
Without(S) == [j \in Job |-> IF j \in S THEN NoObject ELSE object[j]]
ContentAt(j, from, to) == content[j] = from /\ content' = [content EXCEPT ![j] = to]
SubmitAt(j, from, to) == submit[j] = from /\ submit' = [submit EXCEPT ![j] = to]
\* finishUploadJob and failJob, with the case that no row is changed.
FinishOrMiss(j, result) == \/ FinishUploadJob(j, result)
                           \/ /\ status[j] \in ResultStates \cup {"purged"}
                              /\ UNCHANGED jobsVars
FailOrMiss(j) == \/ FailJob(j)
                 \/ ~ Active(j) /\ UNCHANGED jobsVars
ResendAt(c, from, to) == resend[c] = from /\ resend' = [resend EXCEPT ![c] = to]

--------------------------------------------------------------------------------
(* The client creates the job and sends its bytes: createUploadJob and the     *)
(* content request up to the staged row.                                       *)

\* createUploadJob.  The purge and the sweep of the server it begins with are Purge,
\* SweepSelect and Settle, on rows of other jobs.
CreateUpload(j) == /\ InsertUploadJob(j)
                   /\ UNCHANGED <<r2Vars, workerVars, connVars, agentVars, cron>>

\* A second content request of the same job misses the claim and changes nothing.
ContentClaim(j) == /\ ContentAt(j, "none", "storing")
                   /\ ClaimUploadStaging(j)
                   /\ UNCHANGED <<r2Vars, submit, target, connVars, agentVars, cron>>

\* R2 puts are atomic: the object appears whole, when the last byte is in.
StorePut(j) == /\ ContentAt(j, "storing", "stored")
               /\ object' = [object EXCEPT ![j] = now]
               /\ UNCHANGED <<jobsVars, dropping, submit, target, connVars, agentVars, cron>>

\* Short, aborted or oversized body; the size check after a completed put may fail too.
StoreFail(j) == /\ ContentAt(j, "storing", "storeFailed")
                /\ \/ UNCHANGED object
                   \/ object' = [object EXCEPT ![j] = now]
                /\ UNCHANGED <<jobsVars, dropping, submit, target, connVars, agentVars, cron>>

StoreClear(j) == /\ ContentAt(j, "storeFailed", "storeCleared")
                 /\ object' = Without({j})
                 /\ UNCHANGED <<jobsVars, dropping, submit, target, connVars, agentVars, cron>>

StoreReject(j) == /\ ContentAt(j, "storeCleared", "done")
                  /\ FinishOrMiss(j, "failed")
                  /\ UNCHANGED <<r2Vars, submit, target, connVars, agentVars, cron>>

\* markUploadStaged; a miss means the job died during the upload: delete, answer 409.
ContentStage(j) == /\ \/ ContentAt(j, "stored", "staged") /\ MarkUploadStaged(j)
                      \/ /\ ContentAt(j, "stored", "clearing")
                         /\ status[j] # "staging"
                         /\ UNCHANGED jobsVars
                   /\ UNCHANGED <<r2Vars, submit, target, connVars, agentVars, cron>>

\* The fetch of the Durable Object either starts its handler or throws at once.
ContentSubmit(j) == /\ \/ ContentAt(j, "staged", "submitting") /\ SubmitAt(j, "none", "check")
                       \/ ContentAt(j, "staged", "rejected") /\ UNCHANGED submit
                    /\ UNCHANGED <<jobsVars, r2Vars, target, connVars, agentVars, cron>>

\* The answer of the handler; the fetch may also throw while the handler still runs.
ContentAnswer(j) == /\ \/ submit[j] = "ok" /\ ContentAt(j, "submitting", "done")
                       \/ submit[j] = "no" /\ ContentAt(j, "submitting", "rejected")
                       \/ ContentAt(j, "submitting", "rejected")
                    /\ UNCHANGED <<jobsVars, r2Vars, submit, target, connVars, agentVars, cron>>

\* Defect: dispatch failed, and the object is deleted without ending the job.
ContentRejectRowless(j) == /\ ContentAt(j, "rejected", "clearing")
                           /\ UNCHANGED <<jobsVars, r2Vars, submit, target, connVars, agentVars, cron>>

\* Dispatch failed: first the row, then the object.
ContentReject(j) == /\ ContentAt(j, "rejected", "clearing")
                    /\ FinishOrMiss(j, "failed")
                    /\ UNCHANGED <<r2Vars, submit, target, connVars, agentVars, cron>>

ContentClear(j) == /\ ContentAt(j, "clearing", "done")
                   /\ object' = Without({j})
                   /\ UNCHANGED <<jobsVars, dropping, submit, target, connVars, agentVars, cron>>

ContentStep(j) == \/ ContentClaim(j) \/ StorePut(j) \/ StoreFail(j) \/ StoreClear(j) \/ StoreReject(j)
                  \/ ContentStage(j) \/ ContentSubmit(j) \/ ContentAnswer(j)
                  \/ ContentReject(j) \/ ContentClear(j)

--------------------------------------------------------------------------------
(* /rpc/upload/submit in the Durable Object.                                   *)

\* After the await of isUpdating the connection is looked up synchronously.
SubmitCheck(j) == /\ \/ SubmitAt(j, "check", "fail") /\ UNCHANGED target  \* an update is running
                     \/ conn = 0 /\ SubmitAt(j, "check", "offline") /\ UNCHANGED target
                     \/ conn # 0 /\ ~ caps[conn] /\ SubmitAt(j, "check", "fail") /\ UNCHANGED target
                     \/ /\ conn # 0 /\ caps[conn]
                        /\ SubmitAt(j, "check", "mark")
                        /\ target' = [target EXCEPT ![j] = conn]
                  /\ UNCHANGED <<jobsVars, r2Vars, content, connVars, agentVars, cron>>

\* staged -> waiting_agent, for an offline agent (the end of it) and an online one.
SubmitWait(j) == /\ \/ /\ MarkUploadWaitingAgent(j)
                       /\ SubmitAt(j, "offline", "ok") \/ SubmitAt(j, "mark", "waiting")
                    \/ /\ status[j] # "staged"
                       /\ SubmitAt(j, "offline", "no") \/ SubmitAt(j, "mark", "no")
                       /\ UNCHANGED jobsVars
                 /\ UNCHANGED <<r2Vars, content, target, connVars, agentVars, cron>>

SubmitRun(j) == /\ \/ MarkUploadRunning(j) /\ SubmitAt(j, "waiting", "send")
                   \/ /\ status[j] # "waiting_agent"
                      /\ SubmitAt(j, "waiting", "fail")
                      /\ UNCHANGED jobsVars
                /\ UNCHANGED <<r2Vars, content, target, connVars, agentVars, cron>>

\* send throws on a connection that has been closed meanwhile.
SubmitSend(j) == /\ \/ /\ target[j] = conn
                       /\ SubmitAt(j, "send", "ok")
                       /\ transfers' = transfers \cup {[job |-> j, conn |-> conn, got |-> FALSE]}
                    \/ /\ target[j] # conn
                       /\ SubmitAt(j, "send", "fail")
                       /\ UNCHANGED transfers
                 /\ UNCHANGED <<jobsVars, r2Vars, content, target, connVars, receipts, cron>>

SubmitFail(j) == /\ SubmitAt(j, "fail", "no")
                 /\ FailOrMiss(j)
                 /\ UNCHANGED <<r2Vars, content, target, connVars, agentVars, cron>>

SubmitStep(j) == SubmitCheck(j) \/ SubmitWait(j) \/ SubmitRun(j) \/ SubmitSend(j) \/ SubmitFail(j)

--------------------------------------------------------------------------------
(* The control connection and resendWaitingUploads.                            *)

\* /ws/agent/control: the new connection replaces the registered one and its
\* attachment is { role, serverId, ts }, without caps; the upgrade response is sent
\* only after resendWaitingUploads.
Connect == /\ epoch < MaxConn
           /\ epoch' = epoch + 1
           /\ conn' = epoch + 1
           /\ \E known \in CapsAtConnect : caps' = [caps EXCEPT ![epoch + 1] = known]
           /\ resend' = [resend EXCEPT ![epoch + 1] = "begin"]
           /\ UNCHANGED <<jobsVars, r2Vars, workerVars, batch, resendFailed, agentVars, cron>>

\* The first report brings info.upload_fetch_proto (markFetchCapable).
Report(c) == /\ c = conn
             /\ resend[c] = "done"
             /\ ~ caps[c]
             /\ caps' = [caps EXCEPT ![c] = TRUE]
             /\ UNCHANGED <<jobsVars, r2Vars, workerVars, conn, epoch, resend, batch, resendFailed, agentVars, cron>>

Disconnect == /\ conn # 0
              /\ conn' = 0
              /\ UNCHANGED <<jobsVars, r2Vars, workerVars, epoch, caps, resend, batch, resendFailed, agentVars, cron>>

Uploads(st) == {j \in Job : KindOf[j] = "upload" /\ status[j] = st}

\* The precheck finds nothing in flight, or an update is running: nothing to do.
ResendBegin(c) == /\ \/ ResendAt(c, "begin", "done")
                     \/ /\ Uploads("running") \cup Uploads("waiting_agent") # {}
                        /\ ResendAt(c, "begin", "requeue")
                  /\ UNCHANGED <<jobsVars, r2Vars, workerVars, conn, epoch, caps, batch, resendFailed, agentVars, cron>>

ResendRequeue(c) == /\ ResendAt(c, "requeue", "pickOrphans")
                    /\ \E srv \in Server : RequeueOrphanUploads(srv)
                    /\ UNCHANGED <<r2Vars, workerVars, conn, epoch, caps, batch, resendFailed, agentVars, cron>>

\* The three SELECTs: overdue running rows, overdue waiting rows, waiting rows in time.
Overdue(st) == {j \in Uploads(st) : deadline_at[j] <= now}

ResendPick(c) == /\ \/ ResendAt(c, "pickOrphans", "orphans") /\ batch' = [batch EXCEPT ![c] = Overdue("running")]
                    \/ ResendAt(c, "pickStale", "stale") /\ batch' = [batch EXCEPT ![c] = Overdue("waiting_agent")]
                    \/ ResendAt(c, "list", "dispatch") /\ batch' = [batch EXCEPT ![c] = Unexpired(Uploads("waiting_agent"))]
                 /\ UNCHANGED <<jobsVars, r2Vars, workerVars, conn, epoch, caps, resendFailed, agentVars, cron>>

\* One row of the two settling loops, or the end of the loop.
ResendSettle(c) == /\ \/ /\ batch[c] = {}
                         /\ ResendAt(c, "orphans", "pickStale") \/ ResendAt(c, "stale", "list")
                         /\ UNCHANGED <<jobsVars, dropping, batch>>
                      \/ \E j \in batch[c] :
                           /\ UNCHANGED resend
                           /\ batch' = [batch EXCEPT ![c] = @ \ {j}]
                           /\ \/ /\ \/ resend[c] = "orphans" /\ TimeOutOrphan(j)
                                    \/ resend[c] = "stale" /\ ExpireWaiting(j)
                                 /\ dropping' = dropping \cup {j}
                              \/ /\ \/ resend[c] = "orphans" /\ status[j] # "running"
                                    \/ resend[c] = "stale" /\ status[j] # "waiting_agent"
                                 /\ UNCHANGED <<jobsVars, dropping>>
                   /\ UNCHANGED <<object, workerVars, conn, epoch, caps, resendFailed, agentVars, cron>>

\* The dispatch loop: capable is read from the attachment once the list is there.
\* It has at most one row, since only one upload of the server can be active.
ResendStop(c) == /\ batch[c] = {} \/ conn # c
                 /\ ResendAt(c, "dispatch", "done")
                 /\ batch' = [batch EXCEPT ![c] = {}]
                 /\ UNCHANGED <<jobsVars, r2Vars, workerVars, conn, epoch, caps, resendFailed, agentVars, cron>>

ResendRefuse(c, j) == /\ resend[c] = "dispatch" /\ j \in batch[c] /\ conn = c
                      /\ ~ caps[c]
                      /\ FailOrMiss(j)
                      /\ resendFailed' = IF Active(j) THEN resendFailed \cup {j} ELSE resendFailed
                      /\ batch' = [batch EXCEPT ![c] = @ \ {j}]
                      /\ UNCHANGED <<r2Vars, workerVars, conn, epoch, caps, resend, agentVars, cron>>

ResendRun(c, j) == /\ j \in batch[c] /\ conn = c
                   /\ caps[c]
                   /\ \/ /\ MarkUploadRunning(j)
                         /\ ResendAt(c, "dispatch", "send")
                         /\ UNCHANGED batch
                      \/ /\ status[j] # "waiting_agent"
                         /\ resend[c] = "dispatch"
                         /\ batch' = [batch EXCEPT ![c] = @ \ {j}]
                         /\ UNCHANGED <<jobsVars, resend>>
                   /\ UNCHANGED <<r2Vars, workerVars, conn, epoch, caps, resendFailed, agentVars, cron>>

ResendSend(c, j) == /\ j \in batch[c]
                    /\ ResendAt(c, "send", "dispatch")
                    /\ batch' = [batch EXCEPT ![c] = @ \ {j}]
                    /\ \/ /\ conn = c
                          /\ transfers' = transfers \cup {[job |-> j, conn |-> c, got |-> FALSE]}
                          /\ UNCHANGED <<jobsVars, resendFailed>>
                       \/ /\ conn # c
                          /\ FailOrMiss(j)
                          /\ resendFailed' = IF Active(j) THEN resendFailed \cup {j} ELSE resendFailed
                          /\ UNCHANGED transfers
                    /\ UNCHANGED <<r2Vars, workerVars, conn, epoch, caps, receipts, cron>>

ResendStep(c) == \/ ResendBegin(c) \/ ResendRequeue(c) \/ ResendPick(c) \/ ResendSettle(c) \/ ResendStop(c)
                 \/ \E j \in Job : ResendRefuse(c, j) \/ ResendRun(c, j) \/ ResendSend(c, j)

--------------------------------------------------------------------------------
(* The agent (agent/rust): one task per upload_fetch frame, not tied to the    *)
(* connection it came on; only its answer needs that connection.               *)

\* handleJobDownload serves the object of a running job, and of no other.
AgentFetch(t) == /\ t \in transfers /\ ~ t.got
                 /\ status[t.job] = "running" /\ HasObject(t.job)
                 /\ transfers' = (transfers \ {t}) \cup {[t EXCEPT !.got = TRUE]}
                 /\ UNCHANGED <<jobsVars, r2Vars, workerVars, connVars, receipts, cron>>

\* The task ends: renamed into place, or failed (no download, short file, target exists).
AgentReport(t, ok) == /\ t \in transfers
                      /\ ok => t.got
                      /\ transfers' = transfers \ {t}
                      /\ receipts' = IF t.conn = conn
                                       THEN receipts \cup {[job |-> t.job, ok |-> ok]}
                                       ELSE receipts
                      /\ UNCHANGED <<jobsVars, r2Vars, workerVars, connVars, cron>>

\* settleUploadJob: the result, then the object; a duplicate changes nothing.
SettleReceipt(r) == /\ r \in receipts
                    /\ receipts' = receipts \ {r}
                    /\ FinishOrMiss(r.job, IF r.ok THEN "succeeded" ELSE "failed")
                    /\ dropping' = IF Active(r.job) \/ status[r.job] = "expired"
                                     THEN dropping \cup {r.job} ELSE dropping
                    /\ UNCHANGED <<object, workerVars, connVars, transfers, cron>>

--------------------------------------------------------------------------------
(* Polls, sweeps and the hourly cron.                                          *)

\* settleExpired, settleServerExpired, settleExpiredAll: the row is read as overdue.
SweepSelect(j) == /\ SelectOverdue(j)
                  /\ UNCHANGED <<r2Vars, workerVars, connVars, agentVars, cron>>

\* Defect: an expired upload keeps its object.
SettleRowOnly(r) == /\ SettleExpired(r) \/ SkipSeen(r)
                    /\ UNCHANGED <<r2Vars, workerVars, connVars, agentVars, cron>>

Settle(r) == /\ \/ SettleExpired(r) /\ dropping' = dropping \cup {r.job}
                \/ SkipSeen(r) /\ UNCHANGED dropping
             /\ UNCHANGED <<object, workerVars, connVars, agentVars, cron>>

DropObject(j) == /\ j \in dropping
                 /\ dropping' = dropping \ {j}
                 /\ object' = Without({j})
                 /\ UNCHANGED <<jobsVars, workerVars, connVars, agentVars, cron>>

\* purgeExpired before a creation: the rows go, their objects stay.
Purge == /\ PurgeExpired
         /\ UNCHANGED <<r2Vars, workerVars, connVars, agentVars, cron>>

\* runJobMaintenance after settleExpiredAll: delete the rows past their TTL, then their
\* objects and every object that is older than the TTL by the clock of this run.  A
\* run that finds neither when it starts deletes nothing later either.
Expired == {j \in Job : IsRow(j) /\ expires_at[j] < now}

\* Defect: there is no orphan scan.
NoOrphans(at) == {}

OlderThanTtl(at) == {j \in Job : HasObject(j) /\ object[j] + JobTtl < at}

CronPurge == /\ cron.pc = "idle"
             /\ Expired \cup OlderThanTtl(now) # {}
             /\ IF Expired # {} THEN PurgeExpired ELSE UNCHANGED jobsVars
             /\ cron' = [pc |-> "clear", at |-> now, keys |-> Expired]
             /\ UNCHANGED <<r2Vars, workerVars, connVars, agentVars>>

CronClear == /\ cron.pc = "clear"
             /\ object' = Without(cron.keys \cup OlderThanTtl(cron.at))
             /\ cron' = [pc |-> "idle", at |-> 0, keys |-> {}]
             /\ UNCHANGED <<jobsVars, dropping, workerVars, connVars, agentVars>>

FlowTick == Tick /\ UNCHANGED <<r2Vars, workerVars, connVars, agentVars, cron>>

--------------------------------------------------------------------------------
FlowNext ==
  \/ FlowTick \/ Purge \/ CronPurge \/ CronClear
  \/ Connect \/ Disconnect
  \/ \E j \in Job : \/ CreateUpload(j) \/ ContentStep(j) \/ SubmitStep(j)
                    \/ SweepSelect(j) \/ DropObject(j)
  \/ \E c \in Conn : Report(c) \/ ResendStep(c)
  \/ \E t \in transfers : AgentFetch(t) \/ \E ok \in BOOLEAN : AgentReport(t, ok)
  \/ \E r \in receipts : SettleReceipt(r)
  \/ \E r \in seen : Settle(r)

FlowSpec == FlowInit /\ [][FlowNext]_vars
--------------------------------------------------------------------------------
(* Properties.                                                                 *)

\* From the moment a row is staged until the job ends, its bytes are in R2: no
\* handler deletes the object of a job that any agent may still be told to fetch
\* (handleJobDownload would answer 404 "staged object missing").  Every delete must
\* therefore come after a status that no other handler can leave again.
StagedObjectPresent ==
  \A j \in Job : status[j] \in {"staged", "waiting_agent", "running"} => HasObject(j)

\* Somebody is about to delete the object of j.
ClearedSoon(j) == \/ j \in dropping
                  \/ content[j] \in {"storeFailed", "stored", "staged", "rejected", "clearing"}
                  \/ content[j] = "submitting" /\ submit[j] # "ok"

AbandonedObject(j) == /\ status[j] \in ResultStates \cup {"expired"}
                      /\ HasObject(j)
                      /\ ~ ClearedSoon(j)

\* Unless an isolate dies, a job that ended leaves no object behind for the daily
\* scan: whoever ends a job goes on to delete what it staged, also when the end
\* comes while the bytes are still on their way.  The redelivery loop is the one
\* place that ends jobs without deleting.
OnlyResendAbandons == \A j \in Job : AbandonedObject(j) => j \in resendFailed

\* "non-terminal and now > deadline_at": a job is expired only past its deadline.
ExpiredOnlyWhenOverdue ==
  [][\A j \in Job : Active(j) /\ status'[j] = "expired" => deadline_at[j] <= now]_vars

\* A job that waited for the agent is redelivered when the agent reconnects, not
\* failed: every agent of this model supports upload_fetch.
ReconnectRedelivers == resendFailed = {}

--------------------------------------------------------------------------------
(* Fairness: time passes and the maintenance runs again and again.  Nothing is *)
(* assumed of requests, connections, agents or the deletes after a settlement. *)

Fairness == /\ WF_vars(FlowTick)
            /\ WF_vars(\E j \in Job : SweepSelect(j))
            /\ WF_vars(\E r \in seen : Settle(r))
            /\ WF_vars(CronPurge)
            /\ WF_vars(CronClear)

LiveSpec == FlowSpec /\ Fairness

\* Nothing stays in R2 for ever, crashes and failed deletes included: the scan of
\* the cron finds objects whose row is gone or was settled without them.
EveryObjectGoes == \A j \in Job : HasObject(j) ~> ~ HasObject(j)
===============================================================================
