--------------------------- MODULE UploadFlow_proofs ---------------------------
(***************************************************************************)
(* Uploads, for any jobs, windows and numbers of connections.              *)
(*                                                                         *)
(* The handlers keep to the statements of the table (UploadImplementsJobs).*)
(* That no one deletes an object too early is a matter of every delete in  *)
(* the code: each is justified by a conjunct of HandlerInv or DeleteInv,   *)
(* the scan by age also by Timed.  That none is left behind is EndInv.     *)
(***************************************************************************)
EXTENDS UploadFlow, OperationJobs_proofs

Live == {"staged", "waiting_agent", "running"}
Ends == ResultStates \cup {"expired"}
\* No statement leads out of these.
Dead == Ends \cup {"purged"}

\* How far the content request and the submit of a job are, and its row.
Handled(j) ==
  /\ status[j] # "absent" => KindOf[j] = "upload"
  /\ content[j] # "none" => status[j] \notin {"absent", "awaiting_upload"}
  /\ content[j] \in {"storing", "storeFailed", "storeCleared", "stored"} => status[j] \notin Live
  /\ content[j] = "clearing" => status[j] \in Dead
  /\ submit[j] # "none" => content[j] \in {"submitting", "rejected", "clearing", "done"}
  /\ submit[j] \in {"mark", "waiting", "send"} => target[j] \in Conn

HandlerInv == \A j \in Job : Handled(j)

\* An object comes with the put and stays while somebody may want it.
Stored(j) ==
  /\ content[j] \in {"none", "storing", "storeCleared"} => ~ HasObject(j)
  /\ content[j] = "stored" /\ status[j] = "staging" => HasObject(j)
  /\ status[j] \in Live => HasObject(j)
  /\ content[j] = "done" /\ HasObject(j) => submit[j] = "ok"

\* No row outlives its object's time.
Timed(j) ==
  /\ status[j] # "absent" => expires_at[j] <= now + JobTtl
  /\ HasObject(j) => status[j] # "absent" /\ expires_at[j] <= object[j] + JobTtl

\* What is about to be deleted has ended, and the scan of the cron is older than no row.
DeleteInv ==
  /\ \A j \in dropping \cup cron.keys : status[j] \in Dead
  /\ cron.pc = "clear" => cron.at <= now /\ \A j \in Job : IsRow(j) => expires_at[j] >= cron.at

ObjectInv == (\A j \in Job : Stored(j) /\ Timed(j)) /\ DeleteInv
--------------------------------------------------------------------------------
(* The table.                                                                  *)

LEMMA UploadStep ==
  ASSUME FlowTypeOK, [FlowNext]_vars
  PROVE  [JobsNext]_jobsVars
<1> SUFFICES JobsNext \/ UNCHANGED jobsVars
  OBVIOUS
<1> USE DEF FlowTypeOK
<1>1. ASSUME NEW j \in Job, NEW result \in ResultStates, FinishOrMiss(j, result) \/ FailOrMiss(j)
      PROVE  JobsNext \/ UNCHANGED jobsVars
  BY <1>1 DEF FinishOrMiss, FailOrMiss, JobsNext, Finish
<1>2. ASSUME NEW j \in Job, CreateUpload(j) \/ SweepSelect(j) \/ DropObject(j)
      PROVE  JobsNext \/ UNCHANGED jobsVars
  BY <1>2 DEF CreateUpload, SweepSelect, DropObject, JobsNext, Create, Sweep
<1>3. ASSUME NEW j \in Job, ContentStep(j) PROVE JobsNext \/ UNCHANGED jobsVars
  <2>1. CASE StoreReject(j) \/ ContentReject(j)
    BY <1>1, <2>1 DEF StoreReject, ContentReject, ResultStates
  <2>2. CASE ~ (StoreReject(j) \/ ContentReject(j))
    BY <1>3, <2>2 DEF ContentStep, ContentClaim, StorePut, StoreFail, StoreClear, ContentStage, ContentSubmit,
       ContentAnswer, ContentClear, JobsNext, Progress
  <2> QED BY <2>1, <2>2
<1>4. ASSUME NEW j \in Job, SubmitStep(j) PROVE JobsNext \/ UNCHANGED jobsVars
  <2>1. CASE SubmitFail(j)
    BY <1>1, <2>1 DEF SubmitFail, ResultStates
  <2>2. CASE ~ SubmitFail(j)
    BY <1>4, <2>2 DEF SubmitStep, SubmitCheck, SubmitWait, SubmitRun, SubmitSend, JobsNext, Progress
  <2> QED BY <2>1, <2>2
<1>5. ASSUME NEW c \in Conn, ResendStep(c) PROVE JobsNext \/ UNCHANGED jobsVars
  <2>ResendBegin. CASE ResendBegin(c) \/ ResendRequeue(c) \/ ResendPick(c) \/ ResendStop(c)
    BY <2>ResendBegin DEF ResendBegin, ResendRequeue, ResendPick, ResendStop, JobsNext
  <2>ResendSettle. CASE ResendSettle(c)
    BY <2>ResendSettle DEF ResendSettle, JobsNext, Sweep
  <2>ResendRefuse. ASSUME NEW j \in Job, ResendRefuse(c, j) \/ ResendSend(c, j) PROVE JobsNext \/ UNCHANGED jobsVars
    BY <1>1, <2>ResendRefuse DEF ResendRefuse, ResendSend, ResultStates
  <2>ResendRun. ASSUME NEW j \in Job, ResendRun(c, j) PROVE JobsNext \/ UNCHANGED jobsVars
    BY <2>ResendRun DEF ResendRun, JobsNext, Progress
  <2> QED BY <1>5, <2>ResendBegin, <2>ResendSettle, <2>ResendRefuse, <2>ResendRun DEF ResendStep
<1>6. ASSUME NEW r \in receipts, SettleReceipt(r) PROVE JobsNext \/ UNCHANGED jobsVars
  BY <1>1, <1>6 DEF SettleReceipt, ResultStates
<1>7. ASSUME NEW r \in seen, Settle(r) PROVE JobsNext
  BY <1>7 DEF Settle, JobsNext
<1>8. CASE FlowTick \/ Purge \/ CronPurge \/ CronClear
  BY <1>8 DEF FlowTick, Purge, CronPurge, CronClear, JobsNext
<1>9. CASE Connect \/ Disconnect \/ (\E c \in Conn : Report(c)) \/ UNCHANGED vars
  BY <1>9 DEF Connect, Disconnect, Report, vars
<1>10. ASSUME NEW t \in transfers, AgentFetch(t) \/ \E ok \in BOOLEAN : AgentReport(t, ok)
       PROVE  UNCHANGED jobsVars
  BY <1>10 DEF AgentFetch, AgentReport
<1> QED BY <1>2, <1>3, <1>4, <1>5, <1>6, <1>7, <1>8, <1>9, <1>10 DEF FlowNext
--------------------------------------------------------------------------------
(* Types.                                                                      *)

TargetInv == \A j \in Job : submit[j] \in {"mark", "waiting", "send"} => target[j] \in Conn

LEMMA UploadInitType == FlowInit => FlowTypeOK
<1> SUFFICES ASSUME FlowInit PROVE FlowTypeOK
  OBVIOUS
<1>1. TypeOK
  BY InitType DEF FlowInit
<1>2. 1 \in Conn /\ 1 \in 0..MaxConn
  BY ConnAssumption DEF Conn
<1>3. /\ cron \in [pc : {"idle", "clear"}, at : 0..MaxTime, keys : SUBSET Job]
      /\ object \in [Job -> {NoObject} \cup 0..MaxTime]
      /\ caps \in [Conn -> BOOLEAN]
  BY WindowAssumption DEF FlowInit
<1> QED BY <1>1, <1>2, <1>3 DEF FlowInit, FlowTypeOK, ContentPc, SubmitPc, ResendPc

Transfer == [job : Job, conn : Conn, got : BOOLEAN]

LEMMA TransferType ==
  /\ \A j \in Job, c \in Conn : [job |-> j, conn |-> c, got |-> FALSE] \in Transfer
  /\ \A t \in Transfer : [t EXCEPT !.got = TRUE] \in Transfer
BY DEF Transfer

LEMMA UploadNextType ==
  FlowTypeOK /\ TargetInv /\ [FlowNext]_vars => FlowTypeOK'
<1> SUFFICES ASSUME FlowTypeOK, TargetInv, [FlowNext]_vars PROVE FlowTypeOK'
  OBVIOUS
<1>0. TypeOK'
  BY UploadStep, NextType DEF FlowTypeOK
<1> DEFINE R2Part == object' \in [Job -> {NoObject} \cup 0..MaxTime] /\ dropping' \subseteq Job
           WorkerPart == /\ content' \in [Job -> ContentPc] /\ submit' \in [Job -> SubmitPc]
                         /\ target' \in [Job -> Conn \cup {0}]
           ConnPart == /\ conn' \in Conn \cup {0} /\ epoch' \in 0..MaxConn
                       /\ caps' \in [Conn -> BOOLEAN] /\ resend' \in [Conn -> ResendPc]
                       /\ batch' \in [Conn -> SUBSET Job] /\ resendFailed' \subseteq Job
           AgentPart == /\ transfers' \subseteq Transfer
                        /\ receipts' \subseteq [job : Job, ok : BOOLEAN]
           CronPart == cron' \in [pc : {"idle", "clear"}, at : 0..MaxTime, keys : SUBSET Job]
           Parts == R2Part /\ WorkerPart /\ ConnPart /\ AgentPart /\ CronPart
<1> SUFFICES Parts
  BY <1>0 DEF FlowTypeOK, Transfer
<1> USE DEF FlowTypeOK
<1>r. UNCHANGED r2Vars => R2Part
  BY DEF r2Vars
<1>w. UNCHANGED workerVars => WorkerPart
  BY DEF workerVars
<1>c. UNCHANGED connVars => ConnPart
  BY DEF connVars
<1>t. transfers \subseteq Transfer
  BY DEF Transfer
<1>a. UNCHANGED agentVars => AgentPart
  BY <1>t DEF agentVars
<1>n. UNCHANGED cron => CronPart
  OBVIOUS
<1>o. \A S \in SUBSET Job : Without(S) \in [Job -> {NoObject} \cup 0..MaxTime]
  BY DEF Without
<1>1. ASSUME NEW j \in Job, CreateUpload(j) \/ SweepSelect(j) PROVE Parts
  BY <1>1, <1>r, <1>w, <1>c, <1>a, <1>n DEF CreateUpload, SweepSelect
<1>2. ASSUME NEW j \in Job, DropObject(j) PROVE Parts
  BY <1>2, <1>o, <1>w, <1>c, <1>a, <1>n DEF DropObject
<1>3. ASSUME NEW j \in Job, ContentStep(j) PROVE Parts
  <2>1. R2Part
    <3>1. object' = Without({j}) \/ object' = [object EXCEPT ![j] = now] \/ UNCHANGED object
      BY <1>3 DEF ContentStep, ContentClaim, StorePut, StoreFail, StoreClear, StoreReject, ContentStage,
         ContentSubmit, ContentAnswer, ContentReject, ContentClear, r2Vars
    <3>2. UNCHANGED dropping
      BY <1>3 DEF ContentStep, ContentClaim, StorePut, StoreFail, StoreClear, StoreReject, ContentStage,
         ContentSubmit, ContentAnswer, ContentReject, ContentClear, r2Vars
    <3>3. now \in 0..MaxTime
      BY DEF TypeOK
    <3> QED BY <1>o, <3>1, <3>2, <3>3
  <2>2. WorkerPart
    <3>1. \E to \in ContentPc : content' = [content EXCEPT ![j] = to]
      BY <1>3 DEF ContentStep, ContentClaim, StorePut, StoreFail, StoreClear, StoreReject, ContentStage,
         ContentSubmit, ContentAnswer, ContentReject, ContentClear, ContentAt, ContentPc
    <3>2. UNCHANGED target /\ (UNCHANGED submit \/ submit' = [submit EXCEPT ![j] = "check"])
      BY <1>3 DEF ContentStep, ContentClaim, StorePut, StoreFail, StoreClear, StoreReject, ContentStage,
         ContentSubmit, ContentAnswer, ContentReject, ContentClear, SubmitAt
    <3> QED BY <3>1, <3>2 DEF SubmitPc
  <2>3. UNCHANGED <<connVars, agentVars, cron>>
    BY <1>3 DEF ContentStep, ContentClaim, StorePut, StoreFail, StoreClear, StoreReject, ContentStage,
       ContentSubmit, ContentAnswer, ContentReject, ContentClear
  <2> QED BY <1>c, <1>a, <1>n, <2>1, <2>2, <2>3
<1>4. ASSUME NEW j \in Job, SubmitStep(j) PROVE Parts
  <2>1. WorkerPart
    <3>1. UNCHANGED content /\ \E to \in SubmitPc : submit' = [submit EXCEPT ![j] = to]
      BY <1>4 DEF SubmitStep, SubmitCheck, SubmitWait, SubmitRun, SubmitSend, SubmitFail, SubmitAt, SubmitPc
    <3>2. UNCHANGED target \/ \E c \in Conn : target' = [target EXCEPT ![j] = c]
      BY <1>4 DEF SubmitStep, SubmitCheck, SubmitWait, SubmitRun, SubmitSend, SubmitFail
    <3> QED BY <3>1, <3>2
  <2>2. AgentPart
    <3>1. CASE SubmitSend(j)
      <4>1. target[j] \in Conn /\ UNCHANGED receipts
        BY <3>1 DEF SubmitSend, SubmitAt, TargetInv
      <4>2. transfers' = transfers \/ transfers' = transfers \cup {[job |-> j, conn |-> target[j], got |-> FALSE]}
        BY <3>1 DEF SubmitSend
      <4> QED BY <1>t, <4>1, <4>2, TransferType
    <3>2. CASE ~ SubmitSend(j)
      BY <1>4, <1>a, <3>2 DEF SubmitStep, SubmitCheck, SubmitWait, SubmitRun, SubmitFail
    <3> QED BY <3>1, <3>2
  <2>3. UNCHANGED <<r2Vars, connVars, cron>>
    BY <1>4 DEF SubmitStep, SubmitCheck, SubmitWait, SubmitRun, SubmitSend, SubmitFail
  <2> QED BY <1>r, <1>c, <1>n, <2>1, <2>2, <2>3
<1>5. CASE Connect
  <2>1. epoch + 1 \in Conn /\ epoch + 1 \in 0..MaxConn
    BY <1>5, ConnAssumption DEF Connect, Conn
  <2>2. ConnPart
    BY <1>5, <2>1, CapsAssumption DEF Connect, ResendPc
  <2> QED BY <1>5, <1>r, <1>w, <1>a, <1>n, <2>2 DEF Connect
<1>6. CASE Disconnect \/ \E c \in Conn : Report(c)
  BY <1>6, <1>r, <1>w, <1>a, <1>n DEF Disconnect, Report
<1>7. ASSUME NEW c \in Conn, ResendStep(c) PROVE Parts
  <2>rest. UNCHANGED <<conn, epoch, caps>> /\ UNCHANGED <<workerVars, receipts, cron, object>>
    BY <1>7 DEF ResendStep, ResendBegin, ResendRequeue, ResendPick, ResendSettle, ResendStop, ResendRefuse,
       ResendRun, ResendSend, r2Vars, agentVars
  <2>pc. resend' \in [Conn -> ResendPc]
    <3>1. UNCHANGED resend \/ \E to \in ResendPc : resend' = [resend EXCEPT ![c] = to]
      BY <1>7 DEF ResendStep, ResendBegin, ResendRequeue, ResendPick, ResendSettle, ResendStop, ResendRefuse,
         ResendRun, ResendSend, ResendAt, ResendPc
    <3> QED BY <3>1
  <2>batch. batch' \in [Conn -> SUBSET Job]
    <3>1. UNCHANGED batch \/ \E S \in SUBSET Job : batch' = [batch EXCEPT ![c] = S]
      BY <1>7 DEF ResendStep, ResendBegin, ResendRequeue, ResendPick, ResendSettle, ResendStop, ResendRefuse,
         ResendRun, ResendSend, Overdue, Uploads, Unexpired
    <3> QED BY <3>1
  <2>failed. resendFailed' \subseteq Job /\ dropping' \subseteq Job
    BY <1>7 DEF ResendStep, ResendBegin, ResendRequeue, ResendPick, ResendSettle, ResendStop, ResendRefuse,
       ResendRun, ResendSend, r2Vars
  <2>transfers. transfers' \subseteq Transfer
    <3>1. UNCHANGED transfers \/ \E j \in Job : transfers' = transfers \cup {[job |-> j, conn |-> c, got |-> FALSE]}
      BY <1>7 DEF ResendStep, ResendBegin, ResendRequeue, ResendPick, ResendSettle, ResendStop, ResendRefuse,
         ResendRun, ResendSend, agentVars
    <3> QED BY <1>t, <3>1, TransferType
  <2> QED BY <1>w, <1>n, <2>rest, <2>pc, <2>batch, <2>failed, <2>transfers
<1>8. ASSUME NEW t \in transfers, AgentFetch(t) \/ \E ok \in BOOLEAN : AgentReport(t, ok) PROVE Parts
  <2>1. t \in Transfer /\ [t EXCEPT !.got = TRUE] \in Transfer
    BY <1>t, TransferType
  <2>2. transfers' \subseteq Transfer
    BY <1>8, <1>t, <2>1 DEF AgentFetch, AgentReport
  <2>3. receipts' \subseteq [job : Job, ok : BOOLEAN]
    BY <1>8, <2>1 DEF AgentFetch, AgentReport, Transfer
  <2>4. UNCHANGED <<r2Vars, workerVars, connVars, cron>>
    BY <1>8 DEF AgentFetch, AgentReport
  <2> QED BY <1>r, <1>w, <1>c, <1>n, <2>2, <2>3, <2>4
<1>9. ASSUME NEW r \in receipts, SettleReceipt(r) PROVE Parts
  <2>1. AgentPart
    BY <1>9, <1>t DEF SettleReceipt
  <2>2. R2Part
    BY <1>9 DEF SettleReceipt
  <2>3. UNCHANGED <<workerVars, connVars, cron>>
    BY <1>9 DEF SettleReceipt
  <2> QED BY <1>w, <1>c, <1>n, <2>1, <2>2, <2>3
<1>10. ASSUME NEW r \in seen, Settle(r) PROVE Parts
  BY <1>10, <1>w, <1>c, <1>a, <1>n DEF Settle, TypeOK
<1>11. CASE CronPurge
  <2>1. CronPart
    BY <1>11 DEF CronPurge, Expired, TypeOK
  <2> QED BY <1>11, <1>r, <1>w, <1>c, <1>a, <2>1 DEF CronPurge
<1>12. CASE CronClear
  <2>1. CronPart
    BY <1>12, WindowAssumption DEF CronClear
  <2>2. cron.keys \cup OlderThanTtl(cron.at) \in SUBSET Job
    BY DEF OlderThanTtl
  <2> QED BY <1>12, <1>o, <1>w, <1>c, <1>a, <2>1, <2>2 DEF CronClear
<1>13. CASE FlowTick \/ Purge \/ UNCHANGED vars
  BY <1>13, <1>r, <1>w, <1>c, <1>a, <1>n DEF FlowTick, Purge, vars
<1> QED BY <1>1, <1>2, <1>3, <1>4, <1>5, <1>6, <1>7, <1>8, <1>9, <1>10, <1>11, <1>12, <1>13 DEF FlowNext

LEMMA NextTarget == FlowTypeOK /\ TargetInv /\ [FlowNext]_vars => TargetInv'
<1> SUFFICES ASSUME FlowTypeOK, TargetInv, [FlowNext]_vars PROVE TargetInv'
  OBVIOUS
<1> USE DEF FlowTypeOK, TargetInv
<1>1. CASE UNCHANGED <<submit, target>>
  BY <1>1
<1>2. ASSUME NEW j \in Job, SubmitStep(j) PROVE TargetInv'
  BY <1>2 DEF SubmitStep, SubmitCheck, SubmitWait, SubmitRun, SubmitSend, SubmitFail, SubmitAt
<1>3. ASSUME NEW j \in Job, ContentSubmit(j) PROVE TargetInv'
  BY <1>3 DEF ContentSubmit, SubmitAt
<1> QED BY <1>1, <1>2, <1>3 DEF FlowNext, FlowTick, Purge, CronPurge, CronClear, Connect, Disconnect, CreateUpload,
      ContentStep, ContentClaim, StorePut, StoreFail, StoreClear, StoreReject, ContentStage, ContentAnswer,
      ContentReject, ContentClear, SweepSelect, DropObject, Report, ResendStep, ResendBegin, ResendRequeue,
      ResendPick, ResendSettle, ResendStop, ResendRefuse, ResendRun, ResendSend, AgentFetch, AgentReport,
      SettleReceipt, Settle, workerVars, vars

LEMMA UploadTypeInductive == FlowSpec => [](FlowTypeOK /\ TargetInv)
<1>1. FlowInit => TargetInv
  BY DEF FlowInit, TargetInv
<1> QED BY <1>1, UploadInitType, UploadNextType, NextTarget, PTL DEF FlowSpec

\* Rows, objects, handlers, connections and transfers keep their types.
THEOREM UploadTypeCorrect == FlowSpec => []FlowTypeOK
BY UploadTypeInductive, PTL

\* Whatever requests, reconnects, polls and the cron do to the rows of uploads is one
\* statement of the table at a time.
THEOREM UploadImplementsJobs == FlowSpec => JobsSpec
<1>1. FlowInit => JobsInit
  BY DEF FlowInit
<1> QED BY <1>1, UploadStep, UploadTypeInductive, PTL DEF FlowSpec, JobsSpec
--------------------------------------------------------------------------------
(* What a step does to one job.                                                *)

\* A step that is not one of the handlers of j.
Elsewhere(j) ==
  /\ content'[j] = content[j] /\ submit'[j] = submit[j] /\ target'[j] = target[j]
  /\ resendFailed \subseteq resendFailed'
  /\ \/ object'[j] = object[j] /\ (j \in dropping => j \in dropping')
     \/ object'[j] = NoObject /\ (DropObject(j) \/ CronClear)
  /\ \/ status'[j] = status[j]
     \/ status[j] = "absent" /\ status'[j] = "awaiting_upload" /\ KindOf[j] = "upload"
     \/ status[j] \in Live /\ status'[j] \in Live
     \/ /\ status[j] \in ActiveStates \cup {"expired"} /\ status'[j] \in Ends
        /\ j \in dropping' \cup resendFailed'
     \/ status[j] # "absent" /\ status'[j] = "purged"

\* Statements on another row.
LEMMA OtherRow ==
  ASSUME FlowTypeOK, NEW j \in Job, NEW k \in Job, k # j,
         \/ \E result : FinishOrMiss(k, result)
         \/ FailOrMiss(k) \/ ClaimUploadStaging(k) \/ MarkUploadStaged(k) \/ MarkUploadWaitingAgent(k)
         \/ MarkUploadRunning(k) \/ UNCHANGED jobsVars
  PROVE  status'[j] = status[j]
BY DEF FinishOrMiss, FailOrMiss, FinishUploadJob, FailJob, ClaimUploadStaging, MarkUploadStaged,
   MarkUploadWaitingAgent, MarkUploadRunning, MoveUntil, Move, FlowTypeOK, TypeOK, jobsVars

LEMMA WhereSteps ==
  ASSUME FlowTypeOK, [FlowNext]_vars, NEW j \in Job
  PROVE  ContentStep(j) \/ SubmitStep(j) \/ Elsewhere(j)
<1> USE DEF FlowTypeOK
<1>j. UNCHANGED jobsVars \/ UNCHANGED rowVars => status'[j] = status[j]
  BY DEF jobsVars, rowVars
<1>1. ASSUME NEW k \in Job, k # j, ContentStep(k) PROVE Elsewhere(j)
  <2>1. UNCHANGED <<target, resendFailed, dropping>> /\ content'[j] = content[j] /\ submit'[j] = submit[j]
    BY <1>1 DEF ContentStep, ContentClaim, StorePut, StoreFail, StoreClear, StoreReject, ContentStage,
       ContentSubmit, ContentAnswer, ContentReject, ContentClear, ContentAt, SubmitAt, connVars, r2Vars
  <2>2. object'[j] = object[j]
    BY <1>1 DEF ContentStep, ContentClaim, StorePut, StoreFail, StoreClear, StoreReject, ContentStage,
       ContentSubmit, ContentAnswer, ContentReject, ContentClear, Without, r2Vars
  <2>3. status'[j] = status[j]
    BY <1>1, OtherRow DEF ContentStep, ContentClaim, StorePut, StoreFail, StoreClear, StoreReject, ContentStage,
       ContentSubmit, ContentAnswer, ContentReject, ContentClear
  <2> QED BY <2>1, <2>2, <2>3 DEF Elsewhere
<1>2. ASSUME NEW k \in Job, k # j, SubmitStep(k) PROVE Elsewhere(j)
  <2>1. UNCHANGED <<content, resendFailed, dropping, object>> /\ target'[j] = target[j] /\ submit'[j] = submit[j]
    BY <1>2 DEF SubmitStep, SubmitCheck, SubmitWait, SubmitRun, SubmitSend, SubmitFail, SubmitAt, connVars, r2Vars
  <2>2. status'[j] = status[j]
    BY <1>2, OtherRow DEF SubmitStep, SubmitCheck, SubmitWait, SubmitRun, SubmitSend, SubmitFail
  <2> QED BY <2>1, <2>2 DEF Elsewhere
<1>3. ASSUME NEW k \in Job, CreateUpload(k) PROVE Elsewhere(j)
  BY <1>3 DEF CreateUpload, InsertUploadJob, Insert, Elsewhere, TypeOK, r2Vars, workerVars, connVars
<1>4. ASSUME NEW k \in Job, SweepSelect(k) PROVE Elsewhere(j)
  BY <1>4, <1>j DEF SweepSelect, SelectOverdue, Elsewhere, r2Vars, workerVars, connVars
<1>5. ASSUME NEW k \in Job, DropObject(k) PROVE Elsewhere(j)
  <2>1. UNCHANGED <<workerVars, connVars>> /\ status'[j] = status[j]
    BY <1>5, <1>j DEF DropObject
  <2>2. CASE k = j
    BY <1>5, <2>1, <2>2 DEF Elsewhere, DropObject, Without, workerVars, connVars
  <2>3. CASE k # j
    BY <1>5, <2>1, <2>3 DEF Elsewhere, DropObject, Without, workerVars, connVars
  <2> QED BY <2>2, <2>3
<1>6. CASE CronClear
  BY <1>6, <1>j DEF CronClear, Elsewhere, Without, workerVars, connVars
<1>7. CASE Purge \/ CronPurge
  <2>1. PurgeExpired \/ UNCHANGED jobsVars
    BY <1>7 DEF Purge, CronPurge
  <2>2. status'[j] = status[j] \/ (status[j] # "absent" /\ status'[j] = "purged")
    BY <1>j, <2>1 DEF PurgeExpired, IsRow, RowStates, ActiveStates, ResultStates
  <2> QED BY <1>7, <2>2 DEF Purge, CronPurge, Elsewhere, r2Vars, workerVars, connVars
<1>8. CASE FlowTick \/ Connect \/ Disconnect \/ (\E c \in Conn : Report(c)) \/ UNCHANGED vars
  BY <1>8, <1>j DEF FlowTick, Tick, Connect, Disconnect, Report, Elsewhere, r2Vars, workerVars, connVars, vars
<1>9. ASSUME NEW t \in transfers, AgentFetch(t) \/ \E ok \in BOOLEAN : AgentReport(t, ok) PROVE Elsewhere(j)
  BY <1>9, <1>j DEF AgentFetch, AgentReport, Elsewhere, r2Vars, workerVars, connVars
<1>10. ASSUME NEW r \in receipts, SettleReceipt(r) PROVE Elsewhere(j)
  <2>rest. UNCHANGED <<object, workerVars, connVars>> /\ dropping \subseteq dropping'
    BY <1>10 DEF SettleReceipt
  <2>picked. PICK result \in {"succeeded", "failed"} : FinishOrMiss(r.job, result)
    BY <1>10 DEF SettleReceipt
  <2>other. CASE r.job # j
    BY <2>rest, <2>picked, <2>other, OtherRow DEF Elsewhere, workerVars, connVars
  <2>same. CASE r.job = j /\ UNCHANGED jobsVars
    BY <1>j, <2>rest, <2>same DEF Elsewhere, workerVars, connVars
  <2>finished. CASE r.job = j /\ FinishUploadJob(j, result)
    <3>1. /\ status[j] \in ActiveStates \cup {"expired"} /\ status'[j] \in Ends
          /\ j \in dropping'
      BY <1>10, <2>finished DEF FinishUploadJob, Move, TypeOK, Ends, ResultStates, SettleReceipt,
         Active, ActiveStates
    <3> QED BY <2>rest, <3>1 DEF Elsewhere, workerVars, connVars
  <2> QED BY <2>picked, <2>other, <2>same, <2>finished DEF FinishOrMiss
<1>11. ASSUME NEW r \in seen, Settle(r) PROVE Elsewhere(j)
  <2>1. UNCHANGED <<object, workerVars, connVars>> /\ dropping \subseteq dropping'
    BY <1>11 DEF Settle
  <2>2. CASE SkipSeen(r)
    BY <1>j, <2>1, <2>2 DEF SkipSeen, Elsewhere, workerVars, connVars
  <2>3. CASE SettleExpired(r) /\ dropping' = dropping \cup {r.job}
    <3>1. \/ status'[j] = status[j]
          \/ status[j] \in ActiveStates /\ status'[j] \in Ends /\ j \in dropping'
      BY <2>3 DEF SettleExpired, Move, TypeOK, Ends
    <3> QED BY <2>1, <3>1 DEF Elsewhere, workerVars, connVars
  <2> QED BY <1>11, <2>2, <2>3 DEF Settle
<1>12. ASSUME NEW c \in Conn, ResendStep(c) PROVE Elsewhere(j)
  <2>rest. UNCHANGED <<object, workerVars>> /\ dropping \subseteq dropping' /\ resendFailed \subseteq resendFailed'
    BY <1>12 DEF ResendStep, ResendBegin, ResendRequeue, ResendPick, ResendSettle, ResendStop, ResendRefuse,
       ResendRun, ResendSend, r2Vars
  <2> DEFINE Row == \/ status'[j] = status[j]
                    \/ status[j] \in Live /\ status'[j] \in Live
                    \/ /\ status[j] \in ActiveStates \cup {"expired"} /\ status'[j] \in Ends
                       /\ j \in dropping' \cup resendFailed'
  <2>begins. ASSUME ResendBegin(c) \/ ResendPick(c) \/ ResendStop(c) PROVE Row
    BY <1>j, <2>begins DEF ResendBegin, ResendPick, ResendStop
  <2>requeue. ASSUME ResendRequeue(c) PROVE Row
    BY <2>requeue DEF ResendRequeue, RequeueOrphanUploads, Orphaned, Unexpired, Live, TypeOK
  <2>settle. ASSUME ResendSettle(c) PROVE Row
    <3>1. CASE UNCHANGED jobsVars
      BY <1>j, <3>1
    <3>2. CASE \E k \in Job : (TimeOutOrphan(k) \/ ExpireWaiting(k)) /\ dropping' = dropping \cup {k}
      BY <3>2 DEF TimeOutOrphan, ExpireWaiting, Move, TypeOK, Ends, ResultStates, ActiveStates
    <3> QED BY <2>settle, <3>1, <3>2 DEF ResendSettle
  <2>refuse. ASSUME NEW k \in Job, ResendRefuse(c, k) \/ ResendSend(c, k) PROVE Row
    <3>1. CASE UNCHANGED jobsVars
      BY <1>j, <3>1
    <3>2. CASE FailJob(k) /\ resendFailed' = resendFailed \cup {k}
      BY <3>2 DEF FailJob, Move, TypeOK, Ends, ResultStates
    <3> QED BY <2>refuse, <3>1, <3>2 DEF ResendRefuse, ResendSend, FailOrMiss, FailJob, Move, Active
  <2>run. ASSUME NEW k \in Job, ResendRun(c, k) PROVE Row
    BY <1>j, <2>run DEF ResendRun, MarkUploadRunning, MoveUntil, Move, TypeOK, Live
  <2>row. Row
    BY <1>12, <2>begins, <2>requeue, <2>settle, <2>refuse, <2>run DEF ResendStep
  <2> QED BY <2>rest, <2>row DEF Elsewhere, workerVars
<1> QED BY <1>1, <1>2, <1>3, <1>4, <1>5, <1>6, <1>7, <1>8, <1>9, <1>10, <1>11, <1>12 DEF FlowNext
--------------------------------------------------------------------------------
(* The object is there.                                                        *)

LEMMA StateSets ==
  /\ Live \cap Dead = {} /\ "staging" \notin Live \cup Dead
  /\ "absent" \notin Live \cup Dead /\ "awaiting_upload" \notin Live \cup Dead
  /\ Live \subseteq ActiveStates /\ ActiveStates \cap Dead = {}
  /\ Dead = ResultStates \cup {"expired", "purged"} /\ {"failed", "succeeded"} \subseteq Ends
  /\ Ends \subseteq Dead
BY DEF Live, Dead, Ends, ResultStates, ActiveStates

LEMMA DeadStays ==
  ASSUME FlowTypeOK, KindInv, [FlowNext]_vars, NEW j \in Job, status[j] \in Dead
  PROVE  status'[j] \in Dead
<1> USE StateSets DEF FlowTypeOK, TypeOK
<1>0. [JobsNext]_jobsVars
  BY UploadStep
<1>1. ASSUME NEW k \in Job, Create(k) PROVE status'[j] \in Dead
  BY <1>1 DEF Create, InsertExecJob, InsertUploadJob, InsertAgentUpdateJob, Insert
<1>2. CASE PurgeExpired
  BY <1>2 DEF PurgeExpired
<1>3. CASE Advances
  BY <1>3 DEF Advances, Move
<1>4. CASE Resolves \/ Lapses
  BY <1>4 DEF Resolves, Lapses, Move
<1>5. CASE Requeues
  BY <1>5 DEF Requeues, RequeueOrphanUploads, Orphaned, Unexpired, Live
<1> QED BY <1>0, StepShape, <1>1, <1>2, <1>3, <1>4, <1>5

\* What FinishOrMiss and FailOrMiss leave of the row.
LEMMA Finished ==
  ASSUME FlowTypeOK, NEW j \in Job
  PROVE  /\ \A result \in {"succeeded", "failed"} : FinishOrMiss(j, result) =>
              /\ status'[j] \in Dead
              /\ status'[j] # status[j] => status[j] \in ActiveStates \cup {"expired"}
         /\ FailOrMiss(j) => \/ status'[j] = status[j] /\ ~ Active(j)
                             \/ status[j] \in ActiveStates /\ status'[j] = "failed"
BY StateSets DEF FinishOrMiss, FailOrMiss, FinishUploadJob, FailJob, Move, Active, FlowTypeOK, TypeOK, jobsVars,
   Ends, ActiveStates

\* What the submit of a job does to its row.
LEMMA Submitted ==
  ASSUME FlowTypeOK, NEW j \in Job, SubmitStep(j)
  PROVE  /\ \/ status'[j] = status[j]
            \/ status[j] \in Live /\ status'[j] \in Live
            \/ status[j] \in ActiveStates /\ status'[j] = "failed" /\ submit'[j] = "no"
         /\ UNCHANGED <<content, object, dropping, resendFailed>>
         /\ submit[j] \notin {"none", "ok", "no"}
<1> USE DEF FlowTypeOK
<1>1. UNCHANGED <<content, object, dropping, resendFailed>> /\ submit[j] \notin {"none", "ok", "no"}
  BY DEF SubmitStep, SubmitCheck, SubmitWait, SubmitRun, SubmitSend, SubmitFail, SubmitAt, r2Vars, connVars
<1>2. CASE SubmitFail(j)
  BY <1>1, <1>2, Finished DEF SubmitFail, SubmitAt
<1>3. CASE SubmitCheck(j) \/ SubmitSend(j)
  BY <1>1, <1>3 DEF SubmitCheck, SubmitSend, jobsVars
<1>4. CASE SubmitWait(j) \/ SubmitRun(j)
  BY <1>1, <1>4 DEF SubmitWait, SubmitRun, MarkUploadWaitingAgent, MarkUploadRunning, MoveUntil, Move, Live, jobsVars,
     TypeOK
<1> QED BY <1>2, <1>3, <1>4 DEF SubmitStep

LEMMA NextHandled ==
  ASSUME FlowTypeOK, KindInv, [FlowNext]_vars, NEW j \in Job, Handled(j)
  PROVE  Handled(j)'
<1> USE StateSets DEF Handled, FlowTypeOK
<1>0. status \in [Job -> Status]
  BY DEF TypeOK
<1>1. CASE Elsewhere(j)
  <2>others. content'[j] = content[j] /\ submit'[j] = submit[j] /\ target'[j] = target[j]
    BY <1>1 DEF Elsewhere
  <2>same. CASE status'[j] = status[j]
    BY <2>others, <2>same
  <2>created. CASE status[j] = "absent" /\ status'[j] = "awaiting_upload" /\ KindOf[j] = "upload"
    BY <2>others, <2>created
  <2>lives. CASE status[j] \in Live /\ status'[j] \in Live
    BY <2>others, <2>lives
  <2>dies. CASE status[j] # "absent" /\ status'[j] \in Dead
    BY <2>others, <2>dies
  <2> QED BY <1>1, <2>same, <2>created, <2>lives, <2>dies DEF Elsewhere, ActiveStates, Dead
<1>2. CASE ContentClaim(j)
  BY <1>0, <1>2 DEF ContentClaim, ContentAt, ClaimUploadStaging, Move
<1>3. CASE StorePut(j) \/ StoreFail(j) \/ StoreClear(j)
  BY <1>3 DEF StorePut, StoreFail, StoreClear, ContentAt, jobsVars
<1>4. CASE StoreReject(j) \/ ContentReject(j)
  BY <1>4, Finished DEF StoreReject, ContentReject, ContentAt
<1>5. CASE ContentStage(j)
  <2>1. CASE content'[j] = "staged" /\ MarkUploadStaged(j)
    BY <1>0, <1>5, <2>1 DEF ContentStage, ContentAt, MarkUploadStaged, MoveUntil, Move, Live
  <2>2. CASE content'[j] = "clearing" /\ status[j] # "staging" /\ UNCHANGED jobsVars
    <3>1. status[j] \in Dead
      <4>1. status[j] \notin {"absent", "awaiting_upload", "staging", "staged", "waiting_agent", "running"}
        BY <1>5, <2>2 DEF ContentStage, ContentAt, Live
      <4>2. status[j] # "queued"
        BY <1>5 DEF KindInv, Active, ActiveOf, ActiveStates, ContentStage, ContentAt
      <4> QED BY <1>0, <4>1, <4>2 DEF Status, RowStates, ActiveStates
    <3> QED BY <1>5, <2>2, <3>1 DEF ContentStage, ContentAt, jobsVars
  <2> QED BY <1>5, <2>1, <2>2 DEF ContentStage, ContentAt
<1>6. CASE ContentSubmit(j) \/ ContentAnswer(j) \/ ContentClear(j)
  BY <1>6 DEF ContentSubmit, ContentAnswer, ContentClear, ContentAt, SubmitAt, jobsVars
<1>7. CASE SubmitStep(j)
  <2>1. submit[j] # "none" /\ UNCHANGED content
    BY <1>7 DEF SubmitStep, SubmitCheck, SubmitWait, SubmitRun, SubmitSend, SubmitFail, SubmitAt
  <2>2. submit'[j] \in {"mark", "waiting", "send"} => target'[j] \in Conn
    BY <1>7 DEF SubmitStep, SubmitCheck, SubmitWait, SubmitRun, SubmitSend, SubmitFail, SubmitAt
  <2>3. \/ status'[j] = status[j]
        \/ status[j] \in Live /\ status'[j] \in Live
        \/ status[j] \in ActiveStates /\ status'[j] = "failed"
    BY <1>7, Submitted
  <2> QED BY <2>1, <2>2, <2>3
<1> QED BY <1>1, <1>2, <1>3, <1>4, <1>5, <1>6, <1>7, WhereSteps DEF ContentStep

LEMMA HandledInductive == FlowSpec => [](FlowTypeOK /\ TargetInv /\ KindInv /\ HandlerInv)
<1>1. FlowInit => KindInv /\ HandlerInv
  BY DEF FlowInit, JobsInit, KindInv, Active, ActiveStates, HandlerInv, Handled, Live
<1>2. FlowTypeOK /\ KindInv /\ [FlowNext]_vars => KindInv'
  BY UploadStep, NextKind DEF FlowTypeOK
<1>3. FlowTypeOK /\ KindInv /\ HandlerInv /\ [FlowNext]_vars => HandlerInv'
  BY NextHandled DEF HandlerInv
<1> QED BY <1>1, <1>2, <1>3, UploadTypeInductive, PTL DEF FlowSpec

\* The row of an INSERT.
LEMMA NewRow ==
  ASSUME TypeOK, KindInv, [JobsNext]_jobsVars, NEW j \in Job, status[j] = "absent", status'[j] # "absent"
  PROVE  now' = now /\ expires_at'[j] = now + JobTtl
<1>1. ASSUME NEW k \in Job, Create(k) PROVE now' = now /\ expires_at'[j] = now + JobTtl
  BY <1>1 DEF Create, InsertExecJob, InsertUploadJob, InsertAgentUpdateJob, Insert, TypeOK
<1>2. CASE ~ \E k \in Job : Create(k)
  <2>1. ~ IsRow(j)'
    BY <1>2, OnlyInsertsEnter DEF IsRow, RowStates, ActiveStates, ResultStates
  <2>2. status'[j] # "purged"
    BY TtlStays DEF IsRow, RowStates, ActiveStates, ResultStates
  <2>3. TypeOK'
    BY NextType
  <2> QED BY <2>1, <2>2, <2>3 DEF TypeOK, IsRow, Status
<1> QED BY <1>1, <1>2

\* An object appears by the put of its own request only.
LEMMA ObjectSteps ==
  ASSUME FlowTypeOK, [FlowNext]_vars, NEW j \in Job
  PROVE  \/ object'[j] = object[j]
         \/ object'[j] = NoObject
         \/ object'[j] = now /\ now' = now /\ content[j] = "storing"
<1> USE DEF FlowTypeOK
<1>1. ASSUME ContentStep(j)
      PROVE  \/ object'[j] = object[j]
             \/ object'[j] = NoObject
             \/ object'[j] = now /\ now' = now /\ content[j] = "storing"
  BY <1>1 DEF ContentStep, ContentClaim, StorePut, StoreFail, StoreClear, StoreReject, ContentStage,
     ContentSubmit, ContentAnswer, ContentReject, ContentClear, ContentAt, Without, r2Vars, jobsVars
<1>2. SubmitStep(j) => object'[j] = object[j]
  BY DEF SubmitStep, SubmitCheck, SubmitWait, SubmitRun, SubmitSend, SubmitFail, r2Vars
<1> QED BY <1>1, <1>2, WhereSteps DEF Elsewhere

LEMMA NextTimed ==
  ASSUME FlowTypeOK, KindInv, [FlowNext]_vars, NEW j \in Job, Handled(j), Timed(j)
  PROVE  Timed(j)'
<1> USE WindowAssumption DEF Timed, FlowTypeOK, HasObject
<1>0. TypeOK /\ [JobsNext]_jobsVars
  BY UploadStep
<1>1. now \in Int /\ now' \in Int /\ now <= now' /\ expires_at[j] \in Int
  BY <1>0, TtlStays, NextType DEF TypeOK
<1>2. CASE status[j] = "absent"
  <2>1. object[j] = NoObject /\ content[j] # "storing"
    BY <1>2 DEF Handled
  <2>2. object'[j] = NoObject
    BY <2>1, ObjectSteps
  <2>3. status'[j] # "absent" => expires_at'[j] <= now' + JobTtl
    BY <1>0, <1>1, <1>2, NewRow
  <2> QED BY <2>2, <2>3
<1>3. CASE status[j] # "absent"
  <2>1. status'[j] # "absent" /\ expires_at'[j] = expires_at[j]
    BY <1>0, <1>3, RowsStay, TtlStays
  <2>2. object'[j] # NoObject => expires_at'[j] <= object'[j] + JobTtl
    BY <1>3, <2>1, ObjectSteps
  <2> QED BY <1>1, <1>3, <2>1, <2>2
<1> QED BY <1>2, <1>3

LEMMA CronSteps ==
  ASSUME FlowTypeOK, [FlowNext]_vars
  PROVE  CronPurge \/ CronClear \/ UNCHANGED cron
BY DEF FlowNext, FlowTick, Purge, Connect, Disconnect, CreateUpload, ContentStep, ContentClaim, StorePut, StoreFail,
   StoreClear, StoreReject, ContentStage, ContentSubmit, ContentAnswer, ContentReject, ContentClear, SubmitStep,
   SubmitCheck, SubmitWait, SubmitRun, SubmitSend, SubmitFail, SweepSelect, DropObject, Report, ResendStep,
   ResendBegin, ResendRequeue, ResendPick, ResendSettle, ResendStop, ResendRefuse, ResendRun, ResendSend, AgentFetch,
   AgentReport, SettleReceipt, Settle, vars

\* What is newly waiting for its delete has just ended, and so has what the cron will
\* delete by key.
LEMMA NewDeletes ==
  ASSUME FlowTypeOK, KindInv, [FlowNext]_vars, NEW j \in Job, j \in dropping' \cup cron'.keys
  PROVE  j \in dropping \cup cron.keys \/ status'[j] \in Dead
<1> USE StateSets DEF FlowTypeOK
<1>1. CASE j \in cron'.keys
  <2>1. CASE CronPurge
    BY <1>1, <2>1 DEF CronPurge, Expired, PurgeExpired, TypeOK
  <2>2. CASE CronClear
    BY <1>1, <2>2 DEF CronClear
  <2>3. CASE UNCHANGED cron
    BY <1>1, <2>3
  <2> QED BY <2>1, <2>2, <2>3, CronSteps
<1>2. CASE j \in dropping'
  <2>dropping. CASE dropping' \subseteq dropping
    BY <1>2, <2>dropping
  <2>ResendSettle. ASSUME NEW c \in Conn, ResendSettle(c), ~ dropping' \subseteq dropping
                   PROVE  j \in dropping \/ status'[j] \in Dead
    BY <1>2, <2>ResendSettle DEF ResendSettle, TimeOutOrphan, ExpireWaiting, Move, TypeOK, Dead,
       Ends, ResultStates
  <2>SettleReceipt. ASSUME NEW r \in receipts, SettleReceipt(r) PROVE j \in dropping \/ status'[j] \in Dead
    <3>1. \E result \in {"succeeded", "failed"} : FinishOrMiss(r.job, result)
      BY <2>SettleReceipt DEF SettleReceipt
    <3>2. r.job \in Job
      OBVIOUS
    <3> QED BY <1>2, <2>SettleReceipt, <3>1, <3>2, Finished DEF SettleReceipt
  <2>Settle. ASSUME NEW r \in seen, Settle(r) PROVE j \in dropping \/ status'[j] \in Dead
    BY <1>2, <2>Settle DEF Settle, SettleExpired, Move, TypeOK, Dead, Ends
  <2> QED BY <2>dropping, <2>ResendSettle, <2>SettleReceipt, <2>Settle DEF FlowNext, FlowTick,
             Purge, CronPurge, CronClear, Connect, Disconnect,
        CreateUpload, ContentStep, ContentClaim, StorePut, StoreFail, StoreClear, StoreReject, ContentStage,
        ContentSubmit, ContentAnswer, ContentReject, ContentClear, SubmitStep, SubmitCheck, SubmitWait, SubmitRun,
        SubmitSend, SubmitFail, SweepSelect, DropObject, Report, ResendStep, ResendBegin, ResendRequeue,
        ResendPick, ResendStop, ResendRefuse, ResendRun, ResendSend, AgentFetch, AgentReport, r2Vars, vars
<1> QED BY <1>1, <1>2

LEMMA NextDelete ==
  ASSUME FlowTypeOK, TargetInv, KindInv, [FlowNext]_vars, \A j \in Job : Timed(j), DeleteInv
  PROVE  DeleteInv'
<1> USE DEF FlowTypeOK
<1>0. FlowTypeOK' /\ [JobsNext]_jobsVars /\ now <= now' /\ now \in Int /\ now' \in Int /\ cron.at \in Int
  <2>1. FlowTypeOK' /\ [JobsNext]_jobsVars
    BY UploadStep, UploadNextType
  <2>2. now \in Int /\ now' \in Int /\ cron.at \in Int
    BY <2>1, WindowAssumption DEF TypeOK
  <2>3. ASSUME NEW j \in Job PROVE now <= now'
    BY <2>1, TtlStays
  <2> QED BY <2>1, <2>2, <2>3, WindowAssumption DEF JobsNext, jobsVars, Tick, PurgeExpired, RequeueOrphanUploads,
        SettleExpired, SkipSeen
<1>1. ASSUME NEW j \in dropping' \cup cron'.keys PROVE status'[j] \in Dead
  <2>1. j \in Job
    BY <1>0
  <2> QED BY <2>1, NewDeletes, DeadStays DEF DeleteInv
<1>2. ASSUME cron'.pc = "clear"
      PROVE  cron'.at <= now' /\ \A j \in Job : IsRow(j)' => expires_at'[j] >= cron'.at
  <2>1. CASE CronPurge
    <3>1. cron'.at = now /\ now' = now /\ UNCHANGED expires_at
      BY <2>1 DEF CronPurge, PurgeExpired, jobsVars
    <3>2. ASSUME NEW j \in Job, IsRow(j)' PROVE ~ (expires_at[j] < now)
      BY <2>1, <3>2 DEF CronPurge, PurgeExpired, Expired, IsRow, RowStates, ActiveStates, ResultStates, jobsVars
    <3>3. \A j \in Job : expires_at[j] \in Int
      BY DEF TypeOK
    <3> QED BY <1>0, <3>1, <3>2, <3>3
  <2>2. CASE UNCHANGED cron
    <3>1. cron.at <= now /\ \A j \in Job : IsRow(j) => expires_at[j] >= cron.at
      BY <1>2, <2>2 DEF DeleteInv
    <3>2. ASSUME NEW j \in Job, IsRow(j)', status[j] = "absent" PROVE expires_at'[j] >= cron'.at
      <4>1. expires_at'[j] = now + JobTtl
        BY <1>0, <3>2, NewRow DEF IsRow, RowStates, ActiveStates, ResultStates
      <4> QED BY <1>0, <2>2, <3>1, <4>1, WindowAssumption
    <3>3. ASSUME NEW j \in Job, IsRow(j)', status[j] # "absent" PROVE expires_at'[j] >= cron'.at
      BY <1>0, <2>2, <3>1, <3>3, NoneRevives, TtlStays
    <3> QED BY <1>0, <2>2, <3>1, <3>2, <3>3
  <2>3. ~ CronClear
    BY <1>2 DEF CronClear
  <2> QED BY <2>1, <2>2, <2>3, CronSteps
<1> QED BY <1>1, <1>2 DEF DeleteInv

\* A delete by a settlement or by the cron takes no object that somebody may want.
LEMMA DeletedIsDead ==
  ASSUME FlowTypeOK, NEW j \in Job, Timed(j), DeleteInv, DropObject(j) \/ CronClear
  PROVE  status'[j] = status[j] /\ (object'[j] = object[j] \/ status[j] \in Dead)
<1> USE DEF FlowTypeOK
<1>1. status'[j] = status[j]
  BY DEF DropObject, CronClear, jobsVars
<1>2. CASE DropObject(j)
  BY <1>1, <1>2 DEF DropObject, DeleteInv
<1>3. CASE CronClear
  <2>1. object'[j] = object[j] \/ j \in cron.keys \/ j \in OlderThanTtl(cron.at)
    BY <1>3 DEF CronClear, Without
  <2>2. ASSUME j \in OlderThanTtl(cron.at) PROVE status[j] \in Dead
    <3>1. HasObject(j) /\ object[j] + JobTtl < cron.at /\ object[j] \in Int /\ cron.at \in Int
      BY <2>2, WindowAssumption DEF OlderThanTtl, NoObject, HasObject
    <3>2. status[j] # "absent" /\ expires_at[j] <= object[j] + JobTtl
      BY <3>1 DEF Timed
    <3>3. IsRow(j) => expires_at[j] >= cron.at
      BY <1>3 DEF CronClear, DeleteInv
    <3>4. ~ IsRow(j)
      BY <3>1, <3>2, <3>3, WindowAssumption DEF TypeOK
    <3> QED BY <3>2, <3>4, StateSets DEF IsRow, TypeOK, Status
  <2> QED BY <1>1, <2>1, <2>2 DEF DeleteInv
<1> QED BY <1>2, <1>3

LEMMA NextStored ==
  ASSUME FlowTypeOK, KindInv, [FlowNext]_vars, NEW j \in Job, Handled(j), Timed(j), Stored(j), DeleteInv
  PROVE  Stored(j)'
<1> USE StateSets DEF FlowTypeOK, HasObject
<1>0. status \in [Job -> Status] /\ now # NoObject
  BY DEF TypeOK, NoObject
<1>1. CASE Elsewhere(j)
  <2>1. content'[j] = content[j] /\ submit'[j] = submit[j]
    BY <1>1 DEF Elsewhere
  <2>2. /\ status'[j] \in Live => status[j] \in Live
        /\ status'[j] = "staging" => status[j] = "staging"
    BY <1>1 DEF Elsewhere, Ends
  <2>3. CASE object'[j] = object[j]
    BY <2>1, <2>2, <2>3 DEF Stored
  <2>4. CASE object'[j] = NoObject /\ status[j] \in Dead /\ status'[j] = status[j]
    BY <2>1, <2>4 DEF Stored
  <2> QED BY <1>1, <2>3, <2>4, DeletedIsDead DEF Elsewhere
<1>2. CASE ContentClaim(j)
  BY <1>0, <1>2 DEF ContentClaim, ContentAt, ClaimUploadStaging, Move, Stored, r2Vars
<1>3. CASE StorePut(j)
  BY <1>0, <1>3 DEF StorePut, ContentAt, Stored, jobsVars
<1>4. CASE StoreFail(j) \/ StoreClear(j)
  BY <1>0, <1>4 DEF StoreFail, StoreClear, ContentAt, Stored, Handled, Without, jobsVars
<1>5. CASE StoreReject(j) \/ ContentReject(j)
  <2>1. status'[j] \in Dead
    BY <1>5, Finished DEF StoreReject, ContentReject
  <2> QED BY <1>5, <2>1 DEF StoreReject, ContentReject, ContentAt, Stored, r2Vars
<1>6. CASE ContentStage(j)
  <2>1. UNCHANGED <<object, submit>> /\ content[j] = "stored" /\ content'[j] \in {"staged", "clearing"}
    BY <1>6 DEF ContentStage, ContentAt, r2Vars
  <2>2. CASE MarkUploadStaged(j)
    BY <1>0, <2>1, <2>2 DEF MarkUploadStaged, MoveUntil, Move, Stored
  <2>3. CASE UNCHANGED jobsVars
    BY <2>1, <2>3 DEF Stored, jobsVars
  <2> QED BY <1>6, <2>2, <2>3 DEF ContentStage
<1>7. CASE ContentSubmit(j) \/ ContentAnswer(j)
  BY <1>7 DEF ContentSubmit, ContentAnswer, ContentAt, SubmitAt, Stored, jobsVars, r2Vars
<1>8. CASE ContentClear(j)
  BY <1>8 DEF ContentClear, ContentAt, Without, Stored, Handled, jobsVars
<1>9. CASE SubmitStep(j)
  BY <1>9, Submitted DEF Stored, Handled
<1> QED BY <1>1, <1>2, <1>3, <1>4, <1>5, <1>6, <1>7, <1>8, <1>9, WhereSteps DEF ContentStep

LEMMA ObjectInductive ==
  FlowSpec => [](FlowTypeOK /\ TargetInv /\ KindInv /\ HandlerInv /\ ObjectInv)
<1>1. FlowInit => ObjectInv
  BY DEF FlowInit, JobsInit, ObjectInv, Stored, Timed, DeleteInv, HasObject, Live
<1>2. FlowTypeOK /\ TargetInv /\ KindInv /\ HandlerInv /\ ObjectInv /\ [FlowNext]_vars => ObjectInv'
  BY NextStored, NextTimed, NextDelete DEF ObjectInv, HandlerInv
<1> QED BY <1>1, <1>2, HandledInductive, PTL DEF FlowSpec

\* No delete of the code (a rejected body, a miss of markUploadStaged, a failed
\* dispatch, a settlement, the cron by key or by age) takes the object of a job that an
\* agent may still be told to fetch.
THEOREM NothingFetchedIsDeleted == FlowSpec => []StagedObjectPresent
<1>1. ObjectInv => StagedObjectPresent
  BY DEF ObjectInv, Stored, StagedObjectPresent, Live
<1> QED BY <1>1, ObjectInductive, PTL
--------------------------------------------------------------------------------
(* The object goes.                                                            *)

\* Who still deletes the object of a job that ended.
Owed(j) ==
  \/ j \in dropping \cup resendFailed
  \/ content[j] \in {"storeFailed", "stored", "clearing"}
  \/ content[j] \in {"submitting", "rejected"} /\ submit[j] = "no"

EndInv == \A j \in Job : status[j] \in Ends /\ HasObject(j) => Owed(j)

LEMMA NextOwed ==
  ASSUME FlowTypeOK, [FlowNext]_vars, NEW j \in Job, Handled(j), Stored(j),
         status[j] \in Ends /\ HasObject(j) => Owed(j), status'[j] \in Ends, HasObject(j)'
  PROVE  Owed(j)'
<1> USE StateSets DEF FlowTypeOK, HasObject
<1>1. CASE Elsewhere(j)
  <2>1. CASE object'[j] = object[j]
    BY <1>1, <2>1 DEF Elsewhere, Owed, Ends, Live, ResultStates
  <2> QED BY <1>1, <2>1 DEF Elsewhere
<1>2. CASE ContentClaim(j)
  BY <1>2 DEF ContentClaim, Stored, ContentAt, r2Vars
<1>3. CASE StorePut(j) \/ StoreFail(j)
  BY <1>3 DEF StorePut, StoreFail, ContentAt, Owed
<1>4. CASE StoreClear(j) \/ ContentClear(j)
  BY <1>4 DEF StoreClear, ContentClear, Without
<1>5. CASE StoreReject(j)
  BY <1>5 DEF StoreReject, ContentAt, Stored, r2Vars
<1>6. CASE ContentReject(j)
  BY <1>6 DEF ContentReject, ContentAt, Owed
<1>7. CASE ContentStage(j)
  <2>1. CASE MarkUploadStaged(j)
    BY <2>1 DEF MarkUploadStaged, MoveUntil, Move, TypeOK, Ends, ResultStates
  <2>2. CASE content'[j] = "clearing"
    BY <2>2 DEF Owed
  <2> QED BY <1>7, <2>1, <2>2 DEF ContentStage, ContentAt
<1>8. CASE ContentSubmit(j) \/ ContentAnswer(j)
  <2>1. UNCHANGED <<status, object, dropping, resendFailed>>
    BY <1>8 DEF ContentSubmit, ContentAnswer, jobsVars, r2Vars, connVars
  <2>2. Owed(j)
    BY <2>1
  <2> QED BY <1>8, <2>1, <2>2 DEF ContentSubmit, ContentAnswer, ContentAt, SubmitAt, Owed
<1>9. CASE SubmitStep(j)
  <2>1. UNCHANGED <<content, object, dropping, resendFailed>>
    BY <1>9, Submitted
  <2>2. CASE status[j] \in Ends
    BY <1>9, <2>1, <2>2, Submitted DEF Owed
  <2>3. CASE submit'[j] = "no"
    BY <1>9, <2>1, <2>3, Submitted DEF Owed, Handled, Stored
  <2> QED BY <1>9, <2>2, <2>3, Submitted
<1> QED BY <1>1, <1>2, <1>3, <1>4, <1>5, <1>6, <1>7, <1>8, <1>9, WhereSteps DEF ContentStep

\* Whoever ends a job goes on to delete its object, the redelivery loop excepted: also
\* when the end comes while the bytes are still on their way.
THEOREM EndedJobsAreCleared == FlowSpec => []OnlyResendAbandons
<1>1. FlowInit => EndInv
  BY DEF FlowInit, EndInv, HasObject
<1>2. FlowTypeOK /\ HandlerInv /\ ObjectInv /\ EndInv /\ [FlowNext]_vars => EndInv'
  BY NextOwed DEF EndInv, HandlerInv, ObjectInv
<1>3. EndInv => OnlyResendAbandons
  BY DEF EndInv, Owed, OnlyResendAbandons, AbandonedObject, ClearedSoon, Ends
<1> QED BY <1>1, <1>2, <1>3, ObjectInductive, PTL DEF FlowSpec
================================================================================
