---------------------------- MODULE ExecFlow_proofs ----------------------------
(***************************************************************************)
(* Commands and agent updates, for any jobs, keys, windows and numbers of  *)
(* connections.                                                            *)
(*                                                                         *)
(* What the handlers do to operation_jobs is what the table allows         *)
(* (FlowImplementsJobs), so that the theorems of OperationJobs_proofs hold *)
(* of the handlers too.  The three invariants rest on them and on what     *)
(* they do not mention: RequestInv, PurgedInv, LinkInv, BatchInv and       *)
(* AbsentInv.                                                              *)
(***************************************************************************)
EXTENDS ExecFlow, OperationJobs_proofs

\* A handler that runs has inserted its row, and from the check on it has a connection.
RequestInv ==
  \A j \in Job : /\ KindOf[j] = "upload" => request[j] = "none" /\ submit[j] = "none"
                 /\ request[j] \in {"created", "calling"} \/ submit[j] # "none" => status[j] # "absent"

TargetInv == \A j \in Job : submit[j] \in {"mark", "send", "ok"} => target[j] \in Conn
--------------------------------------------------------------------------------
(* The table.                                                                  *)

\* At most one update is in the index of the server, so that the SELECT of
\* settleServerExpired finds one row or none.
LEMMA SettleReadsOne ==
  ASSUME KindInv, IndexesHold, NEW j \in Stalled, NEW k \in Stalled
  PROVE  j = k
BY OneServerAssumption, ActiveHoldsSlot DEF Stalled, IndexesHold

LEMMA FlowStep ==
  ASSUME FlowTypeOK, KindInv, IndexesHold, [FlowNext]_vars
  PROVE  [JobsNext]_jobsVars
<1> SUFFICES JobsNext \/ UNCHANGED jobsVars
  OBVIOUS
<1>1. ASSUME NEW j \in Job, NEW cause, FailAudited(j, cause) PROVE JobsNext \/ UNCHANGED jobsVars
  BY <1>1 DEF FailAudited, JobsNext, Finish
<1>2. ASSUME NEW j \in Job, RequestStep(j) PROVE JobsNext \/ UNCHANGED jobsVars
  <2>RequestCheck. CASE RequestCheck(j) \/ RequestPurge(j)
    BY <2>RequestCheck DEF RequestCheck, RequestPurge, PurgeFirst, JobsNext
  <2>RequestSettle. CASE RequestSettle(j)
    <3>1. CASE Stalled = {}
      BY <2>RequestSettle, <3>1 DEF RequestSettle, jobsVars, rowVars
    <3>2. ASSUME NEW k \in Stalled PROVE SelectOverdue(k) /\ k \in Job
      <4>1. seen' = seen \cup {[job |-> k, due |-> deadline_at[k]]}
        BY <2>RequestSettle, SettleReadsOne DEF RequestSettle
      <4> QED BY <2>RequestSettle, <4>1 DEF RequestSettle, Stalled, SelectOverdue
    <3> QED BY <3>1, <3>2 DEF JobsNext, Sweep
  <2>RequestCreate. CASE RequestCreate(j)
    BY <2>RequestCreate DEF RequestCreate, JobsNext, Create
  <2>RequestCall. CASE RequestCall(j) \/ RequestAnswer(j)
    BY <2>RequestCall DEF RequestCall, RequestAnswer
  <2>RequestFail. CASE RequestFail(j)
    BY <1>1, <2>RequestFail DEF RequestFail
  <2> QED BY <1>2, <2>RequestCheck, <2>RequestSettle, <2>RequestCreate, <2>RequestCall,
             <2>RequestFail DEF RequestStep
<1>3. ASSUME NEW j \in Job, SubmitStep(j) PROVE JobsNext \/ UNCHANGED jobsVars
  <2>1. CASE SubmitCheck(j) \/ SubmitSend(j)
    BY <2>1 DEF SubmitCheck, SubmitSend
  <2>2. CASE SubmitMark(j)
    BY <2>2 DEF SubmitMark, JobsNext, Progress
  <2>3. CASE SubmitFail(j)
    BY <1>1, <2>3 DEF SubmitFail
  <2> QED BY <1>3, <2>1, <2>2, <2>3 DEF SubmitStep
<1>4. ASSUME NEW c \in Conn, CleanupStep(c) PROVE JobsNext \/ UNCHANGED jobsVars
  BY <1>1, <1>4 DEF CleanupStep, CleanupSelect, CleanupFail
<1>5. ASSUME NEW j \in results, NEW result \in ResultStates, ResultWrite(j, result)
      PROVE  JobsNext \/ UNCHANGED jobsVars
  BY <1>5 DEF ResultWrite, FlowTypeOK, JobsNext, Finish
<1>6. ASSUME NEW r \in seen, Settle(r) PROVE JobsNext
  BY <1>6 DEF Settle, JobsNext
<1>7. ASSUME NEW j \in Job, SweepSelect(j) PROVE JobsNext
  BY <1>7 DEF SweepSelect, JobsNext, Sweep
<1>8. CASE FlowTick \/ Purge
  BY <1>8 DEF FlowTick, Purge, JobsNext
<1>9. CASE Connect \/ Disconnect \/ (\E t \in tasks : AgentAnswer(t)) \/ UNCHANGED vars
  BY <1>9 DEF Connect, Disconnect, AgentAnswer, vars
<1> QED BY <1>2, <1>3, <1>4, <1>5, <1>6, <1>7, <1>8, <1>9 DEF FlowNext
--------------------------------------------------------------------------------
(* Types.                                                                      *)

LEMMA FlowInitType == FlowInit => FlowTypeOK /\ TargetInv
<1> SUFFICES ASSUME FlowInit PROVE FlowTypeOK /\ TargetInv
  OBVIOUS
<1>1. TypeOK
  BY InitType DEF FlowInit
<1>2. 1 \in Conn
  BY ConnAssumption DEF Conn
<1>3. audits \in [Job -> [Cause -> Nat]]
  BY DEF FlowInit
<1> QED BY <1>1, <1>2, <1>3 DEF FlowInit, FlowTypeOK, TargetInv, RequestPc, SubmitPc, CleanupPc

LEMMA AuditType ==
  ASSUME audits \in [Job -> [Cause -> Nat]], NEW j \in Job, NEW cause \in Cause,
         Audit(j, cause) \/ UNCHANGED audits
  PROVE  audits' \in [Job -> [Cause -> Nat]]
BY DEF Audit

LEMMA FlowNextType ==
  FlowTypeOK /\ TargetInv /\ KindInv /\ IndexesHold /\ [FlowNext]_vars => FlowTypeOK' /\ TargetInv'
<1> SUFFICES ASSUME FlowTypeOK, TargetInv, KindInv, IndexesHold, [FlowNext]_vars
             PROVE  FlowTypeOK' /\ TargetInv'
  OBVIOUS
<1>0. TypeOK'
  BY FlowStep, NextType DEF FlowTypeOK
<1> DEFINE FlowPart == /\ request' \in [Job -> RequestPc] /\ submit' \in [Job -> SubmitPc]
                       /\ target' \in [Job -> Conn \cup {0}] /\ TargetInv'
           ConnPart == /\ conn' \in Conn \cup {0} /\ epoch' \in Conn
                       /\ cleanup' \in [Conn -> CleanupPc] /\ batch' \in [Conn -> SUBSET Job]
                       /\ misfired' \subseteq Job
           AgentPart == tasks' \subseteq [job : Job, conn : Conn] /\ results' \subseteq Job
           AuditPart == audits' \in [Job -> [Cause -> Nat]]
<1> SUFFICES FlowPart /\ ConnPart /\ AgentPart /\ AuditPart
  BY <1>0 DEF FlowTypeOK
<1> USE DEF FlowTypeOK, TargetInv
<1>f. UNCHANGED flowVars => FlowPart
  BY DEF flowVars
<1>c. UNCHANGED connVars => ConnPart
  BY DEF connVars
<1>a. UNCHANGED agentVars => AgentPart
  BY DEF agentVars
<1>u. /\ UNCHANGED audits => AuditPart
      /\ \A j \in Job, cause \in Cause : Audit(j, cause) \/ FailAudited(j, cause) => AuditPart
  BY AuditType DEF FailAudited
<1>1. ASSUME NEW j \in Job, RequestStep(j) PROVE FlowPart /\ ConnPart /\ AgentPart /\ AuditPart
  <2>1. FlowPart
    <3>1. /\ UNCHANGED target
          /\ \E to \in RequestPc : request' = [request EXCEPT ![j] = to]
          /\ UNCHANGED submit \/ submit' = [submit EXCEPT ![j] = "check"]
      BY <1>1 DEF RequestStep, RequestCheck, RequestPurge, RequestSettle, RequestCreate, RequestCall,
         RequestAnswer, RequestFail, RequestAt, SubmitAt, RequestPc
    <3> QED BY <3>1 DEF SubmitPc
  <2>2. UNCHANGED connVars /\ UNCHANGED agentVars
    BY <1>1 DEF RequestStep, RequestCheck, RequestPurge, RequestSettle, RequestCreate, RequestCall,
       RequestAnswer, RequestFail
  <2>3. AuditPart
    <3>1. UNCHANGED audits \/ FailAudited(j, "dispatch")
      BY <1>1 DEF RequestStep, RequestCheck, RequestPurge, RequestSettle, RequestCreate, RequestCall,
         RequestAnswer, RequestFail
    <3> QED BY <1>u, <3>1 DEF Cause
  <2> QED BY <1>c, <1>a, <2>1, <2>2, <2>3
<1>2. ASSUME NEW j \in Job, SubmitStep(j) PROVE FlowPart /\ ConnPart /\ AgentPart /\ AuditPart
  <2>SubmitCheck. CASE SubmitCheck(j)
    BY <1>c, <1>a, <1>u, <2>SubmitCheck DEF SubmitCheck, SubmitAt, SubmitPc
  <2>SubmitMark. CASE SubmitMark(j)
    BY <1>c, <1>a, <1>u, <2>SubmitMark DEF SubmitMark, SubmitAt, SubmitPc
  <2>SubmitSend. CASE SubmitSend(j)
    BY <1>c, <1>u, <2>SubmitSend DEF SubmitSend, SubmitAt, SubmitPc
  <2>SubmitFail. CASE SubmitFail(j)
    BY <1>c, <1>a, <1>u, <2>SubmitFail DEF SubmitFail, SubmitAt, SubmitPc, Cause
  <2> QED BY <1>2, <2>SubmitCheck, <2>SubmitMark, <2>SubmitSend, <2>SubmitFail DEF SubmitStep
<1>3. CASE Connect
  <2>1. epoch + 1 \in Conn
    BY <1>3, ConnAssumption DEF Connect, Conn
  <2> QED BY <1>f, <1>a, <1>u, <1>3, <2>1 DEF Connect
<1>4. CASE Disconnect
  BY <1>f, <1>a, <1>u, <1>4 DEF Disconnect, CleanupPc
<1>5. ASSUME NEW c \in Conn, CleanupStep(c) PROVE FlowPart /\ ConnPart /\ AgentPart /\ AuditPart
  <2>1. CASE CleanupSelect(c)
    BY <1>f, <1>a, <1>u, <2>1 DEF CleanupSelect, CleanupPc
  <2>2. ASSUME NEW j \in Job, CleanupFail(c, j) PROVE FlowPart /\ ConnPart /\ AgentPart /\ AuditPart
    BY <1>f, <1>a, <1>u, <2>2 DEF CleanupFail, Cause
  <2> QED BY <1>5, <2>1, <2>2 DEF CleanupStep
<1>6. ASSUME NEW t \in tasks, AgentAnswer(t) PROVE FlowPart /\ ConnPart /\ AgentPart /\ AuditPart
  BY <1>f, <1>c, <1>u, <1>6 DEF AgentAnswer
<1>7. ASSUME NEW j \in results, NEW result \in ResultStates, ResultWrite(j, result)
      PROVE  FlowPart /\ ConnPart /\ AgentPart /\ AuditPart
  BY <1>f, <1>c, <1>u, <1>7 DEF ResultWrite, Cause
<1>8. ASSUME NEW r \in seen, Settle(r) PROVE FlowPart /\ ConnPart /\ AgentPart /\ AuditPart
  <2>1. r.job \in Job
    BY DEF TypeOK
  <2> QED BY <1>f, <1>c, <1>a, <1>u, <1>8, <2>1 DEF Settle, Cause
<1>9. CASE FlowTick \/ Purge \/ (\E j \in Job : SweepSelect(j)) \/ UNCHANGED vars
  BY <1>f, <1>c, <1>a, <1>u, <1>9 DEF FlowTick, Purge, SweepSelect, vars
<1> QED BY <1>1, <1>2, <1>3, <1>4, <1>5, <1>6, <1>7, <1>8, <1>9 DEF FlowNext

LEMMA FlowTypeInductive == FlowSpec => [](FlowTypeOK /\ TargetInv /\ KindInv /\ IndexesHold)
<1>1. FlowInit => KindInv /\ IndexesHold
  BY KindAssumption DEF FlowInit, JobsInit, KindInv, Active, ActiveStates, IndexesHold, HoldsSlot,
     SlotStates, IsRow, RowStates, ResultStates, Kind
<1>2. FlowTypeOK /\ KindInv /\ IndexesHold /\ [FlowNext]_vars => KindInv' /\ IndexesHold'
  BY FlowStep, NextKind, NextIndexes DEF FlowTypeOK
<1> QED BY <1>1, <1>2, FlowInitType, FlowNextType, PTL DEF FlowSpec

\* The handlers, the agent and the cleanups of the connections keep their types.
THEOREM FlowTypeCorrect == FlowSpec => []FlowTypeOK
BY FlowTypeInductive, PTL

\* Whatever the handlers, cleanups, sweeps and results do to the table is one of its
\* statements at a time: what is true of the statements in any order is true of them.
THEOREM FlowImplementsJobs == FlowSpec => JobsSpec
<1>1. FlowInit => JobsInit
  BY DEF FlowInit
<1>2. FlowTypeOK /\ KindInv /\ IndexesHold /\ [FlowNext]_vars => [JobsNext]_jobsVars
  BY FlowStep
<1> QED BY <1>1, <1>2, FlowTypeInductive, PTL DEF FlowSpec, JobsSpec
--------------------------------------------------------------------------------
(* Once per key.                                                               *)

\* What the retention sweep deletes is past its TTL.
PurgedInv == \A j \in Job : status[j] = "purged" => expires_at[j] < now

LEMMA NextRequest ==
  FlowTypeOK /\ KindInv /\ IndexesHold /\ RequestInv /\ [FlowNext]_vars => RequestInv'
<1> SUFFICES ASSUME FlowTypeOK, KindInv, IndexesHold, RequestInv, [FlowNext]_vars, NEW j \in Job
             PROVE  /\ KindOf[j] = "upload" => request'[j] = "none" /\ submit'[j] = "none"
                    /\ request'[j] \in {"created", "calling"} \/ submit'[j] # "none" => status'[j] # "absent"
  BY DEF RequestInv
<1> USE DEF FlowTypeOK, TypeOK
<1>0. status[j] # "absent" => status'[j] # "absent"
  BY FlowStep, RowsStay
<1>1. CASE UNCHANGED <<request, submit>>
  BY <1>0, <1>1 DEF RequestInv
<1>2. ASSUME NEW k \in Job, RequestStep(k)
      PROVE  /\ KindOf[j] = "upload" => request'[j] = "none" /\ submit'[j] = "none"
             /\ request'[j] \in {"created", "calling"} \/ submit'[j] # "none" => status'[j] # "absent"
  <2>1. CASE RequestCreate(k)
    <3>1. request'[k] = "created" => status'[k] # "absent" /\ KindOf[k] # "upload"
      BY <2>1 DEF RequestCreate, InsertExecJob, InsertAgentUpdateJob, Insert
    <3>2. request'[k] \in {"created", "done"} /\ KindOf[k] # "upload"
      BY <2>1 DEF RequestCreate, RequestInv
    <3>3. \A i \in Job \ {k} : request'[i] = request[i]
      BY <2>1 DEF RequestCreate
    <3> QED BY <1>0, <2>1, <3>1, <3>2, <3>3 DEF RequestCreate, RequestInv
  <2>2. CASE RequestCheck(k) \/ RequestPurge(k) \/ RequestSettle(k)
    <3>1. KindOf[k] # "upload" /\ request'[k] \notin {"created", "calling"} /\ UNCHANGED submit
      BY <2>2 DEF RequestCheck, RequestPurge, RequestSettle, RequestAt
    <3>2. \A i \in Job \ {k} : request'[i] = request[i]
      BY <2>2 DEF RequestCheck, RequestPurge, RequestSettle, RequestAt
    <3> QED BY <1>0, <3>1, <3>2 DEF RequestInv
  <2>3. CASE RequestCall(k) \/ RequestAnswer(k) \/ RequestFail(k)
    <3>1. request[k] \in {"created", "calling"} /\ submit'[k] \in {submit[k], "check"}
      BY <2>3 DEF RequestCall, RequestAnswer, RequestFail, RequestAt, SubmitAt
    <3>2. \A i \in Job \ {k} : request'[i] = request[i] /\ submit'[i] = submit[i]
      BY <2>3 DEF RequestCall, RequestAnswer, RequestFail, RequestAt, SubmitAt
    <3> QED BY <1>0, <3>1, <3>2 DEF RequestInv
  <2> QED BY <1>2, <2>1, <2>2, <2>3 DEF RequestStep
<1>3. ASSUME NEW k \in Job, SubmitStep(k)
      PROVE  /\ KindOf[j] = "upload" => request'[j] = "none" /\ submit'[j] = "none"
             /\ request'[j] \in {"created", "calling"} \/ submit'[j] # "none" => status'[j] # "absent"
  <2>1. submit[k] # "none" /\ UNCHANGED request
    BY <1>3 DEF SubmitStep, SubmitCheck, SubmitMark, SubmitSend, SubmitFail, SubmitAt
  <2>2. \A i \in Job \ {k} : submit'[i] = submit[i]
    BY <1>3 DEF SubmitStep, SubmitCheck, SubmitMark, SubmitSend, SubmitFail, SubmitAt
  <2> QED BY <1>0, <2>1, <2>2 DEF RequestInv
<1> QED BY <1>1, <1>2, <1>3 DEF FlowNext, FlowTick, Purge, Connect, Disconnect, SweepSelect, CleanupStep,
      CleanupSelect, CleanupFail, AgentAnswer, ResultWrite, Settle, flowVars, vars

LEMMA NextPurged == TypeOK /\ KindInv /\ PurgedInv /\ [JobsNext]_jobsVars => PurgedInv'
<1> SUFFICES ASSUME TypeOK, KindInv, PurgedInv, [JobsNext]_jobsVars, NEW j \in Job, status'[j] = "purged"
             PROVE  expires_at'[j] < now'
  BY DEF PurgedInv
<1>1. status[j] # "absent" /\ expires_at[j] < now
  <2>1. CASE status[j] = "purged"
    BY <2>1 DEF PurgedInv
  <2>2. CASE status[j] # "purged"
    BY <2>2, TtlStays, StatusSets DEF IsRow
  <2> QED BY <2>1, <2>2
<1>2. expires_at'[j] = expires_at[j] /\ now <= now'
  BY <1>1, TtlStays
<1>3. {expires_at[j], now, now'} \subseteq Int
  BY NextType, WindowAssumption DEF TypeOK
<1> QED BY <1>1, <1>2, <1>3

LEMMA OnceFollows == FlowTypeOK /\ RequestInv /\ IndexesHold /\ PurgedInv => OncePerKey
<1> SUFFICES ASSUME FlowTypeOK, RequestInv, IndexesHold, PurgedInv,
                    NEW j \in Job, NEW k \in Job, j # k, KeyOf[j] = KeyOf[k], KeyOf[j] # NoKey,
                    SentOn(j) # 0, SentOn(k) # 0
             PROVE  \E done \in {j, k} : status[done] = "purged" /\ expires_at[done] < now
  BY DEF OncePerKey
<1>1. status[j] # "absent" /\ status[k] # "absent"
  BY DEF SentOn, RequestInv
<1>2. PICK done \in {j, k} : ~ IsRow(done)
  BY DEF IndexesHold
<1> QED BY <1>1, <1>2 DEF IsRow, FlowTypeOK, TypeOK, Status, PurgedInv

LEMMA RequestIsInvariant == FlowSpec => [](RequestInv /\ PurgedInv)
<1>1. FlowInit => RequestInv /\ PurgedInv
  BY DEF FlowInit, JobsInit, RequestInv, PurgedInv
<1>2. FlowTypeOK /\ KindInv /\ IndexesHold /\ PurgedInv /\ [FlowNext]_vars => PurgedInv'
  BY FlowStep, NextPurged DEF FlowTypeOK
<1> QED BY <1>1, <1>2, NextRequest, FlowTypeInductive, PTL DEF FlowSpec

\* However often a request with one idempotency_key is repeated and wherever its
\* handlers stop, one command is sent as long as the row of the first is kept.
THEOREM CommandRunsOnce == FlowSpec => []OncePerKey
BY OnceFollows, RequestIsInvariant, FlowTypeInductive, PTL
--------------------------------------------------------------------------------
(* The audit log.                                                              *)

\* A job without a row has no audit rows either.
AbsentInv == \A j \in Job : KindOf[j] = "exec" /\ status[j] = "absent" => \A cause \in Cause : audits[j][cause] = 0

\* What AuditTrail and AbsentInv say of one job.
Story(j) ==
  /\ audits[j]["result"] <= 1
  /\ audits[j]["dispatch"] + audits[j]["disconnect"] + audits[j]["expiry"] <= 1
  /\ audits[j]["result"] = 1 => audits[j]["dispatch"] + audits[j]["disconnect"] = 0
  /\ Active(j) \/ status[j] = "absent" => \A cause \in Cause : audits[j][cause] = 0
  /\ status[j] \in ResultStates => \E cause \in Cause \ {"expiry"} : audits[j][cause] = 1
  /\ status[j] = "expired" => audits[j]["expiry"] = 1 /\ audits[j]["result"] = 0

LEMMA StoryIsTrail == AuditTrail /\ AbsentInv <=> \A j \in Job : KindOf[j] = "exec" => Story(j)
BY DEF AuditTrail, AbsentInv, Story

\* The story of a job whose row and audit rows stay, or whose row is inserted or deleted.
LEMMA StoryKept ==
  ASSUME NEW j \in Job, FlowTypeOK, Story(j), UNCHANGED audits,
         \/ status'[j] = status[j]
         \/ status'[j] = "purged"
         \/ status[j] = "absent" /\ status'[j] \in ActiveStates
         \/ Active(j) /\ status'[j] \in ActiveStates
  PROVE  Story(j)'
BY StatusSets DEF Story, Active

\* A statement that ends a job, and the audit row that follows it.
LEMMA StoryEnds ==
  ASSUME NEW j \in Job, FlowTypeOK, Story(j), NEW cause \in Cause,
         audits' = [audits EXCEPT ![j][cause] = @ + 1],
         \/ /\ status[j] \in ActiveStates \cup {"expired"} /\ status'[j] \in ResultStates
            /\ cause = "result"
         \/ Active(j) /\ status'[j] = "failed" /\ cause \in {"dispatch", "disconnect"}
         \/ Active(j) /\ status'[j] = "expired" /\ cause = "expiry"
  PROVE  Story(j)'
<1> USE DEF Story, Cause
<1>1. audits \in [Job -> [Cause -> Nat]]
  BY DEF FlowTypeOK
<1>2. \A x \in Cause : audits'[j][x] = (IF x = cause THEN audits[j][x] + 1 ELSE audits[j][x]) /\ audits[j][x] \in Nat
  BY <1>1
<1>3. CASE cause = "result" /\ status[j] \in ActiveStates \cup {"expired"} /\ status'[j] \in ResultStates
  BY <1>2, <1>3, StatusSets DEF Active
<1>4. CASE Active(j) /\ status'[j] = "failed" /\ cause \in {"dispatch", "disconnect"}
  BY <1>2, <1>4, StatusSets DEF Active, ResultStates, ActiveStates
<1>5. CASE Active(j) /\ status'[j] = "expired" /\ cause = "expiry"
  BY <1>2, <1>5, StatusSets DEF Active
<1> QED BY <1>3, <1>4, <1>5, StatusSets

LEMMA NextStory ==
  ASSUME FlowTypeOK, KindInv, IndexesHold, [FlowNext]_vars, NEW j \in Job, KindOf[j] = "exec", Story(j)
  PROVE  Story(j)'
<1> USE DEF FlowTypeOK, TypeOK
<1>1. ASSUME UNCHANGED status, UNCHANGED audits PROVE Story(j)'
  BY <1>1, StoryKept
<1>2. ASSUME PurgeExpired, UNCHANGED audits PROVE Story(j)'
  BY <1>2, StoryKept DEF PurgeExpired
<1>3. ASSUME NEW k \in Job, NEW cause \in {"dispatch", "disconnect"}, FailAudited(k, cause) PROVE Story(j)'
  <2>1. CASE UNCHANGED <<jobsVars, audits>>
    BY <1>1, <2>1 DEF jobsVars
  <2>2. CASE FailJob(k) /\ Audit(k, cause) /\ k = j
    <3>1. Active(j) /\ status'[j] = "failed"
      BY <2>2 DEF FailJob, Move, Active
    <3> QED BY <2>2, <3>1, StoryEnds DEF Audit, Cause
  <2>3. CASE FailJob(k) /\ Audit(k, cause) /\ k # j
    <3>1. status'[j] = status[j] /\ audits'[j] = audits[j]
      BY <2>3 DEF FailJob, Move, Audit
    <3> QED BY <3>1 DEF Story, Active
  <2> QED BY <1>3, <2>1, <2>2, <2>3 DEF FailAudited
<1>4. ASSUME NEW k \in Job, RequestStep(k) PROVE Story(j)'
  <2>RequestCheck. CASE RequestCheck(k) \/ RequestPurge(k)
    BY <1>1, <1>2, <2>RequestCheck DEF RequestCheck, RequestPurge, PurgeFirst, jobsVars
  <2>RequestSettle. CASE RequestSettle(k) \/ RequestCall(k) \/ RequestAnswer(k)
    BY <1>1, <2>RequestSettle DEF RequestSettle, RequestCall, RequestAnswer, rowVars, jobsVars
  <2>RequestCreate. CASE RequestCreate(k)
    <3>1. UNCHANGED audits
      BY <2>RequestCreate DEF RequestCreate
    <3>2. UNCHANGED status \/ (status[k] = "absent" /\ status' = [status EXCEPT ![k] = "queued"])
      BY <2>RequestCreate DEF RequestCreate, InsertExecJob, InsertAgentUpdateJob, Insert, jobsVars
    <3> QED BY <3>1, <3>2, StoryKept DEF ActiveStates
  <2>RequestFail. CASE RequestFail(k)
    BY <1>3, <2>RequestFail DEF RequestFail
  <2> QED BY <1>4, <2>RequestCheck, <2>RequestSettle, <2>RequestCreate, <2>RequestFail DEF RequestStep
<1>5. ASSUME NEW k \in Job, SubmitStep(k) PROVE Story(j)'
  <2>1. CASE SubmitCheck(k) \/ SubmitSend(k)
    BY <1>1, <2>1 DEF SubmitCheck, SubmitSend, jobsVars
  <2>2. CASE SubmitMark(k)
    <3>1. UNCHANGED audits
      BY <2>2 DEF SubmitMark
    <3>2. \/ UNCHANGED status
          \/ status[k] = "queued" /\ status' = [status EXCEPT ![k] = "running"]
      BY <2>2 DEF SubmitMark, MarkRunning, Move, jobsVars
    <3> QED BY <3>1, <3>2, StoryKept DEF ActiveStates, Active
  <2>3. CASE SubmitFail(k)
    BY <1>3, <2>3 DEF SubmitFail
  <2> QED BY <1>5, <2>1, <2>2, <2>3 DEF SubmitStep
<1>6. ASSUME NEW c \in Conn, CleanupStep(c) PROVE Story(j)'
  BY <1>1, <1>3, <1>6 DEF CleanupStep, CleanupSelect, CleanupFail, jobsVars
<1>7. ASSUME NEW k \in results, NEW result \in ResultStates, ResultWrite(k, result) PROVE Story(j)'
  <2>1. CASE UNCHANGED <<jobsVars, audits>>
    BY <1>1, <2>1 DEF jobsVars
  <2>2. CASE FinishExecOrUpdate(k, result) /\ Audit(k, "result") /\ k = j
    <3>1. status[j] \in ActiveStates \cup {"expired"} /\ status'[j] = result
      BY <2>2 DEF FinishExecOrUpdate, Move, ActiveStates
    <3> QED BY <2>2, <3>1, StoryEnds DEF Audit, Cause
  <2>3. CASE FinishExecOrUpdate(k, result) /\ Audit(k, "result") /\ k # j
    <3>1. status'[j] = status[j] /\ audits'[j] = audits[j]
      BY <2>3 DEF FinishExecOrUpdate, Move, Audit
    <3> QED BY <3>1 DEF Story, Active
  <2> QED BY <1>7, <2>1, <2>2, <2>3 DEF ResultWrite
<1>8. ASSUME NEW r \in seen, Settle(r) PROVE Story(j)'
  <2>1. CASE SkipSeen(r) /\ UNCHANGED audits
    BY <1>1, <2>1 DEF SkipSeen, rowVars
  <2>2. CASE SettleExpired(r) /\ Audit(r.job, "expiry") /\ r.job = j
    <3>1. Active(j) /\ status'[j] = "expired"
      BY <2>2 DEF SettleExpired, Move, Active
    <3> QED BY <2>2, <3>1, StoryEnds DEF Audit, Cause
  <2>3. CASE SettleExpired(r) /\ Audit(r.job, "expiry") /\ r.job # j
    <3>1. status'[j] = status[j] /\ audits'[j] = audits[j]
      BY <2>3 DEF SettleExpired, Move, Audit
    <3> QED BY <3>1 DEF Story, Active
  <2> QED BY <1>8, <2>1, <2>2, <2>3 DEF Settle
<1>9. CASE FlowTick \/ Purge \/ (\E k \in Job : SweepSelect(k))
  BY <1>1, <1>2, <1>9 DEF FlowTick, Tick, Purge, SweepSelect, SelectOverdue, rowVars
<1>10. CASE Connect \/ Disconnect \/ (\E t \in tasks : AgentAnswer(t)) \/ UNCHANGED vars
  BY <1>1, <1>10 DEF Connect, Disconnect, AgentAnswer, vars, jobsVars
<1> QED BY <1>4, <1>5, <1>6, <1>7, <1>8, <1>9, <1>10 DEF FlowNext

\* Dispatch, disconnect, expiry and result race for the end of a job; the audit log
\* tells it once, and as it was.
THEOREM AuditIsTrue == FlowSpec => []AuditTrail
<1>1. FlowInit => AuditTrail /\ AbsentInv
  <2>1. ASSUME FlowInit, NEW j \in Job PROVE Story(j)
    BY <2>1 DEF FlowInit, JobsInit, Story, Cause, ActiveStates, ResultStates
  <2> QED BY <2>1, StoryIsTrail
<1>2. ASSUME FlowTypeOK, KindInv, IndexesHold, AuditTrail, AbsentInv, [FlowNext]_vars
      PROVE  AuditTrail' /\ AbsentInv'
  <2>1. \A j \in Job : KindOf[j] = "exec" => Story(j)'
    BY <1>2, StoryIsTrail, NextStory
  <2> QED BY <2>1 DEF AuditTrail, AbsentInv, Story
<1> QED BY <1>1, <1>2, FlowTypeInductive, PTL DEF FlowSpec
--------------------------------------------------------------------------------
(* The cleanup of a closed connection.                                         *)

\* A closed connection does not come back, and its cleanup has begun.
LinkInv == /\ conn \in {0, epoch}
           /\ \A c \in Conn : cleanup[c] # "none" => c <= epoch /\ c # conn

\* What is still open of a closed connection is what its cleanup has yet to fail.
BatchInv ==
  \A c \in Conn : cleanup[c] = "fail" => \A j \in Job : SentOn(j) = c /\ Active(j) => j \in batch[c]

LEMMA NextLink == FlowTypeOK /\ LinkInv /\ [FlowNext]_vars => LinkInv'
<1> SUFFICES ASSUME FlowTypeOK, LinkInv, [FlowNext]_vars PROVE LinkInv'
  OBVIOUS
<1> USE ConnAssumption DEF FlowTypeOK, LinkInv, Conn
<1>1. CASE Connect
  BY <1>1 DEF Connect
<1>2. CASE Disconnect
  BY <1>2 DEF Disconnect
<1>3. CASE \E c \in Conn : CleanupStep(c)
  BY <1>3 DEF CleanupStep, CleanupSelect, CleanupFail
<1>4. CASE UNCHANGED <<conn, epoch, cleanup>>
  BY <1>4
<1> QED BY <1>1, <1>2, <1>3, <1>4 DEF FlowNext, FlowTick, Purge, SweepSelect, AgentAnswer, ResultWrite, Settle,
      RequestStep, RequestCheck, RequestPurge, RequestSettle, RequestCreate, RequestCall, RequestAnswer,
      RequestFail, SubmitStep, SubmitCheck, SubmitMark, SubmitSend, SubmitFail, connVars, vars

LEMMA NextBatch ==
  FlowTypeOK /\ TargetInv /\ KindInv /\ IndexesHold /\ RequestInv /\ LinkInv /\ BatchInv /\ [FlowNext]_vars
    => BatchInv'
<1> SUFFICES ASSUME FlowTypeOK, TargetInv, KindInv, IndexesHold, RequestInv, LinkInv, BatchInv, [FlowNext]_vars,
                    NEW c \in Conn, cleanup'[c] = "fail", NEW j \in Job, SentOn(j)' = c, Active(j)'
             PROVE  j \in batch'[c]
  BY DEF BatchInv
<1> USE DEF FlowTypeOK
<1>0. c # 0
  BY DEF Conn
<1>1. ASSUME SentOn(j) = c, UNCHANGED <<cleanup, batch>> PROVE j \in batch'[c]
  <2>1. status[j] # "absent"
    BY <1>0, <1>1 DEF SentOn, RequestInv
  <2> QED BY <1>1, <2>1, FlowStep, NoneRevives DEF BatchInv
<1>2. CASE UNCHANGED <<submit, target, cleanup, batch>>
  BY <1>1, <1>2 DEF SentOn
<1>3. ASSUME NEW k \in Job, RequestStep(k) PROVE j \in batch'[c]
  <2>1. SentOn(j) = c
    BY <1>0, <1>3 DEF SentOn, RequestStep, RequestCheck, RequestPurge, RequestSettle, RequestCreate, RequestCall,
       RequestAnswer, RequestFail, SubmitAt
  <2> QED BY <1>1, <1>3, <2>1 DEF RequestStep, RequestCheck, RequestPurge, RequestSettle, RequestCreate,
      RequestCall, RequestAnswer, RequestFail, connVars
<1>4. ASSUME NEW k \in Job, SubmitStep(k) PROVE j \in batch'[c]
  <2>1. UNCHANGED <<conn, epoch, cleanup, batch>>
    BY <1>4 DEF SubmitStep, SubmitCheck, SubmitMark, SubmitSend, SubmitFail, connVars
  <2>2. CASE SubmitSend(k) /\ k = j
    <3>1. conn = c
      BY <2>2 DEF SubmitSend, SubmitAt, SentOn
    <3> QED BY <2>1, <3>1 DEF LinkInv
  <2>3. CASE ~ (SubmitSend(k) /\ k = j)
    <3>1. SentOn(j) = c
      BY <1>0, <1>4, <2>3 DEF SentOn, SubmitStep, SubmitCheck, SubmitMark, SubmitSend, SubmitFail, SubmitAt
    <3> QED BY <1>1, <2>1, <3>1
  <2> QED BY <2>2, <2>3
<1>5. ASSUME NEW d \in Conn, CleanupSelect(d) PROVE j \in batch'[c]
  <2>1. UNCHANGED <<submit, target, status>>
    BY <1>5 DEF CleanupSelect, flowVars, jobsVars
  <2>2. CASE d = c
    <3>1. KindOf[j] # "upload" /\ Active(j)
      BY <1>0, <2>1 DEF SentOn, RequestInv, Active
    <3>2. KindOf[j] \in {"exec", "agent_update"} /\ status[j] \in {"queued", "running"}
      BY <3>1, KindAssumption DEF KindInv, ActiveOf, Kind
    <3> QED BY <1>5, <2>2, <3>2 DEF CleanupSelect
  <2>3. CASE d # c
    BY <1>5, <2>1, <2>3 DEF CleanupSelect, BatchInv, SentOn, Active
  <2> QED BY <2>2, <2>3
<1>6. ASSUME NEW d \in Conn, NEW k \in Job, CleanupFail(d, k) PROVE j \in batch'[c]
  <2>1. SentOn(j) = c /\ UNCHANGED cleanup
    BY <1>6 DEF CleanupFail, SentOn, flowVars
  <2>2. status[j] # "absent"
    BY <1>0, <2>1 DEF SentOn, RequestInv
  <2>3. j \in batch[c]
    BY <2>1, <2>2, FlowStep, NoneRevives DEF BatchInv
  <2>4. k # j
    BY <1>6, StatusSets DEF CleanupFail, FailAudited, FailJob, Move, Active, TypeOK, jobsVars, ResultStates
  <2> QED BY <1>6, <2>3, <2>4 DEF CleanupFail
<1>7. CASE Disconnect
  <2>1. UNCHANGED <<submit, target, batch>> /\ cleanup[c] = "fail"
    BY <1>7 DEF Disconnect, flowVars
  <2>2. SentOn(j) = c
    BY <2>1 DEF SentOn
  <2>3. status[j] # "absent"
    BY <1>0, <2>2 DEF SentOn, RequestInv
  <2> QED BY <2>1, <2>2, <2>3, FlowStep, NoneRevives DEF BatchInv
<1> QED BY <1>2, <1>3, <1>4, <1>5, <1>6, <1>7 DEF FlowNext, FlowTick, Purge, Connect, SweepSelect, CleanupStep,
      AgentAnswer, ResultWrite, Settle, connVars, flowVars, vars

\* When the cleanup of a connection is through nothing that was sent on it stays open,
\* wherever the handler of the job was when the connection went away.
THEOREM DisconnectSettles == FlowSpec => []DisconnectConverges
<1>1. FlowInit => LinkInv /\ BatchInv
  BY DEF FlowInit, LinkInv, BatchInv
<1>2. BatchInv => DisconnectConverges
  BY DEF BatchInv, DisconnectConverges
<1> QED BY <1>1, <1>2, NextLink, NextBatch, FlowTypeInductive, RequestIsInvariant, PTL DEF FlowSpec
================================================================================
