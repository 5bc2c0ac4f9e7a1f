----------------------------- MODULE ReportIntake -----------------------------
(***************************************************************************)
(* What becomes of the reports of one server: handleReport (report.js) in  *)
(* the TerminalDO shard of the server, with its cache of the server's row  *)
(* and its queue of frames, the row in D1, which an administrator edits or *)
(* deletes meanwhile (routes.js), and the rows of the server in MetricsDO. *)
(*                                                                         *)
(* Every await of handleReport is a step boundary, and the handlers of two *)
(* messages overlap.  The caches the Worker clears are those of its own    *)
(* isolate, in which no report is handled: they do not appear here.  Of    *)
(* the probes only the projection that is compared is kept, and "none" for *)
(* the empty list; a null, which changes nothing, is left out, as are      *)
(* last_seen and the custom metrics, which are written and never read      *)
(* back.  Ids are not used again, so a deleted server stays deleted.       *)
(*                                                                         *)
(* Operators marked "Defect:" are no part of the model, see OperationJobs. *)
(***************************************************************************)
EXTENDS Naturals, FiniteSets

CONSTANTS
  Handlers,  \* bound: messages handled at a time
  Report,    \* what the agent may have to report: probes and info
  First,     \* what it has reported before
  Override,  \* alert_override
  NoOverride,
  Scopes,    \* bound: the sets of reports and of overrides one behaviour may see
  Ttl        \* SERVER_ROW_TTL_MS

ASSUME IntakeAssumption ==
  /\ Handlers # {} /\ First \in Report /\ NoOverride \in Override
  /\ Scopes \subseteq [reports : SUBSET Report, overrides : SUBSET Override]
  /\ First.probes = "none" /\ Ttl \in Nat \ {0}

VARIABLES
  scope,      \* not in the code: the scope of the behaviour
  row,        \* the row in D1, unless it is deleted
  deletion,   \* program counter of deleteServerCascade
  reported,   \* what the agent has to report
  connected,  \* its control connection is open
  cache,      \* serverRowCache, with the ticks since ts
  handler,    \* handleReport, as often as it runs
  batch,      \* the last frame in reportBatch or sent to MetricsDO: its alertOverride
  hot,        \* MetricsDO holds rows of the server
  overtaken   \* history: frames could still be on their way to MetricsDO after /drop

intakeVars == <<scope, row, deletion, reported, connected, cache, handler,
                batch, hot, overtaken>>

Row == [override : Override, probes : {r.probes : r \in Report}, info : {r.info : r \in Report}]
Cached == [row : Row, age : 0..Ttl]
\* handleReport before and after the row is known (row is const server), and at the end,
\* when only the frame is left to queue.
Handling ==
  [pc : {"read"}, report : Report]
    \cup [pc : {"probes", "probesWritten", "info", "infoWritten"}, report : Report, row : Row]
    \cup [pc : {"queue"}, override : Override]
AtMostOne(S) == {{}} \cup {{x} : x \in S}

IntakeTypeOK ==
  /\ scope \in Scopes
  /\ row \in AtMostOne(Row)
  /\ deletion \in {"none", "rowless", "dropped", "done"}
  /\ reported \in Report
  /\ connected \in BOOLEAN
  /\ cache \in AtMostOne(Cached)
  /\ handler \in [Handlers -> AtMostOne(Handling)]
  /\ batch \in AtMostOne(Override)
  /\ hot \in BOOLEAN
  /\ overtaken \in BOOLEAN

IntakeInit ==
  /\ scope \in Scopes
  /\ row = {[override |-> NoOverride, probes |-> First.probes, info |-> First.info]}
  /\ deletion = "none"
  /\ reported = First
  /\ connected = (scope.reports # {})
  /\ cache = {}
  /\ handler = [h \in Handlers |-> {}]
  /\ batch = {}
  /\ hot = TRUE
  /\ overtaken = FALSE

d1Vars == <<scope, row>>
adminVars == <<deletion, overtaken>>
agentVars == <<reported, connected>>
metricsVars == <<batch, hot>>

--------------------------------------------------------------------------------
(* The agent and its shard.                                                    *)

\* Results of probes and system information change when they like.
Changes == /\ reported' \in scope.reports
           /\ UNCHANGED <<d1Vars, adminVars, connected, cache, handler, metricsVars>>

Handles(h, pc) == {x \in handler[h] : x.pc = pc}
Becomes(h, x) == handler' = [handler EXCEPT ![h] = {x}]
Ends(h) == handler' = [handler EXCEPT ![h] = {}]

\* What handleReport awaits next: the UPDATE of info_json, or that of last_seen.
AfterProbes(rep, r) ==
  IF rep.info # r.info THEN [pc |-> "info", report |-> rep, row |-> r]
                       ELSE [pc |-> "queue", override |-> r.override]

\* Defect: an empty list counts as no list.
NonEmptyChanged(rep, r) == rep.probes \notin {"none", r.probes}

ProbesChanged(rep, r) == rep.probes # r.probes

AfterRow(rep, r) == IF ProbesChanged(rep, r)
                    THEN [pc |-> "probes", report |-> rep, row |-> r]
                    ELSE AfterProbes(rep, r)

Fresh == {c \in cache : c.age < Ttl}

\* Defect: every use makes the entry young again.
UseAgain(c) == cache' = {[c EXCEPT !.age = 0]}

Use(c) == UNCHANGED cache

\* getServerRow finds the row in the cache or asks D1.
Arrives(h) ==
  /\ connected /\ handler[h] = {}
  /\ \/ /\ Fresh = {}
        /\ Becomes(h, [pc |-> "read", report |-> reported])
        /\ UNCHANGED cache
     \/ \E c \in Fresh : Becomes(h, AfterRow(reported, c.row)) /\ Use(c)
  /\ UNCHANGED <<d1Vars, adminVars, agentVars, metricsVars>>

\* Defect: the frame of a server that is gone is taken all the same.
IsTaken(h) == Becomes(h, [pc |-> "queue", override |-> NoOverride])

IsDropped(h) == Ends(h)

\* A row that is not there is not cached.
Reads(h) ==
  /\ \E x \in Handles(h, "read") :
       \/ \E r \in row : cache' = {[row |-> r, age |-> 0]} /\ Becomes(h, AfterRow(x.report, r))
       \/ row = {} /\ IsDropped(h) /\ UNCHANGED cache
  /\ UNCHANGED <<d1Vars, adminVars, agentVars, metricsVars>>

\* The UPDATE of probe_json, of a row that may be gone by now.
WritesProbes(h) ==
  /\ \E x \in Handles(h, "probes") :
       /\ row' = {[r EXCEPT !.probes = x.report.probes] : r \in row}
       /\ Becomes(h, [x EXCEPT !.pc = "probesWritten"])
  /\ UNCHANGED <<scope, adminVars, agentVars, cache, metricsVars>>

\* { ...server, probe_json, ts }: server is the row as it was when the frame came.
CachesProbes(h) ==
  /\ \E x \in Handles(h, "probesWritten") :
       /\ cache' = {[row |-> [x.row EXCEPT !.probes = x.report.probes], age |-> 0]}
       /\ Becomes(h, AfterProbes(x.report, x.row))
  /\ UNCHANGED <<d1Vars, adminVars, agentVars, metricsVars>>

WritesInfo(h) ==
  /\ \E x \in Handles(h, "info") :
       /\ row' = {[r EXCEPT !.info = x.report.info] : r \in row}
       /\ Becomes(h, [x EXCEPT !.pc = "infoWritten"])
  /\ UNCHANGED <<scope, adminVars, agentVars, cache, metricsVars>>

\* Here too, and with it the probes of the cached row go back to what they were.
CachesInfo(h) ==
  /\ \E x \in Handles(h, "infoWritten") :
       /\ cache' = {[row |-> [x.row EXCEPT !.info = x.report.info], age |-> 0]}
       /\ Becomes(h, [pc |-> "queue", override |-> x.row.override])
  /\ UNCHANGED <<d1Vars, adminVars, agentVars, metricsVars>>

\* The frame takes the place of the one queued.  The flush with this frame or with one
\* of another server, later, is no step: a frame sent and not answered is in batch too.
Queues(h) ==
  /\ \E x \in Handles(h, "queue") : batch' = {x.override}
  /\ Ends(h)
  /\ UNCHANGED <<d1Vars, adminVars, agentVars, cache, hot>>

Steps(h) == Reads(h) \/ WritesProbes(h) \/ CachesProbes(h) \/ WritesInfo(h) \/ CachesInfo(h)

\* The shard leaves memory, or the D1 statement of a handler throws.
Evicted ==
  /\ cache' = {} /\ batch' \in {{}, batch}
  /\ handler' = [h \in Handlers |-> {}]
  /\ UNCHANGED <<d1Vars, adminVars, agentVars, hot>>

Throws(h) ==
  /\ handler[h] # {}
  /\ Ends(h)
  /\ UNCHANGED <<d1Vars, adminVars, agentVars, cache, metricsVars>>

--------------------------------------------------------------------------------
(* MetricsDO and the administrator.                                            *)

\* processReportFrame.
Received ==
  /\ batch # {}
  /\ hot' = TRUE /\ batch' = {}
  /\ UNCHANGED <<d1Vars, adminVars, agentVars, cache, handler>>

\* The batch runs into FWD_TIMEOUT_MS and is not sent again.
TimesOut ==
  /\ batch # {} /\ batch' = {}
  /\ UNCHANGED <<d1Vars, adminVars, agentVars, cache, handler, hot>>

\* PATCH /api/servers/:id and the tool update_server.  One that is not about the
\* override writes the override it has read, which may be an older one.
Edits ==
  /\ \E r \in row, o \in scope.overrides : row' = {[r EXCEPT !.override = o]}
  /\ UNCHANGED <<scope, adminVars, agentVars, cache, handler, metricsVars>>

\* deleteServerCascade: the batch on D1.
DeletesRow ==
  /\ deletion = "none"
  /\ row' = {} /\ deletion' = "rowless"
  /\ UNCHANGED <<scope, overtaken, agentVars, cache, handler, metricsVars>>

\* Frames may still reach MetricsDO: there are some under way, or the shard takes
\* more of them for those of a server.
Coming == \/ batch # {} \/ \E h \in Handlers : handler[h] # {}
          \/ connected /\ Fresh # {}

\* /drop, which may fail.
Drops ==
  /\ deletion = "rowless"
  /\ deletion' = "dropped"
  /\ \/ hot' = FALSE /\ overtaken' = Coming
     \/ overtaken' = TRUE /\ UNCHANGED hot
  /\ UNCHANGED <<d1Vars, agentVars, cache, handler, batch>>

\* /rpc/drop_server, which may fail, or find the handshake of the agent under way.
Disconnects ==
  /\ deletion = "dropped"
  /\ deletion' = "done"
  /\ connected' \in {FALSE, connected}
  /\ UNCHANGED <<d1Vars, overtaken, reported, cache, handler, metricsVars>>

--------------------------------------------------------------------------------

Tick ==
  /\ cache' = {[c EXCEPT !.age = IF @ < Ttl THEN @ + 1 ELSE @] : c \in cache}
  /\ cache' # cache
  /\ UNCHANGED <<d1Vars, adminVars, agentVars, handler, metricsVars>>

IntakeNext ==
  \/ Changes
  \/ \E h \in Handlers : Arrives(h) \/ Steps(h) \/ Queues(h) \/ Throws(h)
  \/ Evicted
  \/ Received \/ TimesOut
  \/ Edits \/ DeletesRow \/ Drops \/ Disconnects
  \/ Tick

IntakeSpec == IntakeInit /\ [][IntakeNext]_intakeVars

\* The agent goes on reporting and handlers go on; of the batches some get through.
\* Nothing is fair about edits, deletions, evictions and errors.
IntakeFairness ==
  /\ \A h \in Handlers :
       WF_intakeVars(Arrives(h)) /\ WF_intakeVars(Steps(h)) /\ WF_intakeVars(Queues(h))
  /\ WF_intakeVars(Tick) /\ SF_intakeVars(Received)

FairIntakeSpec == IntakeSpec /\ IntakeFairness

--------------------------------------------------------------------------------
(* Properties.                                                                 *)

Disturbs == Changes \/ Edits \/ Evicted \/ \E h \in Handlers : Throws(h)
Calm == <>[][~Disturbs]_intakeVars
Reports == row # {} /\ connected

\* However edits, cached rows and overlapping frames crossed, the thresholds MetricsDO
\* judges by are at last those the administrator set: the row the shard has cached is
\* not kept for ever by the frames that use it.
OverrideArrives == Calm => (<>[](Reports) => <>[](batch \subseteq {r.override : r \in row}))

\* The results D1 shows are at last those the agent reports, the report that there
\* are no probes any more included: no badge is left behind.
ProbesConverge == Calm => (<>[](Reports) => <>[](\A r \in row : r.probes = reported.probes))

\* When no frame was on its way as MetricsDO dropped the rows of a deleted server,
\* none brings them back.
DropIsFinal == (deletion = "done" /\ hot) => overtaken
================================================================================
