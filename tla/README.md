# TLA+ models of cf-panel

cf-panel is a server-monitoring and remote-operations panel on Cloudflare: a Worker
(REST, MCP, cron), three kinds of Durable Objects, a D1 database, an R2 bucket, a Rust
agent on every managed machine and a page in the browser.  This directory holds TLA+ models
of what keeps state in it and is touched by more than one party, the TLC instances that
check them, and TLAPS proofs of every invariant the runs check.

Paths below are relative to the repository.

## 1. Inventory

| Component | State it keeps | Operations | Interacts with |
| --- | --- | --- | --- |
| `operation_jobs` (`src/jobs.js`, `schema.sql`) | one row per job: kind, status, deadline, expiry, R2 key; three partial unique indexes | create, conditional status updates, requeue, expiry sweeps, retention | every writer below, each statement atomic, nothing atomic across two |
| Upload jobs (`routes.js`, `do-terminal.js`, `index.js`) | the row, the staged R2 object, an agent's temporary file | content request, submit RPC, redelivery, download, receipt, cron | Worker, TerminalDO, agent, R2, D1 |
| Exec and agent-update jobs (`routes.js`, `do-terminal.js`) | the row, the audit log, the in-memory `updating` map | dispatch, submit RPC, result, disconnect convergence | Worker, TerminalDO, agent, D1 |
| TerminalDO (`do-terminal.js`) | control connections (`agents`, attachments, round trips), sessions in memory and storage, one alarm | connect, supersede, rebuild after hibernation, probe, attach, forward, re-check, sweep, revoke, drop | agent, browsers, PanelDO, D1 |
| PanelDO (`do-panel.js`) | viewer sockets, `fastSince`, list cache with epoch, auth cache, one alarm | authenticate, sync, broadcast viewer changes, clear caches | browsers, TerminalDO shards, MetricsDO, D1 |
| MetricsDO (`do-metrics.js`) | minutes in memory and storage, archive watermark, day cursor and increments, alert states, latest values, `pushOn` | frame, archive, sweep, day flush, alert, push, query, drop | TerminalDO, PanelDO, D1, webhooks |
| Report ingestion (`report.js`) | cached server row, queue of frames | handle a report, stamp, write info and probes, send a batch | TerminalDO, D1, MetricsDO |
| REST, MCP, auth (`routes.js`, `auth.js`, `db.js`, `utils.js`) | rows of servers and tokens; module-level caches | requests | D1, all Durable Objects |
| Agent control loop (`agent/rust/src/main.rs`) | connection, bounded send queue, tasks in flight | connect, back off, report, dispatch frames | TerminalDO, Worker downloads |
| Agent fetch, update, sessions (`fetch.rs`, `update.rs`, `session.rs`, `blocking.rs`) | temporary files, the staged binary, ptys, a breaker | download, verify, replace; serve a session | control loop, operating system |
| Page (`public/api.js`, `app.js`, `utils.js`) | push session and idle guard, terminal tabs, a file window with a queue of uploads, a preview | connect, reconnect, rebuild, upload, download, edit, scroll | REST, PanelDO, TerminalDO, the agent's file session |
| Scripts, tests, the shell agent | - | - | - |

What is hard in it: every `await` gives way to other events, in the Worker, in a Durable
Object, in the page, and between them; a D1 statement is atomic and two are not; an object
may leave memory between any two events and an isolate die between any two awaits; a frame,
an answer or a `fetch` may be lost after it had its effect; deadlines race with results and
with each other's extensions; a connection is replaced while handlers still hold the old
one; one alarm serves several purposes; an answer does not always say what it answers.
`PROJECT.json` lists these hazards one by one, with the line where each one bites and the
property that watches it.

What makes each component correct:

* table: results are final, only an expiry is corrected, the unique indexes never raise
  anywhere but in INSERT, expiry comes after the deadline;
* uploads: the bytes are there as long as a job may be fetched and gone afterwards;
* commands: never sent twice for one idempotency key, audited exactly once, closed with
  their connection, not by another's;
* connections: one live connection per server, none of a revoked key, and a link that works
  is found to work;
* sessions: nobody acts on a verdict that is older than the interval of the checks, no
  socket outlives the alarm;
* PanelDO: agents settle on the interval the viewers call for; no stale list and no stale
  authority is served;
* MetricsDO: minutes reach the archive before they go and the history has no holes, its
  alarm goes on whatever fails, no second is booked twice, an alert gets through and is not
  repeated, a page that stays is shown what is reported;
* reports: an edit reaches those who judge by it, what is deleted stays deleted;
* page: an idle page stops watching and a visible one is connected; a tab is tended and no
  shell is left without one; what is called stored is stored; what is shown is the file.

## 2. Modules

| Module | What it is |
| --- | --- |
| `JobLifecycle` | the promise to whoever holds a job id: new, open, lapsed, resolved, forgotten; slots are exclusive |
| `OperationJobs` | the table and every statement on it; implements `JobLifecycle` |
| `UploadFlow` | `OperationJobs` + bucket + content request + submit RPC + connections and redelivery + agent + sweeps and cron |
| `ExecFlow` | `OperationJobs` + dispatch request + submit RPC + connections and cleanup + agent + sweeps + audit log |
| `ControlIndex` | TerminalDO: which connection is the agent's, keys and deletion, whether the link may be trusted |
| `SessionHub` | TerminalDO: terminal and file sessions, their sockets, storage, alarm and re-checks |
| `ReportIntake` | `report.js` in TerminalDO: cached row, overlapping frames, edits and deletion, the way to MetricsDO |
| `ViewerRates` | viewers of PanelDO, the broadcasts they cause, the interval TerminalDO keeps for an agent |
| `ServerListCache` | PanelDO: the server list, its cache, shared query, epoch, clears |
| `Panel` | `ViewerRates` + `ServerListCache`: lists are built while somebody watches |
| `ViewerAuth` | PanelDO: authentication of viewers, its cache, its alarm, tokens that change |
| `MetricsArchive` | MetricsDO: the minutes of a server, archived with frames and by the hourly sweep; the history put together from memory and D1 |
| `DayLedger` | MetricsDO: time online and offline, booked by frames and by the alarm |
| `MetricsAlerts` | MetricsDO: thresholds, probes, silence; webhooks and their failure |
| `Housekeeping` | MetricsDO: its alarm, the chores that are done with it, and who sets the next one |
| `LatestFeed` | MetricsDO and PanelDO: the latest values, `set_push`, their restoration after an eviction |
| `PushView` | page: `PushSession`, `IdleGuard`, login and visibility |
| `TermTab` | page: `TermSession` of one tab |
| `FileTransfer` | page and agent: uploads with their queue, downloads, the editor |
| `TailPreview` | page: the preview of a large file, loaded backwards |
| `OperationJobs_proofs`, `UploadFlow_proofs`, `ExecFlow_proofs` | theorems about the table and the handlers on it |
| `Server_proofs` | theorems about `ReportIntake` and `ControlIndex` |
| `Authority_proofs` | theorems about `SessionHub` and `ViewerAuth` |
| `Panel_proofs` | theorems about `ServerListCache` and `ViewerRates` |
| `Metrics_proofs` | theorems about `MetricsArchive`, `DayLedger` and `MetricsAlerts` |
| `Console_proofs` | theorems about `TermTab` and `FileTransfer` |
| `MCShared`, `MCUploadFlow`, `MCExecFlow`, `MCMetrics`, `MCAuthority`, `MCServer`, `MCConsole` | the TLC instances |

The MC modules other than those of the two flows put components side by side that share no
state; a variable says which of them moves in a behaviour (`place`, `part`, `subjects`,
`moving`), so their state spaces add up and do not multiply.  Where a component has scopes of its own (`scope`, `span`,
`about`, `subject`, `sending`), they do the same within it: each scope is a set of things
the environment may do in one behaviour, and the comment of the instance says why the
combinations left out bring nothing new.  What components do share is composed for real:
the flows extend the table, `Panel` ties the list to the viewers.

### OperationJobs

`status`, `deadline_at`, `expires_at` are the columns of the same name, with "absent"
before the INSERT and "purged" after the DELETE; `kind`, `server_id` and the
(user, idempotency key) pair never change and are constant functions of the job.  `now`
is `nowSec()`.  Each statement is an action named after the function that runs it, whose
guard is the WHERE clause.  `FinishExecOrUpdate` stands for `finishExecJob` and
`finishUpdateJob`, which differ only in payload columns.  The expiry paths read a row and
update it by id later: `seen` holds what was read and not yet updated (`settleExpired`
after `getJob`, and the SELECTs of `settleServerExpired` and `settleExpiredAll`).
`JobsNext` lets any statement run whenever it would change a row: every caller there is
or could be is included.

### UploadFlow

One server.  `content` and `submit` are the program counters of
`handleJobContentUpload` and `/rpc/upload/submit`, `resend[c]` that of
`resendWaitingUploads` on connection `c`; `conn` is `this.agents.get(server)`, `caps`
what `supportsFetch` finds in the attachment, `object` the bucket with upload times,
`dropping` the deletes that follow a settlement, `transfers` and `receipts` what is in
flight to and on the agent and back, `cron` the maintenance.  One action is the code
between two awaits.

`CapsAtConnect` is the one deviation: the code gives `{FALSE}` (see `upload_resend`),
which leaves the second half of the redelivery unreachable.  The `upload` run gives
`{TRUE, FALSE}`, a superset, so that the code after the capability test is checked too;
the two violation runs give `{FALSE}`.

### ExecFlow

`request` is `dispatchExecJob` (for commands) and `agentUpdateCore` (for updates),
`submit` the two submit RPCs, which have one shape; `cleanup[c]` is `cleanup` of the
closed connection `c`; `audits` counts the audit rows of a job by cause.  `misfired`
records jobs that a cleanup failed although they were sent on a later connection.  Creation
is the handler's: the purge, for updates the sweep of the server, the INSERT.
(`CreateUpload` is the INSERT alone: with one upload there is no other row for its purge and
sweep.)  That the connection is not trusted enough to send a command is a free refusal
here; when that is so is in `ControlIndex`.

### ControlIndex and SessionHub

`ControlIndex` follows a handshake (`Verify`, `Accept`), the registration with time stamps
(`Winners`), the rebuild after hibernation, inbound frames of a connection that is not
registered, `drop_server` after a key change or a deletion, probes and their answers, and
the test before a command is sent (`Trusted`).  A socket closed by the server stays
"closing" until its peer answers.  `keyOf` is "missed" for a connection whose handshake had
checked the key when `drop_server` ran, or when that call was lost: `RevokedIsOut` cannot
hold there, although `src/src/routes.js:829` says that the old key is invalid at once.

`SessionHub` has sockets with roles ("pending", "user", "agent") that survive the object,
the object's memory (`hub`), storage (`stored`) and the alarm.  A session is hydrated when
something asks for it, so what memory knows after an eviction depends on what came first.
A first frame that awaits D1 (`authing`) goes on when its socket is gone, and attaches it
nevertheless; a socket has a name of its own as long as an await or a session refers to it
(`New`).  A check of authority awaits the identity and, for a user who is no administrator,
the row of the server (`Phases`), and frames pass by it (`Passable`).  A file operation of the
browser (zip, rename, delete, the first block of a write) that has passed the tests awaits its
audit record (`auditing`) and goes on afterwards without another test, so the properties speak of what is
admitted (`Admitted`), and not of what is passed on.  A frame the object keeps for an agent
that has not connected yet counts as passed on.  `stray` marks sockets
no session knows of; a request that finds the object cold moves the alarm to the deadline
of the browser that authenticates.  Both are in the statement of `LifeIsLimited`.

### ReportIntake, LatestFeed

A handler is one run of `handleReport`; two overlap.  Its steps are those between awaits:
the row from the cache or from D1, the writes of info and of probes, which stamp the row
captured before, the queue.  `deletion` is `deleteServerCascade`: the row goes,
then MetricsDO is told to drop, and only then is the connection closed.  `overtaken` records that a frame
was possibly under way when MetricsDO dropped, which brings the server's rows back.

In `LatestFeed` one page stands for all.  A frame pushes the whole map when `pushOn` and the
push interval has passed; without `pushOn` MetricsDO asks at intervals.  `/latest` restores
the map from storage, up to `LATEST_BACKFILL_MAX` from rows of minutes, after an await.

### ViewerRates, ServerListCache, Panel, ViewerAuth

`socket[v]` is a browser connection, "leaving" while its `webSocketClose` waits for the
broadcast (the code counts sockets without the one that closes, so that one is still
listed); `broadcasts` are the `set_viewers` calls under way to the shard of the agent.
`conn`, `agentInterval` and `attached[c]` are `this.agents`, `this.agentInterval` and the
`interval` of the attachment; `asking[c]` is the `/viewers` call of the upgrade request
(`c` in `shaking`) or of a report.  `RebuildIndex` is hibernation and the first event after
it in one step, since nothing happens between.

`misled` and `inherited` are history.  The code offers no repair for what they record, so
`RateSettles` excludes exactly these; without any one of them TLC finds an agent that
stays at the wrong interval although everything is quiet and it keeps reporting:

| Marked in | What happens |
| --- | --- |
| `Authenticate` | a viewer comes while the close of the last one is being handled: two sockets are listed, no broadcast |
| `LoseBroadcast` | a `set_viewers` call fails or times out |
| `SetViewers` | a `set_viewers` overtakes an earlier one |
| `Conclude` | the answer of `/viewers` is applied after the broadcast that outdated it |
| `Conclude` | the upgrade request of a connection that was replaced sets the map entry of the other |
| `Report` | the last report of a replaced connection brings its interval back |
| `Connect` (`inherited`) | a replaced connection leaves its map entry, and the `/viewers` call of the new one fails |

The comment at `src/src/do-panel.js:216` counts on later reports for the second, but
`syncAgentInterval` returns as soon as the map has an entry.  Only the last one heals, when
the object hibernates.

In `ServerListCache` rows are versions, and a reader is a call of `buildList`.  A hit
changes nothing and is no action; an expired entry is dropped, since nothing else looks at
it.

In `ViewerAuth` a check that asks D1 is the question, the answer and what is done on it; an
answer is used within a tick.  `lapse` is how long ago a token stopped granting something,
`settled` what must no longer come out of the cache because it was cleared since and no
answer from before was on its way.  `untimed` are sockets whose `setAlarm` failed.

### MetricsArchive, DayLedger, MetricsAlerts, Housekeeping

A minute of `MetricsArchive` is in storage (`stored`), in memory, archived, or on its way in
a D1 batch (`batches` with the frames, `sweep` with the hourly one); `arc` and `arcCache`
are the watermark on disk and in memory.  An instance lives for as long as it likes.  The
increment of a frame reads storage only with the first frame of an instance, or again after
that failed: what it does not read is `unseen` in its batch, and once the watermark has passed it,
`overtaken` (history; see `metrics_passed` below).  A sweep is stamped with the time it began
(`lastSweep`).  `MonitorRows` is the history a request of so many
minutes gets; it is an expression over the state, since the two reads of a request lose
nothing to what happens between them.  `reported` is history: the minutes whose put
succeeded.

`DayLedger` books ticks, as bags, so that a tick booked twice shows.  `forgotten` and
`dropped` record increments lost with the object and in a failed batch: the code chooses
to rather lose than double, and the properties say where it may lose.

`MetricsAlerts` keeps time stamps as what remains of a cooldown, so it needs no bound.
`cut` records that a webhook went down with the object or a put failed, `crossed` that two
messages about a probe were under way together; the code corrects neither.  What an
instance has not loaded it lists once, and a list that fails leaves what is in memory, marked
as loaded (fault "list"): `early`, `unreadProbe` and `unreadHost` record that, each until the
next message or write that makes it good.

`Housekeeping` is `alarm()` and `scheduleArchive`.  Times are kept as what remains until
the alarm (`alarmAt` in storage, `alarmCached` in memory) or until the chore is due (`stamp`,
and `housekeep` in the row), so there is no bound on the clock.  One behaviour follows one of
the three chores, which share nothing but the alarm; what a chore does is in the other
modules.  Getting the configuration, the chore, the writing of the stamps and `setAlarm` may
each fail, and `checkOfflineAlerts` may end the run early.  `unset` is history: an instance's
last `setAlarm` failed and left no alarm.

### PushView, TermTab, FileTransfer, TailPreview

Timers are flags (`timers` a number, where the code may set several).  In `FileTransfer`
frames to the agent and to the page are two queues, the answers carry what the code's
frames carry and no more; `late`, `mixed` and `stranded` mark what the code cannot tell
apart or leaves behind.  `TailPreview` has positions for bytes: the text shown is a
sequence of blocks, and the properties speak about what they cover.

### What the models abstract

* A handler that dies, a request that is cancelled, a frame or an answer that is lost is
  a handler or message that never takes its next step, unless the model says otherwise.
* A D1 statement that throws ends its handler, which is the same, or is a branch of its own
  where the code catches.
* An R2 put is atomic; a failed put may or may not leave an object behind.
* Awaits of a Durable Object's own storage are not step boundaries (input gates); awaits of
  D1, of other objects and of `fetch` are.
* Audit rows are written with the UPDATE they follow (the INSERT is best effort).
* In the flows, a poll (`settleExpired` of a single row) settles like a sweep:
  `SweepSelect` covers it, since a poll that finds the row in time writes nothing.
* The `updating` map is left out: `isUpdating` consults D1 whatever the map holds.
* Refusals for reasons outside a model are free choices.
* Values of metrics, sizes, paths, stdout and error texts are left out.
* Of the page: the lengths of delays, zip downloads, size limits, dialogs other than
  the ones of the guard and of the uploads, `open()` under way in the file window.

## 3. Runs

| Run | Question | Result |
| --- | --- | --- |
| `shared` | the table, two of six jobs (two of each kind) on one server, all statements in any order: `ExpiredWasOverdue` and the refinement of `JobLifecycle`; PanelDO, two viewers, two connections of one agent, two readers, one write: `AnswersFollowClears`, `RateSettles` | holds |
| `upload` | one upload, two connections: `StagedObjectPresent`, `OnlyResendAbandons`, and `EveryObjectGoes` with the clock, the sweeps and the cron fair | holds |
| `upload_resend` | `ReconnectRedelivers` | violated |
| `upload_expiry` | `ExpiredOnlyWhenOverdue` | violated |
| `exec` | two requests out of two commands with one key and an update, two connections: `OncePerKey`, `AuditTrail`, `DisconnectConverges` | holds |
| `exec_disconnect` | `CleanupSparesNewConnection` | violated |
| `metrics` | the archive: `NoRowPassed`, `HistoryIsWhole`, `ArchivedAtLast`; the day ledger: `BookedOnce`, `AbsenceIsReal`, `NothingSkipped`; alerts: `NeverTwice`, `ToldAgrees`, `AlertGetsThrough`; the alarm: `ChoresGetDone` | holds |
| `metrics_passed` | `PassesNone` | violated |
| `authority` | sessions: `LifeIsLimited`, `VerdictHolds`, `AuthorityIsRecent`; viewers: `RevokedIsShownNothing`, `PendingIsTimed` | holds |
| `server` | reports: `OverrideArrives`, `ProbesConverge`, `DropIsFinal`; connections: `OneLiveConnection`, `RevokedIsOut`, `LinkRecovers`; the feed: `FeedResumes` | holds |
| `console` | the list: `IdleStopsViewing`, `VisibleIsLive`; a terminal: `TabIsTended`, `NoGhostShell`; files: `DoneIsStored`, `ReadIsWhole`, `BatchEnds`; a preview: `PreviewReachesStart` | holds |
| `preview_repeats` | `NothingTwice` | violated |

The five violations disagree with a comment or a document of the repository:

1. **`upload_resend`.**  The handshake stores an attachment without `caps` and runs
   `resendWaitingUploads` before the upgrade is answered; the agent's capabilities come
   with its first report.  So the redelivery finds every agent incapable and fails every
   waiting upload ("upgrade required"), leaving its object to the daily scan.  The design
   document promises delivery after reconnect.
2. **`upload_expiry`.**  A sweep reads an overdue upload that is not overdue any more
   when it is updated: `markUploadStaged` or `markUploadRunning` has extended the deadline
   in between, and the UPDATE tests the state only.
3. **`exec_disconnect`.**  `settleJobsOnDisconnect` selects by server, after awaits in
   which the agent may have reconnected and been sent a new command: that command is
   failed while it runs, which the comment above the call wants to avoid.
4. **`metrics_passed`.**  With no failure at all: an instance that has begun at the end of
   another one's life archives, an archive age later, the rows it has in memory, and moves
   the watermark past the rows of the other one, which are in storage only.  A sweep would have
   archived them if it had come when they were due and the later ones were not; as it comes
   once per archive age, some rows are due after it and passed before the next.  From then on
   the sweep looks above them, and they are deleted at the end of the window.  The comments
   (`src/src/do-metrics.js:261`, :285) know of the hole, give rows an increment leaves out to
   the sweep, and read storage with the first frame of an instance only.
5. **`preview_repeats`.**  `prependMore` asks for a whole chunk also when less is missing
   before the text shown; the agent sends it, and the page puts all of it before the text:
   the first lines shown are shown again.

Every run's instance also keeps its type invariants (`TypeOK`, `FlowTypeOK`,
`PanelTypeOK`, `ArchiveTypeOK`, `KeepingTypeOK`, `LedgerTypeOK`, `AlertsTypeOK`, `HubTypeOK`, `AuthTypeOK`,
`IntakeTypeOK`, `IndexTypeOK`, `FeedTypeOK`, `TermTypeOK`, `PreviewTypeOK`), and so does
`shared` `IndexesHold` and `CacheFollowsClears`; the cfgs list only what says more.

### Where the code falls short, without a run

Each of these showed as a counterexample while a property was being stated.  Where a
property makes an exception, the code's behaviour behind the exception is here.  Those with
a constant or definition in parentheses can be looked at by changing the cfg.

MetricsDO (`src/src/do-metrics.js`):

* :296  What `metrics_passed` shows takes an instance that lives for an archive age, as one
  does that reports keep in memory, or whose first frame is nearly that old; nothing else has to
  go wrong.  The rows passed (`overtaken`) are excepted from `NoRowPassed`, `HistoryIsWhole`
  and `ArchivedAtLast`: the history shows them while the window has them, and never again.
* :152, :163, :1047  A load that fails is not repeated: the instance goes on with what is in
  memory, as if nothing had been told.  Of a cooldown that costs one alert too many, as the
  comment there says (`early`).  Of a probe or a server, whose comments say only that the
  state counts as empty, it costs the recovery: the owner is left with "down" or
  "offline", the row stays in storage, and if the next instance loads it, that one tells
  (`unreadProbe`, `unreadHost`).
* :794  `METRICS_KEEP_MIN` may be set as low as the archive age.  Then the minute at exactly
  that age is deleted from the hot rows and not yet asked of D1, whose range ends before it
  (`Keep = ArchiveAfter`); and rows that memory trims before a sweep archived them are missing
  from the history until it did.  The window must hold the archive age, the time between sweeps and
  how long they may fail (`Roomy`): 4 = 2 + 2 + 0 in the cfg, and 3 violates `HistoryIsWhole`.
* :828  `alarmCached` is set whether `setAlarm` succeeded or not, and one that has passed
  still counts as in time (:824): after a failed `setAlarm` no frame sets an alarm
  until the object is evicted, although :821 says that `getAlarm` is asked once the cache has
  passed, and :1227 that reports bring it back (`unset`).
* :491  After an eviction the alarm may book an absence where the server reported:
  increments and cursor of before are gone (`NoPhantomAbsence`; `src/README.md:236`).
* :495  Between the alarm seeding a cursor and a report seeding it, a span may be booked
  twice, if `last_seen` cannot be read (`LedgerFaults` with "evict" and "seed"; `BookedOnce`
  fails; comment at :359; with "seed" alone it holds).
* :354  A cursor that cannot be read is replaced by `last_seen`.  That is older if the alarm
  has booked an absence meanwhile, which the next alarm then books again, where the comments
  (:371, :502) want rather too little than too much (`LedgerFaults = {"get"}`; `BookedOnce`
  fails).  It is newer if reports came in since, and `NothingSkipped` fails; with
  "evict" `AbsenceIsReal` fails too.
* A recovery and a new failure of a probe may be delivered in the wrong order (`crossed`);
  a webhook lost with the object leaves its state as if told (`cut`).
* :621 and `do-panel.js:327`  A lost `set_push` that turns pushing off leaves pushes to
  nobody on.
* :673  After an eviction `/latest` and a push carry what has been restored, and a push
  replaces everything the page shows.  `loadLatestFromHot` may put an older row over a
  frame that came during its await.

TerminalDO (`src/src/do-terminal.js`):

* :709  A session whose object left memory before it had a socket stays in storage until
  something asks for it (`NothingLeftBehind`; `src/README.md:516`).
* :354  The limit of sessions counts those in memory (`SessionLimit`; comment at :13).
  Both need `Faults = {"evict"}`, with which `LifeIsLimited` fails too.
* :1631  A check that D1 does not answer lets the frame through and is not repeated for an
  interval (`Faults` with "d1"; `AuthorityIsRecent` fails, and `VerdictHolds` after an
  eviction; comment at :1635).
* :1275, :1293  A file operation whose audit record D1 has not written yet has passed the tests
  (:1249) and is sent (:1299) without another, also if the check of another frame has
  revoked the session meanwhile.  `VerdictHolds` and `AuthorityIsRecent` say that no
  frame is admitted to that await, or passed on without it; they say nothing of its end.
* :1064  A browser that goes away while its first frame awaits D1 is attached after its
  close has been handled: the session counts against the limit until `SESSION_ABS_MS`
  or an eviction, also when the agent's side closes (`AuthAllowed` of a socket that is gone).
* `routes.js:829`  A handshake that has checked the old key outlives the rotation of it.

Reports (`src/src/report.js`, `routes.js`):

* `routes.js:901`, `report.js:21`  An edit clears the cached row of the Worker's isolate
  only; the shard's goes on for its time to live, and a write of probes or of info stamps
  the captured row again.  The write of info also brings back the captured probes.
* The deletion of a server drops its metrics before it closes its connection: a
  report in between brings rows back that nobody deletes (`overtaken`).

PanelDO (`src/src/do-panel.js`):

* An answer of D1 that was under way when `clear_auth_cache` came is cached for 30 s
  (`routes.js:1140`: revocation takes effect at once).
* A frame that arrives while the authentication of a PAT awaits D1 closes the socket.
* An alarm that is due and not delivered is replaced by the next deadline.

The page (`src/public/api.js`, `app.js`):

* `api.js:575`, `app.js:844`  The reconnection timer is not cancelled by `close()`: opened
  again meanwhile, the session has two sockets, of which one is never closed (`crossed`).
* A page shown again while the guard has paused it is connected and not guarded.
* A terminal that is rebuilding and whose new socket closes before it opens stays as it is;
  the close of an older socket that comes late takes the present one away (`outrun`), and
  `close()` during a request of `/api/terminal` leaves a session nobody uses.
* `api.js:207`  Answers to chunks of an upload that was given up count for the next
  (`late`); reads are matched by path only (`mixed`; comments at `api.js:266` and :378).
* An error answer to any command ends all transfers without aborting them on the agent; an
  empty file sends no chunk and blocks the queue; closing the window keeps the queue; an
  error "busy" fails the rest of a batch.
* A line longer than a chunk ends the loading of earlier text (`Readable`); so does a read
  that fails, as `previewLoading` stays set (`broken`); Monaco that loads late takes the
  text of before (`swapped`, `app.js:1729`); `close()` keeps `prependState`.

### Bounds

* `shared`, the table: properties relate at most two jobs; all pairs of kinds occur.  Windows are 1,
  the TTL 2 and the clock stops at 3: a job can be created, expire, be corrected, be
  purged and be succeeded by another in its slot.  At most two read rows wait for their
  UPDATE, enough for two stale copies of one row.
* `upload`: one job, since two are never active together (`shared`).  Two connections give
  one replacement and one redelivery; the clock (2) passes the windows (1) and the TTL
  (1).  The clock is bounded, so the last put must leave one TTL and a tick for the scan
  (`PutsInTime`): objects put later would only lack time.  The two violation runs have the
  larger clock (3) and TTL (2).
* `exec`: windows 0, so a job is overdue after one tick; TTL 1, so that a retry after the
  purge fits before the clock stops at 2.  Two requests: all three causes of a race (same
  key, update against command, old against new connection) involve two.  With two
  connections both requests are of one kind.  The last connection stays: closing it too
  repeats what closing the first does.
* One read row at a time waits in the flows; `shared` has two.
* `shared`, PanelDO: two viewers give every change of the count twice, with the overlap of the first
  viewer's end and the second one's start; two connections give one replacement, a late
  handshake and a late report (three were tried without the list: nothing new).  One write
  makes old and new rows; two readers give a shared query, and an old and a new query at a
  time.  States after a mishap are not explored further: `RateSettles` says nothing there,
  and the list does not depend on it.  Nor does the list depend on the agent, but on whether
  somebody watches: it moves with the viewers in one behaviour, the agent in another.
* `metrics`: a tick is half an hour.  As in the code, the archive age is the time between two
  sweeps (2); the window (4) is what `Roomy` asks for, and in five ticks rows are archived by
  frames, left behind by evictions, passed, swept and deleted (the code's window is four
  hours, 8; a longer one only deletes later).  Sweeps fail, but each succeeds within the tick it is
  due in (`MaxOverdue` 0).  The ledger has a gap of 1, an alarm every 2 and
  six ticks: three alarms, with an absence and its end between them.  Alerts need no clock;
  the backoff (1) is shorter than the cooldown (2).  The alarm needs no clock either: a tick
  is its interval, and periods of 2 and 3 ticks are longer than that, so that chores are due
  at some alarms and not at others; the idle interval (2) is longer than the normal one.
* `metrics_passed`: ticks of twenty minutes, archive age and time between sweeps 3, the
  window of the code (12, which is four hours and never reached in six ticks).
* `authority`: one stream and two sockets, so that a socket is replaced or one stays
  pending while the other is in use; the clock (4) is twice the longest life.  Where
  authority is lost it stops at 3, three times the interval of the checks; the server is
  deleted or the user restricted, not both (the verdict is the same).  One file operation
  awaits its audit record at a time: each goes on by itself, past what the others do.  Two
  sockets of one token give a shared cache entry, three steps of a check each, and one
  alarm for both.
* `server`: two overlapping handlers make every crossing of two writes; reports differ in
  both probes and info, or in probes while the override is edited.  Three connections make
  a replacement of a replacement, with key changes but without probes; two have probes.
  Two servers tell a partial map from a whole one, with one backfill at a time.
* `console`: three sockets or shells at a time: one current, one closing, one opening.
  Files of 0, 1 and 2 chunks in batches of one or two; three frames under way.  Previews
  of 7 bytes with chunks of 3 have three blocks, the last of them short, and all 128 ways to
  place newlines.

Deadlock is not checked: a finished story on a bounded clock, a closed tab or a deleted
server has no next step.

### Fairness

Nothing is assumed of users, administrators, evictions or failures, nor of clients that
may go away.

* `upload`: the clock, the expiry sweep (select and settle) and the two steps of the
  maintenance.  The hourly trigger (`scheduled` in `src/index.js`) runs all of them, and
  again an hour later when one run fails.
* `metrics`: time, the sweep that alarms begin
  (`ARCHIVE_INTERVAL_MS`); of the sweeps infinitely many succeed (strong), since D1
  does not fail for ever; webhooks end by their timeout, frames of a breach that lasts are
  checked, and of the webhooks some are received (strong).  An alarm that is due goes off
  and its handler goes on; some of the chores succeed and some of the frames find or set an
  alarm (strong): neither D1 nor storage fails for ever.
* `server`: an agent goes on reporting, handlers go on, the clock goes on and of the
  batches some arrive (strong); an agent answers probes, and a frame comes when a probe is
  due; `set_push` calls arrive or are lost; a frame comes now and then while a push is due
  (strong), as agents report at intervals of their own.
* `console`: timers fire, connections that are tried are answered one way or the other,
  frames get through or the connection ends, the user of `PreviewReachesStart` goes
  on scrolling up.

### Defects

Operators marked "Defect:" are versions of a definition with one plausible slip, kept
beside it to see that a property notices the slip:

| Operator | Slip | Noticed by |
| --- | --- | --- |
| `SettleUnchecked` | no deadline test | `ExpiredWasOverdue` |
| `FinishUploadAgain` | a second result overwrites | `ImplementsLifecycle` |
| `ContentRejectRowless` | object deleted, job left open | `StagedObjectPresent` |
| `SettleRowOnly` | expiry without delete | `OnlyResendAbandons` |
| `NoOrphans` | no orphan scan | `EveryObjectGoes` |
| `InsertAnyKey` | no unique index on the key | `OncePerKey` |
| `FinishFailedToo` | failed jobs accept results | `AuditTrail` |
| `CleanupSelectExec` | cleanup forgets updates | `DisconnectConverges` |
| `ClearCacheOnly` | the clear keeps `listInflight` | `AnswersFollowClears` |
| `RestoredStale` | an older socket's interval survives the rebuild | `RateSettles` |
| `SweepMoves` | a failed batch moves the watermark | `NoRowPassed` |
| `HotNow` | rows are not loaded before a query | `HistoryIsWhole` |
| `CandidatesInMemory` | the sweep takes what memory has | `ArchivedAtLast` |
| `MoveCursorNot` | the alarm leaves the cursor | `BookedOnce` |
| `TakePendingAnyway` | increments go out without their cursor | `AbsenceIsReal` |
| `MoveCursorToNow` | the cursor passes what was not booked | `NothingSkipped` |
| `LeavesToFrames` | the alarm sets no next one | `ChoresGetDone` |
| `RestNow` | the cooldown is not read back | `NeverTwice` |
| `CooldownAgain` | every frame begins the cooldown again | `AlertGetsThrough` |
| `UpUntold` | a recovery nobody received counts | `ToldAgrees` |
| `PressingUnused` | a session in use asks for no alarm | `LifeIsLimited` |
| `PassableUnmarked` | the mark of a revoked session is ignored | `VerdictHolds` |
| `PassableEver` | checked once is checked for ever | `AuthorityIsRecent` |
| `HitRenews` | a used cache entry is young again | `RevokedIsShownNothing` |
| `NoneLeft` | an alarm that fires sets no next one | `PendingIsTimed` |
| `UseAgain` | a used row is young again | `OverrideArrives` |
| `NonEmptyChanged` | an empty list of probes is no change | `ProbesConverge` |
| `IsTaken` | frames of a server that is gone are taken | `DropIsFinal` |
| `LastOf` | the socket listed last wins the rebuild | `OneLiveConnection` |
| `Forgets` | `drop_server` only forgets the connection | `RevokedIsOut` |
| `NeverCleared` | a capability is never taken back | `LinkRecovers` |
| `NeverDue` | MetricsDO never asks | `FeedResumes` |
| `Forgives` | an unanswered prompt only goes away | `IdleStopsViewing` |
| `TryOnce` | no attempt after a failed one | `VisibleIsLive` |
| `FailsForGood` | a failed request is the end | `TabIsTended` |
| `Regardless` | the close that rebuilding causes counts | `NoGhostShell` |
| `AnswersStay` | answers on an old socket count | `DoneIsStored` |
| `AnyChunk` | a chunk goes to any read | `ReadIsWhole` |
| `LeavesQueue` | an error leaves the queue | `BatchEnds` |
| `AskedAt` | the cursor ignores the cut line | `PreviewReachesStart` |

## 4. Proofs

`OperationJobs_proofs` proves for every set of jobs, servers and keys and all windows,
from the assumptions of `OperationJobs` (each job has a kind and a server, only exec jobs
a key, windows and clock bound are natural numbers):

* `TypeCorrect`: `JobsSpec => []TypeOK`;
* `IndexesNeverViolated`: `JobsSpec => []IndexesHold`;
* `NeverExpiredEarly`: `JobsSpec => []ExpiredWasOverdue`;
* `TableImplementsLifecycle`: `JobsSpec => ImplementsLifecycle`.

`StepShape` reduces the twenty-odd actions to what they may do to `status`: an insert, a
purge, a requeue, or one conditional move between named sets of states.  `IndexesHold` is
not inductive alone: a row in a state its kind does not use could leave and enter its
index.  `KindInv` says which states a kind uses, so that whatever is active holds its
slot, and only an INSERT brings a row into an index.  `ExpiredWasOverdue` needs `SeenInv`: the copies in
`seen` carry the deadline the row has now, as far as exec and update jobs are concerned,
because nothing but the INSERT writes it; the clock does the rest.  The refinement uses
`IndexesHold` and `StepShape`: each move maps to `Open`, `Lapse`, `Resolve`, `Forget` or
a stutter.

`Panel_proofs` proves for every set of readers, any number of writes, any viewers, intervals
and numbers of connections:

* `ClearedRowsStayOut`: `ListSpec => []CacheFollowsClears`;
* `AnswersAreFresh`: `ListSpec => []AnswersFollowClears`;
* `RatesSettle`: `RatesSpec => []RateSettles`.

None is inductive.  A query whose epoch is the present one has fetched, or will fetch,
rows that contain everything announced (`FreshInv`, from `AnnouncedInv`: the clear follows
the write), and the query on offer in `listInflight` is always of the present epoch
(`InflightInv`), so that a join never reaches behind a clear.  `RateSettles` speaks of a
moment without broadcasts, so the invariant has to say what holds with them: the
last one on its way says what the viewers call for (`LastInv`), the connection in the index
is the latest (`IndexInv`), what the agent was told is what the map of the object has, and
with no broadcast left it is what the viewers call for (`TellInv`); a socket that is leaving
is the only one listed (`ListInv`).  All of it only until one of the mishaps of section 2
marks `misled`.

`ExecFlow_proofs` and `UploadFlow_proofs` prove for every set of jobs, windows, times to
live and numbers of connections that the handlers keep to the table:

* `FlowImplementsJobs`, `UploadImplementsJobs`: `FlowSpec => JobsSpec`.

What `JobsNext` allows in any order is thus all that requests, submits, results, sweeps,
cleanups and the cron do, and the lemmas of `OperationJobs_proofs` about it (`StepShape`,
`NextKind`, `NextIndexes`) serve the flows.  What needs an argument is the creation of an
update, which settles what it read: one row at most (`SettleReadsOne`), since the unique
index holds.  `ExecFlow` is about the jobs of one server
(`OneServerAssumption`): its connections are those of one agent.

* `CommandRunsOnce`: `FlowSpec => []OncePerKey`.  A row that was purged has passed its
  expiry (`PurgedInv`), and a handler at work has inserted its row (`RequestInv`), so two
  handlers with one key are both in the index of keys, or the first is older than the TTL.
* `AuditIsTrue`: `FlowSpec => []AuditTrail`.  It is nearly inductive: each write of an end
  is one conditional UPDATE; `AbsentInv` says that there is nothing to tell of a job that
  has no row yet.
* `DisconnectSettles`: `FlowSpec => []DisconnectConverges`.  The cleanup settles what its
  SELECT found: `BatchInv` says that what was sent on a connection whose cleanup is past the
  SELECT is in the batch or over, and `LinkInv` that a connection that is being cleaned up is
  not the present one, on which alone something is sent.
* `NothingFetchedIsDeleted`: `FlowSpec => []StagedObjectPresent`.  Every delete of the code
  must be justified: `Handled` relates how far the request and the submit of a job are to
  its row, `Stored` says when the object is there, `Timed` that it is young as long as a row
  may be fetched (for the scan by age), `DeleteInv` that whoever is about to delete holds a
  key of a row that is over.
* `EndedJobsAreCleared`: `FlowSpec => []OnlyResendAbandons`.  `EndInv` lists, for each job
  that ended with its object in the bucket, who owes the delete (`Owed`), the redelivery
  loop among them.

`Server_proofs`:

* `DroppedStaysDropped`: `IntakeSpec => []DropIsFinal`, for any number of handlers,
  reports and overrides.  `SilenceInv` says what may still bring rows back: after a `/drop`
  that no frame was on its way past, a handler may begin, for the connection is still there,
  but it finds no row, in the cache or in D1 (`RowlessInv`).
* `OneConnectionLives`: `IndexSpec => []OneLiveConnection`, for any number of connections.
  `rebuildIndex` goes by time stamps, so `LatestInv` must say that an open connection has
  the greatest of all that are listed.
* `OldKeysAreOut`: `IndexSpec => []RevokedIsOut`, from `NoOldKey`, which also speaks of the
  handshakes that have checked the key and are not accepted yet.

`Authority_proofs`, for any viewers, tokens, limits and times of `ViewerAuth`:

* `RevokedViewersSeeNothing`: `AuthSpec => RevokedIsShownNothing`, an action property.  No
  entry of the cache is younger than what it says has been untrue (`CacheInv`), an answer of
  D1 is used in the tick it was given in (`AnswerInv`), and what a token grants now was not
  settled as gone (`GrantInv`); a login grants everything or nothing, and nobody with one
  asks D1 (`LoginInv`).
* `PendingSocketsAreTimed`: `AuthSpec => []PendingIsTimed`.

`UsedAssumption` says that each scope of `ViewerAuth` has a token: there is nobody to
authenticate otherwise.

The same module proves for any streams, sockets, limits and times of `SessionHub`:

* `VerdictIsKept`: `HubSpec => VerdictHolds`, and `LostAuthorityEnds`:
  `HubSpec => AuthorityIsRecent`, action properties, both if `"d1" \notin Faults`.  `SessInv`: a
  session is trusted after a check that its user passed, or while the frame that asked for another
  check is waiting.  `OwnInv`: no socket is in hand for two sessions, whether an attachment,
  memory or an await has it.  `CondInv`: authority that was lost does not come back.
  `OnceInv`: of a browser one check is under way at most.  `ReadInv`: what a check has read between its
  two awaits is of the present tick.  `WaitInv`: a browser that has yet to authenticate has
  neither a session nor a check.
* `SocketsAreTimed`: `HubSpec => []LifeIsLimited`, if `"evict" \notin Faults`.  `AlarmInv`
  extends the claim to what is alive without a socket, in memory or as the next rebuild will
  find it; `LinkInv` and `StoredInv` say that sockets, memory and storage agree on it, and
  `AuthingInv` that an await and its socket agree on the stream.
* `HubTypeCorrect` adds to the types that an object that is cold knows nothing (`ColdInv`).

The two hypotheses are two of the disagreements of section 3 (:1631; :709 and :354): with
the fault the properties fail, TLC shows how.

`Metrics_proofs`, for any windows, intervals and cooldowns, and any number of evictions:

* `RowsAreNotPassed`: `ArchiveSpec => []NoRowPassed`, for any window, period of sweeps and life of
  an instance.  It is a matter of the rows the batch of a frame took and of those it has not
  read (`BatchInv`), of what a sweep under way will move (`SweepInv`), and of the watermark, which
  is an archive age old at least (`WatermarkInv`).
* `HistoryHasNoHoles`: `ArchiveSpec => []HistoryIsWhole`, under `Roomy`.  A row that no sweep has had
  is younger than the last sweep and the archive age (`SweptInv`), so the window holds it until
  one has; memory that was loaded holds all of the window (`MemoryInv`), and what is no longer in
  storage has left the window (`GoneInv`).
* `NothingBookedTwice`: `LedgerSpec => []BookedOnce`, `NoFalseAbsence`:
  `LedgerSpec => []AbsenceIsReal`, `LedgerIsWhole`: `LedgerSpec => []NothingSkipped`, all three
  under `LossOnly`.  What is in the ledger or in a batch lies before the cursor in storage,
  what is in memory before the one in memory, and no tick is in two of the bags (`BooksInv`);
  conversely every tick up to a cursor is in one of them (`WholeInv`).  `CursorInv` says
  that increments in memory have a cursor, and that one who asks D1 for it finds none, `SeenInv`
  that no report is ahead of the cursor unless increments were lost, and `OffInv` that an
  absence ends a gap ago and lies between no two close reports.
* `AlertsKeepQuiet`: `AlertsSpec => NeverTwice`, an action property.  `CooldownInv`: while an
  alert is under way, no other is, and storage has all of its cooldown left but its age; memory
  that is loaded agrees, so an instance after an eviction keeps what the one before began.  What
  was received may last longer than what storage has only after a failed load (`early`).
* `OwnerIsTold`: `AlertsSpec => []ToldAgrees`.  `ProbeInv`: a failure that is
  told or about to be is in storage, and one message is under way at most; `HostInv`: storage
  has the server as off exactly when the owner was told so.  In both, memory that is loaded
  agrees with storage, unless the load failed (`unreadProbe`, `unreadHost`).

`Roomy` relates constants that nothing in the code relates (section 3, :794), all of them settings
of the code but `MaxOverdue`, how long sweeps fail in a row, which is up to the platform.  With
the defaults, 60 minutes of age and 60 between sweeps in a window of 240, it lets sweeps fail for
two hours.  The cfg satisfies it; with a smaller window `HistoryIsWhole` fails, TLC shows how.
`LossOnly` allows evictions at any time, and
batches and puts that fail, but not that a cursor or `last_seen` cannot be read: with
evictions beside that, the properties fail (section 3, :354 and :495).

`Console_proofs`, for any shells, retries, files, batches, uploads and numbers of chunks:

* `TabsAreTended`: `TermSpec => []TabIsTended`, which is inductive with the types.
* `NoShellIsLeft`: `TermSpec => []NoGhostShell`.  `ShellInv`: of a request, a timer that will
  make one and a socket that is open there is one at most, so an answer never finds a
  shell it would replace; `ShutInv`: a tab that is closed has left nothing.
* `UploadsAreStored`: `TransferSpec => []DoneIsStored`, and `ReadsAreWhole`:
  `TransferSpec => []ReadIsWhole`.  Answers do not say what they answer, so the argument is
  about the whole `Line`: the commands on their way to the agent and the answers on their way
  back, in which the agent turns the head of one queue into the last of the other.  For an
  upload (`Chunks`, `DoneInv`) a frame on the line is the only one, is of the upload that
  runs and tells how far that is; for reads (`Reads`, `ReadInv`) what a reader has is in
  order, the chunk it lacks or an error is on the line, and no two frames are of one file.
  Where that is not so, because frames of something given up are left, `late` and `mixed`
  say it, and the properties except exactly these.

Two attempts failed for a good reason and changed the model.  `OwnInv` failed at first,
because the model gave the name of a closed socket to a new one while a check of the old one
was pending, and it dropped a first frame with its socket, where the code goes on.  And
`late` was set by every upload that completed, through the very answer that
completed it, so that `DoneIsStored` said little from the second upload on: it is now set
only if frames are left after the step.

A run checks each property named here on a small instance as well, except for
`IndexesHold`, `CacheFollowsClears`, the types and the refinements of the table by the
flows, which the cfgs do not list.

Model-checked only: liveness, that is the temporal properties `EveryObjectGoes`,
`ArchivedAtLast`, `AlertGetsThrough`, `ChoresGetDone`, `OverrideArrives`, `ProbesConverge`,
`LinkRecovers`, `FeedResumes`, `IdleStopsViewing`, `VisibleIsLive`, `BatchEnds` and
`PreviewReachesStart`.  Fairness and ENABLED are out of the prover's reach.  So
nothing is proved about `Housekeeping`, `LatestFeed`, `PushView` and `TailPreview`, whose
properties are of this kind.

## 5. Plan

The agent: temporary files of downloads that overlap, the bounded queue, the steps of the
self-update with crashes between them.

### Not modelled

* The agent's control loop, downloads, blocking-call breaker and self-update.  What others
  see of them (a result lost, a receipt late, a connection that ends) is a free choice of
  `ExecFlow`, `UploadFlow`, `ReportIntake` and `ControlIndex`.  A replacement whose time
  limit passes goes on in its thread (`blocking.rs`), and may put the new binary in place
  although the update is reported as failed.
* On the agent's file session: the terminal, directory operations, archives, search.
* Rendering, forms, charts, translations, zip downloads of the page.
* Collectors of operating-system data, name resolution, the proxy: I/O and parsing without
  state that others share.
* Permissions and formatting of single requests: one request at a time.
* The shell agent, which the repository deprecates; scripts and tests.
