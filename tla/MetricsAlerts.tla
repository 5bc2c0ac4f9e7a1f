----------------------------- MODULE MetricsAlerts -----------------------------
(***************************************************************************)
(* The notifications MetricsDO sends for one server (do-metrics.js): a     *)
(* metric over its threshold, a probe that fails and recovers, the server  *)
(* that goes silent and comes back.  What has been told is remembered in   *)
(* memory and in storage; the webhooks run in the background (bgRun) and   *)
(* correct that memory when they are done.                                 *)
(*                                                                         *)
(* A time stamp is kept as what remains of its cooldown, so time needs no  *)
(* bound.  A threshold state is that remainder; a probe is {} while it is  *)
(* up and {remainder} while it is down, the default of a missing key being *)
(* up.  sendWebhook ends within its timeout, of one tick; a webhook that   *)
(* was received although it failed counts as failed.                       *)
(*                                                                         *)
(* Operators marked "Defect:" are no part of the model, see OperationJobs. *)
(***************************************************************************)
EXTENDS Naturals

CONSTANTS
  Subjects,    \* what is watched: "threshold", "probe", "host"
  Cooldown,    \* cooldown_min
  Backoff,     \* RETRY_BACKOFF_MS
  AlertFaults  \* "put": a write to storage fails, or the list before a delete; "list": the
               \* load of what an instance has not loaded; "evict" while webhooks run

ASSUME AlertsAssumption ==
  /\ Backoff \in Nat \ {0} /\ Cooldown \in Nat /\ Backoff < Cooldown
  /\ Subjects \subseteq {"threshold", "probe", "host"}
  /\ AlertFaults \subseteq {"put", "list", "evict"}

VARIABLES
  subject,        \* the one of the subjects this behaviour is about: they share no state
  alertLast,      \* of the key <id>:cpu
  alertLoaded,
  alertDisk,
  probeState,     \* of the key <id>:<name>
  probeLoaded,
  probeDisk,
  configured,     \* the probe is in probe_json
  offlineState,
  offlineLoaded,
  offlineDisk,
  webhooks,       \* under way
  quiet,          \* history: what remains of the cooldown of the last alert received
  told,           \* history: the last message received about the probe
  toldHost,       \* history: the last message received about the server
  crossed,        \* history: a probe message was sent while another was under way
  cut,            \* history: a webhook went down with the object, or a put failed
  early,          \* history: a load of the cooldown failed and no alert came since
  unreadProbe,    \* history: this instance could not load the state of the probe, and has
                  \* not written it since
  unreadHost      \* the same of the server

thresholdVars == <<alertLast, alertLoaded, alertDisk, quiet, early>>
probeVars == <<probeState, probeLoaded, probeDisk, told, crossed, unreadProbe>>
hostVars == <<offlineState, offlineLoaded, offlineDisk, toldHost, unreadHost>>
alertVars == <<thresholdVars, probeVars, configured, hostVars, webhooks, cut>>

Rest == 0..Cooldown
ProbeStates == {{}} \cup {{r} : r \in Rest}

\* age: ticks since it was sent.  before: the state a failed "up" goes back to.
Webhook == [kind : {"alert", "down", "up", "offline", "recovered"}, age : 0..1, before : ProbeStates]

AlertsTypeOK ==
  /\ subject \in Subjects
  /\ {alertLast, alertDisk, quiet} \subseteq Rest
  /\ {probeState, probeDisk} \subseteq ProbeStates
  /\ {offlineState, offlineDisk} \subseteq {"on", "off"}
  /\ {alertLoaded, probeLoaded, offlineLoaded, configured, crossed, cut, early,
      unreadProbe, unreadHost} \subseteq BOOLEAN
  /\ webhooks \subseteq Webhook
  /\ told \in {"nothing", "down", "up"}
  /\ toldHost \in {"nothing", "offline", "recovered"}

AlertsInit ==
  /\ subject \in Subjects
  /\ alertLast = 0 /\ alertLoaded = FALSE /\ alertDisk = 0
  /\ probeState = {} /\ probeLoaded = FALSE /\ probeDisk = {}
  /\ configured = TRUE
  /\ offlineState = "on" /\ offlineLoaded = FALSE /\ offlineDisk = "on"
  /\ webhooks = {}
  /\ quiet = 0
  /\ told = "nothing" /\ toldHost = "nothing"
  /\ crossed = FALSE /\ cut = FALSE /\ early = FALSE
  /\ unreadProbe = FALSE /\ unreadHost = FALSE

Less(r, n) == IF r > n THEN r - n ELSE 0

\* A write to storage.
Put(disk, value) ==
  \/ disk' = value /\ UNCHANGED cut
  \/ "put" \in AlertFaults /\ disk' = disk /\ cut' = TRUE

Send(kind, before) == webhooks' = webhooks \cup {[kind |-> kind, age |-> 0, before |-> before]}

Sent(kinds) == {w \in webhooks : w.kind \in kinds}

--------------------------------------------------------------------------------
(* The checks that come with a report, and those of the alarm.                 *)

\* The answers to a list: an instance asks once, and one that fails leaves what is in
\* memory, which counts as loaded (the catch of each load).
Loads == IF "list" \in AlertFaults THEN BOOLEAN ELSE {TRUE}

\* Defect: the state is not read back from storage.
RestNow(ok) == alertLast

RestLoaded(ok) == IF alertLoaded \/ ~ ok THEN alertLast ELSE alertDisk

\* Defect: every frame over the threshold begins the cooldown again.
CooldownAgain(ok) == Cooldown

CooldownKept(ok) == RestLoaded(ok)

\* checkAlerts, for a frame over the threshold.
CheckAlerts ==
  \E ok \in Loads :
    /\ alertLoaded' = TRUE
    /\ early' = (early \/ (~ alertLoaded /\ ~ ok))
    /\ IF RestLoaded(ok) > 0
       THEN /\ alertLast' = CooldownKept(ok)
            /\ UNCHANGED <<alertDisk, webhooks, cut>>
       ELSE /\ alertLast' = Cooldown
            /\ Put(alertDisk, Cooldown)
            /\ Send("alert", {})
    /\ UNCHANGED <<probeVars, hostVars, configured, quiet>>

ProbeRead(ok) == IF probeLoaded \/ ~ ok THEN probeState ELSE probeDisk

\* checkProbeAlerts: the probe is up; the state waits for the webhook.
ProbeUp ==
  \E ok \in Loads :
    /\ configured
    /\ probeLoaded' = TRUE
    /\ probeState' = ProbeRead(ok)
    /\ unreadProbe' = (unreadProbe \/ (~ probeLoaded /\ ~ ok))
    /\ IF ProbeRead(ok) = {} THEN UNCHANGED <<webhooks, crossed>>
       ELSE Send("up", ProbeRead(ok)) /\ crossed' = (crossed \/ Sent({"down", "up"}) # {})
    /\ UNCHANGED <<thresholdVars, hostVars, configured, probeDisk, told, cut>>

\* The probe fails, for the first time or for so long that it is told again.
ProbeDown ==
  \E ok \in Loads :
    /\ configured
    /\ probeLoaded' = TRUE
    /\ IF ProbeRead(ok) \in {{}, {0}}
       THEN /\ probeState' = {Cooldown}
            /\ Put(probeDisk, {Cooldown})
            /\ Send("down", {})
            /\ crossed' = (crossed \/ Sent({"down", "up"}) # {})
            /\ unreadProbe' = FALSE
       ELSE /\ probeState' = ProbeRead(ok)
            /\ UNCHANGED <<probeDisk, webhooks, crossed, cut, unreadProbe>>
    /\ UNCHANGED <<thresholdVars, hostVars, configured, told>>

\* The owner removes the probe or adds it again.
Configure ==
  /\ configured' = ~ configured
  /\ UNCHANGED <<thresholdVars, probeVars, hostVars, webhooks, cut>>

Forget ==
  /\ probeState' = {}
  /\ Put(probeDisk, {})
  /\ told' = "nothing"
  /\ unreadProbe' = FALSE
  /\ crossed' = (crossed \/ Sent({"down", "up"}) # {})
  /\ UNCHANGED <<thresholdVars, hostVars, configured, probeLoaded, webhooks>>

\* clearProbeState: the frame that says so, which may as well be lost.
ClearProbeState == ~ configured /\ Forget

\* pruneStaleProbeStates: rows without a probe in probe_json.
PruneStaleProbeStates == ~ configured /\ probeDisk # {} /\ Forget

HostRead(ok) == IF offlineLoaded \/ ~ ok THEN offlineState ELSE offlineDisk

\* checkOfflineAlerts, for a server that is silent or not.
CheckOffline(silent) ==
  \E ok \in Loads :
    /\ offlineLoaded' = TRUE
    /\ offlineState' = HostRead(ok)
    /\ unreadHost' = (unreadHost \/ (~ offlineLoaded /\ ~ ok))
    /\ webhooks' = webhooks \cup
         {[kind |-> IF silent THEN "offline" ELSE "recovered", age |-> 0, before |-> {}] :
            x \in {s \in {"on", "off"} : s = offlineState' /\ (silent <=> s = "on")}}
    /\ UNCHANGED <<thresholdVars, probeVars, configured, offlineDisk, toldHost, cut>>

--------------------------------------------------------------------------------
(* The webhooks end.                                                           *)

EndWebhook(w) == w \in webhooks /\ webhooks' = webhooks \ {w}

AlertReceived(w) ==
  /\ w.kind = "alert" /\ EndWebhook(w)
  /\ quiet' = Less(Cooldown, w.age) /\ early' = FALSE
  /\ UNCHANGED <<alertLast, alertLoaded, alertDisk, probeVars, hostVars, configured, cut>>

\* Only the backoff remains of the cooldown.
CutCooldown(w) == alertLast' = Less(Backoff, w.age) /\ Put(alertDisk, Less(Backoff, w.age))

AlertFails(w) ==
  /\ w.kind = "alert" /\ EndWebhook(w)
  /\ CutCooldown(w)
  /\ UNCHANGED <<alertLoaded, quiet, early, probeVars, hostVars, configured>>

SetProbe(state) == probeState' = state /\ Put(probeDisk, state) /\ UNCHANGED probeLoaded

ProbeReceived(w) ==
  /\ EndWebhook(w)
  /\ \/ w.kind = "down" /\ told' = "down" /\ UNCHANGED <<probeState, probeLoaded, probeDisk, cut>>
     \/ w.kind = "up" /\ told' = "up" /\ SetProbe({})
  /\ UNCHANGED <<thresholdVars, hostVars, configured, crossed, unreadProbe>>

\* Defect: the probe counts as up although that was not told.
UpUntold(w) == SetProbe({})

DownAgain(w) == SetProbe({Less(r, w.age) : r \in w.before})

ProbeFails(w) ==
  /\ EndWebhook(w)
  /\ \/ w.kind = "down" /\ SetProbe({Less(Backoff, w.age)})
     \/ w.kind = "up" /\ DownAgain(w)
  /\ UNCHANGED <<thresholdVars, hostVars, configured, told, crossed, unreadProbe>>

RememberHost(state) == offlineState' = state /\ Put(offlineDisk, state)

HostReceived(w) ==
  /\ w.kind \in {"offline", "recovered"} /\ EndWebhook(w)
  /\ toldHost' = w.kind
  /\ RememberHost(IF w.kind = "offline" THEN "off" ELSE "on")
  /\ unreadHost' = FALSE
  /\ UNCHANGED <<thresholdVars, probeVars, configured, offlineLoaded>>

\* The next alarm tries again.
HostFails(w) ==
  /\ w.kind \in {"offline", "recovered"} /\ EndWebhook(w)
  /\ UNCHANGED <<thresholdVars, probeVars, hostVars, configured, cut>>

--------------------------------------------------------------------------------

\* The object leaves memory, with the webhooks that have not been received.
EvictAlerts ==
  /\ webhooks = {} \/ "evict" \in AlertFaults
  /\ cut' = (cut \/ webhooks # {})
  /\ webhooks' = {}
  /\ alertLast' = 0 /\ alertLoaded' = FALSE
  /\ probeState' = {} /\ probeLoaded' = FALSE
  /\ offlineState' = "on" /\ offlineLoaded' = FALSE
  /\ unreadProbe' = FALSE /\ unreadHost' = FALSE
  /\ UNCHANGED <<alertDisk, quiet, early, probeDisk, told, crossed, configured, offlineDisk, toldHost>>

AlertTick ==
  /\ \A w \in webhooks : w.age = 0
  /\ webhooks' = {[w EXCEPT !.age = 1] : w \in webhooks}
  /\ alertLast' = Less(alertLast, 1)
  /\ alertDisk' = Less(alertDisk, 1)
  /\ quiet' = Less(quiet, 1)
  /\ probeState' = {Less(r, 1) : r \in probeState}
  /\ probeDisk' = {Less(r, 1) : r \in probeDisk}
  /\ UNCHANGED <<alertLoaded, early, probeLoaded, told, crossed, unreadProbe, configured, hostVars, cut>>

Ends(w) == AlertReceived(w) \/ AlertFails(w) \/ ProbeReceived(w) \/ ProbeFails(w)
           \/ HostReceived(w) \/ HostFails(w)

AlertsStep ==
  \/ subject = "threshold" /\ CheckAlerts
  \/ subject = "probe" /\ (ProbeUp \/ ProbeDown \/ Configure \/ ClearProbeState \/ PruneStaleProbeStates)
  \/ subject = "host" /\ \E silent \in BOOLEAN : CheckOffline(silent)
  \/ \E w \in webhooks : Ends(w)
  \/ EvictAlerts
  \/ AlertTick

AlertsNext == AlertsStep /\ UNCHANGED subject

AlertsSpec == AlertsInit /\ [][AlertsNext]_<<subject, alertVars>>

--------------------------------------------------------------------------------
(* Properties.                                                                 *)

\* No alert arrives while the cooldown of the one before it lasts, whatever is
\* evicted in between (cooled() persists the cooldown it begins), but for the one
\* that a failed load may cost (do-metrics.js:152).
NeverTwice == [][(\E w \in webhooks : AlertReceived(w)) => quiet = 0 \/ early \/ cut]_alertVars

\* What the object takes the probe and the server for.
Probe == ProbeRead(TRUE)
Host == HostRead(TRUE)

\* With no webhook under way the owner is not left with "down" for a probe the
\* object takes for up, unless the two messages were under way together, nor
\* with "offline" for a server it takes for online (checkOfflineAlerts), unless
\* this instance could not load what the one before it had told.
ToldAgrees ==
  \/ cut
  \/ /\ Sent({"down", "up"}) = {} /\ configured /\ Probe = {} => told # "down" \/ crossed \/ unreadProbe
     /\ Sent({"offline", "recovered"}) = {} /\ Host = "on" => toldHost # "offline" \/ unreadHost

\* An alert about a breach that lasts is received again and again: neither a
\* failure, nor an eviction, nor a cooldown read back from storage silences it.
AlertGetsThrough == []<>(subject # "threshold") \/ []<><<\E w \in webhooks : AlertReceived(w)>>_alertVars
================================================================================
