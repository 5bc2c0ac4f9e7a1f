------------------------------- MODULE LatestFeed -------------------------------
(***************************************************************************)
(* How the newest values reach the pages: latestByServer of MetricsDO,     *)
(* from which it pushes all of them to PanelDO while somebody watches      *)
(* (pushOn), at most every LATEST_PUSH_INTERVAL_MS and only with a frame   *)
(* of some server, the calls set_push by which PanelDO tells it that       *)
(* somebody does, and /latest, which a page that has just connected asks   *)
(* for and which puts the map together again after MetricsDO was evicted.  *)
(*                                                                         *)
(* One page stands for all: what it is shown of a server is "current", the *)
(* values of the last frame, "behind", or "none".  A tick is the push      *)
(* interval, so that PanelDO's latestCache, which lives shorter, is left   *)
(* out; so is what else is done with a frame, see MetricsArchive.          *)
(*                                                                         *)
(* Operators marked "Defect:" are no part of the model, see OperationJobs. *)
(***************************************************************************)
EXTENDS Naturals, FiniteSets

CONSTANTS
  FeedServers, \* ids
  ProbeEvery,  \* PUSH_PROBE_INTERVAL_MS, in ticks
  BackfillMax, \* LATEST_BACKFILL_MAX
  Senders      \* bound: the sets of servers that may report in one behaviour

ASSUME FeedAssumption ==
  /\ FeedServers \subseteq Nat /\ Senders \subseteq SUBSET FeedServers
  /\ ProbeEvery \in Nat \ {0} /\ BackfillMax \in Nat

VARIABLES
  sending,   \* not in the code: the servers that report
  watching,  \* a viewer is connected to PanelDO
  setPush,   \* calls of set_push under way, with their on
  pushOn,
  rested,    \* LATEST_PUSH_INTERVAL_MS has passed since lastPushAt
  sinceProbe,\* ticks since lastPushProbeAt
  latest,    \* latestByServer
  snapshots, \* servers with l:<id> in storage
  hotRows,   \* servers with m:<id>:<minute> in storage
  restoring, \* out of a /latest that awaits the ids of D1
  shown      \* what the page shows

feedVars == <<sending, watching, setPush, pushOn, rested, sinceProbe, latest,
              snapshots, hotRows, restoring, shown>>

Values == [FeedServers -> {"none", "behind", "current"}]
Nothing == [s \in FeedServers |-> "none"]

FeedTypeOK ==
  /\ sending \in Senders
  /\ {watching, pushOn, rested} \subseteq BOOLEAN
  /\ setPush \subseteq BOOLEAN
  /\ sinceProbe \in 0..ProbeEvery
  /\ {latest, shown} \subseteq Values
  /\ restoring \subseteq Values /\ Cardinality(restoring) <= 1
  /\ snapshots \subseteq FeedServers /\ hotRows \subseteq FeedServers

\* A server that has reported before the snapshots were introduced has hot rows only.
FeedInit ==
  /\ sending \in Senders
  /\ watching = FALSE /\ setPush = {} /\ pushOn = FALSE
  /\ rested = TRUE /\ sinceProbe = ProbeEvery
  /\ latest = Nothing /\ shown = Nothing /\ restoring = {}
  /\ hotRows \in {{}, sending} /\ snapshots \in SUBSET hotRows

storedVars == <<sending, snapshots, hotRows>>
pushVars_ == <<setPush, pushOn, rested, sinceProbe>>

--------------------------------------------------------------------------------
(* PanelDO: viewers.                                                           *)

\* The first viewer comes, the last one goes: setPush, which gives up after a second
\* whether the call has arrived or not.
Watch ==
  /\ sending # {} /\ ~ watching
  /\ watching' = TRUE /\ setPush' = setPush \cup {TRUE}
  /\ UNCHANGED <<storedVars, pushOn, rested, sinceProbe, latest, restoring, shown>>

Unwatch ==
  /\ watching
  /\ watching' = FALSE /\ setPush' = setPush \cup {FALSE}
  /\ shown' = Nothing
  /\ UNCHANGED <<storedVars, pushOn, rested, sinceProbe, latest, restoring>>

\* /rpc/set_push: the call arrives, late perhaps, or is lost.
SetPush ==
  /\ \E on \in setPush : setPush' = setPush \ {on} /\ pushOn' \in {pushOn, on}
  /\ UNCHANGED <<storedVars, watching, rested, sinceProbe, latest, restoring, shown>>

--------------------------------------------------------------------------------
(* MetricsDO: frames.                                                          *)

PushDue == pushOn /\ rested

\* Defect: nobody is asked.
NeverDue == FALSE

ProbeIsDue == ~ pushOn /\ sinceProbe = ProbeEvery

Behind(s) == [shown EXCEPT ![s] = IF @ = "current" THEN "behind" ELSE @]

\* processReportFrame; ok: the call to PanelDO that the frame sets off comes through.
\* A push replaces everything the page shows.
Frame(s, ok) ==
  /\ s \in sending
  /\ latest' = [latest EXCEPT ![s] = "current"]
  /\ \/ snapshots' = snapshots \cup {s} /\ hotRows' = hotRows \cup {s}
     \/ UNCHANGED <<snapshots, hotRows>>
  /\ rested' = (rested /\ ~ PushDue)
  /\ sinceProbe' = IF ProbeIsDue THEN 0 ELSE sinceProbe
  /\ pushOn' = (pushOn \/ (ProbeIsDue /\ ok /\ watching))
  /\ shown' = IF PushDue /\ ok /\ watching THEN latest' ELSE Behind(s)
  /\ UNCHANGED <<sending, watching, setPush, restoring>>

\* The object leaves memory.
FeedEvicted ==
  /\ sending # {}
  /\ latest' = Nothing /\ restoring' = {}
  /\ pushOn' = FALSE /\ rested' = TRUE /\ sinceProbe' = ProbeEvery
  /\ UNCHANGED <<storedVars, watching, setPush, shown>>

--------------------------------------------------------------------------------
(* /latest, for the sync of a page.                                            *)

\* What is in memory is the answer, if it is of one server only; else the snapshots,
\* unless the storage fails.
Latest ==
  /\ watching /\ restoring = {}
  /\ \/ latest # Nothing /\ shown' = latest /\ UNCHANGED <<latest, restoring>>
     \/ latest = Nothing /\ shown' = Nothing /\ UNCHANGED <<latest, restoring>>
     \/ /\ latest = Nothing
        /\ latest' = [s \in FeedServers |-> IF s \in snapshots THEN "behind" ELSE "none"]
        /\ restoring' = {latest'}
        /\ UNCHANGED shown
  /\ UNCHANGED <<storedVars, watching, pushVars_>>

Missing(out) == {s \in FeedServers : out[s] = "none"}
Chosen(out) == {s \in Missing(out) : Cardinality({r \in Missing(out) : r < s}) < BackfillMax}

\* The ids are there, or D1 fails.  loadLatestFromHot of those without a snapshot puts
\* the hot row over what a frame may have brought meanwhile.
LatestBackfills ==
  /\ \E out \in restoring :
       \E found \in {{}, Chosen(out) \cap hotRows} :
         /\ latest' = [s \in FeedServers |-> IF s \in found THEN "behind" ELSE latest[s]]
         /\ shown' = IF watching
                     THEN [s \in FeedServers |-> IF s \in found THEN "behind" ELSE out[s]]
                     ELSE shown
  /\ restoring' = {}
  /\ UNCHANGED <<storedVars, watching, pushVars_>>

--------------------------------------------------------------------------------

FeedTick ==
  /\ ~ rested \/ sinceProbe < ProbeEvery
  /\ rested' = TRUE
  /\ sinceProbe' = IF sinceProbe < ProbeEvery THEN sinceProbe + 1 ELSE sinceProbe
  /\ UNCHANGED <<storedVars, watching, setPush, pushOn, latest, restoring, shown>>

FeedNext ==
  \/ Watch \/ Unwatch \/ SetPush
  \/ \E s \in FeedServers, ok \in BOOLEAN : Frame(s, ok)
  \/ FeedEvicted \/ Latest \/ LatestBackfills \/ FeedTick

FeedSpec == FeedInit /\ [][FeedNext]_feedVars

\* Servers go on reporting; of the calls that are due now and then one comes through;
\* calls end and time goes on.
FeedFairness ==
  /\ \A s \in FeedServers : WF_feedVars(\E ok \in BOOLEAN : Frame(s, ok))
  /\ SF_feedVars((PushDue \/ ProbeIsDue) /\ \E s \in FeedServers : Frame(s, TRUE))
  /\ WF_feedVars(SetPush) /\ WF_feedVars(FeedTick)

FairFeedSpec == FeedSpec /\ FeedFairness

--------------------------------------------------------------------------------
(* Properties.                                                                 *)

Interferes == Watch \/ Unwatch \/ FeedEvicted

\* Whatever was evicted, lost, or crossed before: a page that stays is shown what each
\* server that reports has reported last, again and again.
FeedResumes ==
  <>[](watching) /\ <>[][~ Interferes]_feedVars =>
    \A s \in FeedServers : []<>(s \in sending => shown[s] = "current")
================================================================================
