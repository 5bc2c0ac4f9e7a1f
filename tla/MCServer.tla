-------------------------------- MODULE MCServer --------------------------------
(* Three things that go on at one server side by side and share nothing; in one     *)
(* behaviour one of them moves.                                                      *)
(*   reports: two handlers that overlap.  Either the reports differ in the probes    *)
(*     and in the system information, so that one frame writes both, or in the       *)
(*     probes only and the administrator edits the override.                         *)
(*   control: three connections while an administrator changes the key and deletes   *)
(*     the server, or two of processes with and without the probe protocol.          *)
(*   feed: two servers that report, and pages that come and go.                      *)
EXTENDS ReportIntake, ControlIndex, LatestFeed

VARIABLE part  \* the part that moves

Span3 == [conns |-> 3, links |-> FALSE, changes |-> TRUE]

serverVars == <<part, intakeVars, indexVars, feedVars>>

\* The parts that stay away are in one state and have nothing to do.
ServerInit ==
  /\ part \in {"reports", "control", "feed"}
  /\ IntakeInit /\ IndexInit /\ FeedInit
  /\ (part = "reports") <=> (scope.reports # {})
  /\ part # "control" => span = Span3
  /\ (part = "feed") <=> (sending # {})

ServerNext ==
  \/ part = "reports" /\ IntakeNext /\ UNCHANGED <<part, indexVars, feedVars>>
  \/ part = "control" /\ IndexNext /\ UNCHANGED <<part, intakeVars, feedVars>>
  \/ part = "feed" /\ FeedNext /\ UNCHANGED <<part, intakeVars, indexVars>>

FairServerSpec ==
  /\ ServerInit /\ [][ServerNext]_serverVars
  /\ IntakeFairness /\ IndexFairness /\ FeedFairness

First0 == [probes |-> "none", info |-> "old"]
Up == [probes |-> "up", info |-> "old"]
Both == [probes |-> "up", info |-> "new"]
Reports3 == {First0, Up, Both}
Scopes3 == {[reports |-> {}, overrides |-> {}],
            [reports |-> {First0, Both}, overrides |-> {NoOverride}],
            [reports |-> {First0, Up}, overrides |-> Override]}
Spans2 == {Span3, [conns |-> 2, links |-> TRUE, changes |-> FALSE]}
Senders2 == {{}, FeedServers}
================================================================================
