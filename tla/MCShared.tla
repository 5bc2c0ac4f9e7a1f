------------------------------- MODULE MCShared -------------------------------
(* What the requests of all Workers and objects meet in: the table of jobs, of one  *)
(* server with any two of six jobs (pairs of every two kinds, and two exec requests *)
(* with one idempotency key), and PanelDO, with two viewers, two connections of one *)
(* agent, two readers of the list and one write.  They share no state, and of       *)
(* PanelDO the list depends on whether somebody watches, not on connections: one    *)
(* behaviour moves the table, the list with the viewers, or viewers and agent.      *)
EXTENDS OperationJobs, Panel, TLC

CONSTANTS s1, k1, u1, u2, a1, a2, e1, e2, v1, v2, r1, r2

CONSTANTS MaxRows,    \* bound: jobs that are ever created
          MaxPending  \* bound: selected rows that wait for their UPDATE

VARIABLE place  \* what moves

MCJob == {u1, u2, a1, a2, e1, e2}
MCServer == {s1}
MCKey == {k1}
MCKindOf == [j \in MCJob |-> CASE j \in {u1, u2} -> "upload"
                               [] j \in {a1, a2} -> "agent_update"
                               [] OTHER -> "exec"]
MCServerOf == [j \in MCJob |-> s1]
MCKeyOf == [j \in MCJob |-> IF MCKindOf[j] = "exec" THEN k1 ELSE NoKey]

MCViewer == {v1, v2}
MCReader == {r1, r2}

\* Jobs of one kind are interchangeable, and so are viewers and readers.
MCSymmetry ==
  Permutations({u1, u2}) \cup Permutations({a1, a2}) \cup Permutations({e1, e2})
    \cup Permutations(MCViewer) \cup Permutations(MCReader)

SharedInit == place \in {"table", "list", "agent"} /\ JobsInit /\ PanelInit

SharedNext ==
  \/ place = "table" /\ JobsNext /\ UNCHANGED <<place, panelDOVars>>
  \/ /\ place # "table" /\ PanelNext /\ UNCHANGED <<place, jobsVars>>
     /\ place = "list" => UNCHANGED indexVars
     /\ place = "agent" => UNCHANGED listVars

SharedSpec == SharedInit /\ [][SharedNext]_<<place, jobsVars, panelDOVars>>

\* RateSettles says nothing after a mishap.
Small == /\ Cardinality({j \in Job : status[j] # "absent"}) <= MaxRows
         /\ Cardinality(seen) <= MaxPending
         /\ ~ misled
===============================================================================
