------------------------------ MODULE MCExecFlow ------------------------------
(* ExecFlow on one server: MCAll has two exec requests of one idempotency key and *)
(* two agent updates, MCJob one update less.                                     *)
EXTENDS ExecFlow, TLC

CONSTANTS s1, k1, e1, e2, a1, a2

MCJob == {e1, e2, a1}
MCAll == {e1, e2, a1, a2}
MCServer == {s1}
MCKey == {k1}
MCKindOf == [j \in Job |-> IF j \in {a1, a2} THEN "agent_update" ELSE "exec"]
MCServerOf == [j \in Job |-> s1]
MCKeyOf == [j \in Job |-> IF j \in {a1, a2} THEN NoKey ELSE k1]

MCSymmetry == Permutations({e1, e2}) \cup Permutations({a1, a2})

\* Bounds of the instance.
CONSTANT MaxRequests  \* requests that are ever made
Small == /\ Cardinality(seen) <= 1
         /\ Cardinality({j \in Job : request[j] # "none"}) <= MaxRequests
         /\ epoch > 1 => Cardinality({KindOf[j] : j \in {i \in Job : request[i] # "none"}}) <= 1
         /\ (\A j \in Job : status[j] = "absent") => now = 0
         /\ cleanup[MaxConn] = "none" \/ MaxConn = 1  \* the last connection stays
===============================================================================
