----------------------------- MODULE MCUploadFlow -----------------------------
(* UploadFlow on one server and one upload (two uploads of a server are never    *)
(* active together, see MCShared).                                               *)
EXTENDS UploadFlow

CONSTANTS s1, u1

MCJob == {u1}
MCServer == {s1}
MCKindOf == [j \in MCJob |-> "upload"]
MCServerOf == [j \in MCJob |-> s1]
MCKeyOf == [j \in MCJob |-> NoKey]
MCBothCaps == {TRUE, FALSE}
MCCodeCaps == {FALSE}
\* Bounds of the instance: one read row at a time waits for its UPDATE, and the
\* story starts with the creation of the job.
Small == /\ Cardinality(seen) <= 1
         /\ (\A j \in Job : status[j] = "absent") => now = 0
\* Bound of the liveness instance: the clock stops at MaxTime, so the last put must
\* leave it a whole TTL for the orphan scan.
PutsInTime == \A j \in Job : object[j] = NoObject /\ object'[j] # NoObject
                              => now + JobTtl < MaxTime
OneRead == Cardinality(seen') <= 1

MCLiveSpec == FlowInit /\ [][FlowNext /\ PutsInTime /\ OneRead]_vars /\ Fairness
===============================================================================
