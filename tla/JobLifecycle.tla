----------------------------- MODULE JobLifecycle -----------------------------
(***************************************************************************)
(* What the operation_jobs table promises to whoever holds a job id: the   *)
(* job opens once, may lapse when nobody answered before its deadline, is  *)
(* resolved at most once and is forgotten at the end of its retention.  A  *)
(* lapsed job may still be resolved by a late result (the "soft" terminal  *)
(* state of the design); a resolved one never changes its outcome.  Jobs   *)
(* that share a slot (the single upload, the single agent update of a      *)
(* server) are never open together.                                        *)
(*                                                                         *)
(* OperationJobs implements this specification (see Lifecycle there).      *)
(***************************************************************************)
CONSTANTS Job,      \* every job id that is ever generated
          Outcome,  \* the results a job can be resolved with
          SlotOf,   \* the slot a job occupies while it is open, or NoSlot
          NoSlot

VARIABLES phase,    \* phase of each job
          outcome   \* the result of each resolved job, "none" for the others

lifeVars == <<phase, outcome>>

Phase == {"new", "open", "lapsed", "resolved", "forgotten"}

LifeTypeOK == /\ phase \in [Job -> Phase]
              /\ outcome \in [Job -> Outcome \cup {"none"}]

LifeInit == /\ phase = [j \in Job |-> "new"]
            /\ outcome = [j \in Job |-> "none"]

SameSlot(j, k) == SlotOf[j] # NoSlot /\ SlotOf[k] = SlotOf[j]

Open(j) == /\ phase[j] = "new"
           /\ \A k \in Job : SameSlot(j, k) => phase[k] # "open"
           /\ phase' = [phase EXCEPT ![j] = "open"]
           /\ UNCHANGED outcome

Lapse(j) == /\ phase[j] = "open"
            /\ phase' = [phase EXCEPT ![j] = "lapsed"]
            /\ UNCHANGED outcome

Resolve(j, o) == /\ phase[j] \in {"open", "lapsed"}
                 /\ phase' = [phase EXCEPT ![j] = "resolved"]
                 /\ outcome' = [outcome EXCEPT ![j] = o]

\* The retention sweep deletes whole sets of rows, whatever their phase.
Forget(S) == /\ \A j \in S : phase[j] # "new"
             /\ phase' = [j \in Job |-> IF j \in S THEN "forgotten" ELSE phase[j]]
             /\ outcome' = [j \in Job |-> IF j \in S THEN "none" ELSE outcome[j]]

LifeNext == \/ \E j \in Job : \/ Open(j)
                              \/ Lapse(j)
                              \/ \E o \in Outcome : Resolve(j, o)
            \/ \E S \in SUBSET Job : Forget(S)

LifeSpec == LifeInit /\ [][LifeNext]_lifeVars
===============================================================================
