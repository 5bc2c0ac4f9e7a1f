------------------------------- MODULE MCAuthority -------------------------------
(* What somebody was once allowed, and until when: terminal sessions, for a few     *)
(* streams and sockets, the sockets being interchangeable, or the viewers of the    *)
(* list, whose tokens change or whose sockets wait.  The two share nothing.         *)
(*                                                                                  *)
(* Sessions live their life to its longest end, or lose their authority: the server *)
(* is deleted or the user restricted, one of which is enough for a verdict, and the *)
(* interval of the checks passes, for which the clock needs a tick less.            *)
EXTENDS SessionHub, ViewerAuth, TLC

VARIABLE subjects  \* the part that moves

authorityVars == <<subjects, hubVars, authVars>>

AuthorityInit ==
  /\ subjects \in {"life", "authority", "viewers"}
  /\ HubInit /\ AuthInit
  /\ IF subjects = "viewers" THEN admin ELSE about = "pat"

AuthorityNext ==
  \/ /\ subjects # "viewers" /\ HubNext /\ UNCHANGED <<subjects, authVars>>
     /\ subjects = "life" => UNCHANGED <<lost, auditing>>
     /\ subjects = "authority" => now' < MaxNow /\ (lost' = 0 \/ ~ gone')
  \/ subjects = "viewers" /\ AuthNext /\ UNCHANGED <<subjects, hubVars>>

AuthoritySpec == AuthorityInit /\ [][AuthorityNext]_authorityVars

Symmetry == Permutations(Sockets) \cup Permutations(Viewers)
================================================================================
