--------------------------- MODULE Console_proofs ----------------------------
(***************************************************************************)
(* The page: a terminal tab, for any number of shells, retries and         *)
(* requests, and the file window with the file session of the agent, for   *)
(* any files, batches, uploads and numbers of chunks.                      *)
(*                                                                         *)
(* Terminal.  TabIsTended is inductive.  NoGhostShell is not: ShellInv has *)
(* to say that of a request, the timer of a request and an open socket     *)
(* there is one at most, ShutInv what a closed tab has left.               *)
(*                                                                         *)
(* Files.  An answer does not say what it answers, so that both theorems   *)
(* are about the line of frames that are under way (Line), on the way to   *)
(* the agent and back, in which a command is replaced by its answer.  For  *)
(* a read (Reads): what a reader has is in order, the chunk it lacks or an *)
(* error is on the line, what comes before an error is nobody else's, and  *)
(* no two frames are of one file.  For an upload (Chunks): a frame on the  *)
(* line is the only one, it is of the upload that runs, and it tells how   *)
(* far that is.  Where frames of what was given up are left, mixed and     *)
(* late say so.                                                            *)
(***************************************************************************)
EXTENDS TermTab, FileTransfer, SequenceTheorems, TLAPS

--------------------------------------------------------------------------------
(* A terminal tab.                                                             *)

TermFlags ==
  /\ closed \in BOOLEAN /\ retryTimer \in BOOLEAN /\ rebuilding \in BOOLEAN
  /\ told \in BOOLEAN /\ outrun \in BOOLEAN

TermData ==
  /\ retries \in 0..TermRetryMax
  /\ ws \in SUBSET Shells /\ noDataTimer \in SUBSET Shells
  /\ requests \in 0..MaxRequests
  /\ socket \in [Shells -> {"none", "connecting", "open", "closing"}]

LEMMA TermTypeInductive == TermSpec => []TermTypeOK
<1>0. (TermTypeOK <=> TermFlags /\ TermData) /\ (TermTypeOK' <=> TermFlags' /\ TermData')
  <2>1. TermTypeOK <=> TermFlags /\ TermData
    BY Zenon DEF TermTypeOK, TermFlags, TermData
  <2>2. TermTypeOK' <=> TermFlags' /\ TermData'
    BY Zenon DEF TermTypeOK, TermFlags, TermData
  <2> QED BY <2>1, <2>2
<1>1. TermInit => TermTypeOK
  <2>1. TermInit => TermFlags
    BY Zenon DEF TermInit, TermFlags
  <2>2. TermInit => TermData
    BY TermAssumption, SMT DEF TermInit, TermData
  <2> QED BY <1>0, <2>1, <2>2
<1>2. TermTypeOK /\ [TermNext]_termVars => TermTypeOK'
  <2> SUFFICES ASSUME TermFlags, TermData, [TermNext]_termVars
               PROVE  TermFlags' /\ TermData'
    BY <1>0
  <2>GetsSession. CASE GetsSession
    <3>1. TermFlags'
      BY <2>GetsSession, Zenon DEF GetsSession, TermFlags
    <3>2. TermData'
      BY <2>GetsSession, TermAssumption, SMT DEF GetsSession, TermData
    <3> QED BY <3>1, <3>2
  <2>GetsError. CASE GetsError
    <3>1. TermFlags'
      BY <2>GetsError, Zenon DEF GetsError, TriesAgain, TermFlags
    <3>2. TermData'
      BY <2>GetsError, TermAssumption, SMT DEF GetsError, TriesAgain, TermData
    <3> QED BY <3>1, <3>2
  <2>RetryFires. CASE RetryFires
    <3>1. TermFlags'
      BY <2>RetryFires, Zenon DEF RetryFires, RequestsSession, TermFlags
    <3>2. TermData'
      BY <2>RetryFires, TermAssumption, SMT DEF RetryFires, RequestsSession, TermData
    <3> QED BY <3>1, <3>2
  <2>NoData. CASE NoData
    <3>1. TermFlags'
      BY <2>NoData, Zenon DEF NoData, RequestsSession, TermFlags
    <3>2. TermData'
      BY <2>NoData, TermAssumption, SMT DEF NoData, RequestsSession, TermData
    <3> QED BY <3>1, <3>2
  <2>TabCloses. CASE TabCloses
    <3>1. TermFlags'
      BY <2>TabCloses, Zenon DEF TabCloses, TermFlags
    <3>2. TermData'
      BY <2>TabCloses, TermAssumption, SMT DEF TabCloses, TermData
    <3> QED BY <3>1, <3>2
  <2>Opened. ASSUME NEW s \in Shells, Opened(s) PROVE TermFlags' /\ TermData'
    <3>1. TermFlags'
      BY <2>Opened, Zenon DEF Opened, TermFlags
    <3>2. TermData'
      BY <2>Opened, TermAssumption, SMT DEF Opened, TermData
    <3> QED BY <3>1, <3>2
  <2>GetsData. ASSUME NEW s \in Shells, GetsData(s) PROVE TermFlags' /\ TermData'
    <3>1. TermFlags'
      BY <2>GetsData, Zenon DEF GetsData, TermFlags
    <3>2. TermData'
      BY <2>GetsData, TermAssumption, SMT DEF GetsData, TermData
    <3> QED BY <3>1, <3>2
  <2>IsRejected. ASSUME NEW s \in Shells, IsRejected(s) PROVE TermFlags' /\ TermData'
    <3>1. TermFlags'
      BY <2>IsRejected, Zenon DEF IsRejected, TermFlags
    <3>2. TermData'
      BY <2>IsRejected, TermAssumption, SMT DEF IsRejected, TermData
    <3> QED BY <3>1, <3>2
  <2>Closes. ASSUME NEW s \in Shells, Closes(s) PROVE TermFlags' /\ TermData'
    <3>1. TermFlags'
      BY <2>Closes, Zenon DEF Closes, IsExpected, TriesAgain, TermFlags
    <3>2. TermData'
      BY <2>Closes, TermAssumption, SMT DEF Closes, IsExpected, TriesAgain, TermData
    <3> QED BY <3>1, <3>2
  <2>Stutters. CASE UNCHANGED termVars
    <3>1. TermFlags'
      BY <2>Stutters, Zenon DEF termVars, TermFlags
    <3>2. TermData'
      BY <2>Stutters, TermAssumption, SMT DEF termVars, TermData
    <3> QED BY <3>1, <3>2
  <2> QED BY <2>GetsSession, <2>GetsError, <2>RetryFires, <2>NoData, <2>TabCloses, <2>Opened,
             <2>GetsData, <2>IsRejected, <2>Closes, <2>Stutters DEF TermNext
<1> QED BY <1>1, <1>2, PTL DEF TermSpec

\* Whatever closes, fails or is answered in whichever order: a tab that has not said
\* that it is over tries again, or is being built anew.
THEOREM TabsAreTended == TermSpec => []TabIsTended
<1> USE TermAssumption DEF TermTypeOK, TabIsTended, Open
<1>1. TermInit => TabIsTended
  BY DEF TermInit
<1>2. TermTypeOK /\ TabIsTended /\ [TermNext]_termVars => TabIsTended'
  <2> SUFFICES ASSUME TermTypeOK, TabIsTended, [TermNext]_termVars PROVE TabIsTended'
    OBVIOUS
  <2>GetsSession. CASE GetsSession
    BY <2>GetsSession DEF GetsSession
  <2>GetsError. CASE GetsError
    BY <2>GetsError DEF GetsError, TriesAgain
  <2>RetryFires. CASE RetryFires
    BY <2>RetryFires DEF RetryFires, RequestsSession
  <2>NoData. CASE NoData
    BY <2>NoData DEF NoData, RequestsSession
  <2>TabCloses. CASE TabCloses
    BY <2>TabCloses DEF TabCloses
  <2>Opened. ASSUME NEW s \in Shells, Opened(s) \/ GetsData(s) \/ IsRejected(s) PROVE TabIsTended'
    BY <2>Opened DEF Opened, GetsData, IsRejected
  <2>Closes. ASSUME NEW s \in Shells, Closes(s) PROVE TabIsTended'
    BY <2>Closes DEF Closes, IsExpected, TriesAgain
  <2>Stutters. CASE UNCHANGED termVars
    BY <2>Stutters DEF termVars
  <2> QED BY <2>GetsSession, <2>GetsError, <2>RetryFires, <2>NoData, <2>TabCloses, <2>Opened,
             <2>Closes, <2>Stutters DEF TermNext
<1> QED BY <1>1, <1>2, TermTypeInductive, PTL DEF TermSpec

\* Of a request, the timer of a request and an open socket there is one at most, and the
\* socket is the one the tab shows.
ShellInv ==
  ~ outrun /\ ~ closed =>
    /\ \A s, t \in ws : s = t
    /\ Open \subseteq ws
    /\ requests <= 1
    /\ requests = 1 \/ retryTimer => Open = {}
    /\ ~ (requests = 1 /\ retryTimer)
    /\ ~ rebuilding => \A s \in noDataTimer : socket[s] = "open"
    /\ ~ rebuilding => \A s \in ws : socket[s] # "closing"

\* A tab that is closed has left nothing.
ShutInv == ~ outrun /\ closed => Open = {} /\ noDataTimer = {}

\* However requests, timers, rebuilding and the ends of sockets cross, no shell is left
\* without a tab.
THEOREM NoShellIsLeft == TermSpec => []NoGhostShell
<1> DEFINE Inv == ShellInv /\ ShutInv
<1> USE TermAssumption DEF TermTypeOK, Open
<1>1. TermInit => Inv
  BY DEF TermInit, ShellInv, ShutInv
<1>2. TermTypeOK /\ Inv /\ [TermNext]_termVars => Inv'
  <2> SUFFICES ASSUME TermTypeOK, Inv, [TermNext]_termVars PROVE Inv'
    OBVIOUS
  <2> USE DEF ShellInv, ShutInv
  <2>GetsSession. CASE GetsSession
    BY <2>GetsSession DEF GetsSession
  <2>GetsError. CASE GetsError
    BY <2>GetsError DEF GetsError, TriesAgain
  <2>RetryFires. CASE RetryFires
    BY <2>RetryFires DEF RetryFires, RequestsSession
  <2>NoData. CASE NoData
    BY <2>NoData DEF NoData, RequestsSession
  <2>TabCloses. CASE TabCloses
    BY <2>TabCloses DEF TabCloses
  <2>Opened. ASSUME NEW s \in Shells, Opened(s) PROVE Inv'
    BY <2>Opened DEF Opened
  <2>GetsData. ASSUME NEW s \in Shells, GetsData(s) PROVE Inv'
    BY <2>GetsData DEF GetsData
  <2>IsRejected. ASSUME NEW s \in Shells, IsRejected(s) PROVE Inv'
    BY <2>IsRejected DEF IsRejected
  <2>Closes. ASSUME NEW s \in Shells, Closes(s) PROVE Inv'
    BY <2>Closes DEF Closes, IsExpected, TriesAgain
  <2>Stutters. CASE UNCHANGED termVars
    BY <2>Stutters DEF termVars
  <2> QED BY <2>GetsSession, <2>GetsError, <2>RetryFires, <2>NoData, <2>TabCloses, <2>Opened,
             <2>GetsData, <2>IsRejected, <2>Closes, <2>Stutters DEF TermNext
<1>3. Inv => NoGhostShell
  BY DEF ShellInv, ShutInv, NoGhostShell
<1> QED BY <1>1, <1>2, <1>3, TermTypeInductive, PTL DEF TermSpec

--------------------------------------------------------------------------------
(* The line of frames under way.                                               *)

Line == toPage \o toAgent

\* What can become of it.
Extends(s, t, f) == Len(t) = Len(s) + 1 /\ t[Len(t)] = f /\ \A k \in 1..Len(s) : t[k] = s[k]
Removes(s, t, p) ==
  Len(s) = Len(t) + 1 /\ p \in 1..Len(s) /\ \A k \in 1..Len(t) : t[k] = IF k < p THEN s[k] ELSE s[k + 1]
Replaces(s, t, p, g) ==
  Len(t) = Len(s) /\ p \in 1..Len(s) /\ t[p] = g /\ \A k \in 1..Len(s) : k # p => t[k] = s[k]

LEMMA Joined ==
  ASSUME NEW F, NEW s \in Seq(F), NEW t \in Seq(F)
  PROVE  /\ s \o t \in Seq(F)
         /\ Len(s \o t) = Len(s) + Len(t)
         /\ \A k \in 1..(Len(s) + Len(t)) : (s \o t)[k] = IF k <= Len(s) THEN s[k] ELSE t[k - Len(s)]
BY ConcatProperties

LEMMA JoinedLater ==
  ASSUME NEW F, NEW s \in Seq(F), NEW t \in Seq(F), NEW f \in F
  PROVE  Extends(s \o t, s \o (t \o <<f>>), f) /\ t \o <<f>> \in Seq(F)
<1>1. <<f>> \in Seq(F) /\ Len(<<f>>) = 1 /\ <<f>>[1] = f
  OBVIOUS
<1>2. /\ t \o <<f>> \in Seq(F) /\ Len(t \o <<f>>) = Len(t) + 1
      /\ \A k \in 1..(Len(t) + 1) : (t \o <<f>>)[k] = IF k <= Len(t) THEN t[k] ELSE f
  BY <1>1, Joined
<1> DEFINE u == t \o <<f>>
<1> HIDE DEF u
<1>3. /\ Len(s \o t) = Len(s) + Len(t) /\ Len(s \o u) = Len(s) + Len(t) + 1
      /\ \A k \in 1..(Len(s) + Len(t)) : (s \o t)[k] = IF k <= Len(s) THEN s[k] ELSE t[k - Len(s)]
      /\ \A k \in 1..(Len(s) + Len(t) + 1) : (s \o u)[k] = IF k <= Len(s) THEN s[k] ELSE u[k - Len(s)]
  BY <1>2, Joined DEF u
<1>4. /\ u \in Seq(F) /\ Len(u) = Len(t) + 1
      /\ \A k \in 1..(Len(t) + 1) : u[k] = IF k <= Len(t) THEN t[k] ELSE f
  BY <1>2 DEF u
<1>5. Extends(s \o t, s \o u, f)
  <2>1. Len(s) \in Nat /\ Len(t) \in Nat
    OBVIOUS
  <2>2. (s \o u)[Len(s) + Len(t) + 1] = f
    BY <1>3, <1>4, <2>1
  <2>3. ASSUME NEW k \in 1..(Len(s) + Len(t)) PROVE (s \o u)[k] = (s \o t)[k]
    <3>1. CASE k <= Len(s)
      BY <1>3, <2>1, <3>1
    <3>2. CASE ~ k <= Len(s)
      <4>1. k - Len(s) \in 1..Len(t)
        BY <2>1, <3>2
      <4> QED BY <1>3, <1>4, <2>1, <3>2, <4>1
    <3> QED BY <3>1, <3>2
  <2> QED BY <1>3, <2>1, <2>2, <2>3 DEF Extends
<1> QED BY <1>4, <1>5 DEF u

LEMMA Appended ==
  ASSUME NEW F, NEW s \in Seq(F), NEW g \in F
  PROVE  /\ Append(s, g) \in Seq(F) /\ Len(Append(s, g)) = Len(s) + 1
         /\ \A k \in 1..(Len(s) + 1) : Append(s, g)[k] = IF k <= Len(s) THEN s[k] ELSE g
BY AppendProperties

LEMMA JoinedTail ==
  ASSUME NEW F, NEW s \in Seq(F), NEW t \in Seq(F), s # <<>>
  PROVE  /\ Removes(s \o t, Tail(s) \o t, 1) /\ (s \o t)[1] = Head(s)
         /\ Tail(s) \in Seq(F) /\ Head(s) \in F
<1>1. /\ Tail(s) \in Seq(F) /\ Len(Tail(s)) = Len(s) - 1 /\ Head(s) = s[1] /\ Head(s) \in F
      /\ \A k \in 1..(Len(s) - 1) : Tail(s)[k] = s[k + 1]
      /\ Len(s) \in Nat /\ Len(s) > 0 /\ Len(t) \in Nat
  BY EmptySeq, HeadTailProperties
<1> DEFINE u == Tail(s)
<1> HIDE DEF u
<1>2. /\ Len(s \o t) = Len(s) + Len(t) /\ Len(u \o t) = Len(s) - 1 + Len(t)
      /\ \A k \in 1..(Len(s) + Len(t)) : (s \o t)[k] = IF k <= Len(s) THEN s[k] ELSE t[k - Len(s)]
      /\ \A k \in 1..(Len(s) - 1 + Len(t)) : (u \o t)[k] = IF k <= Len(s) - 1 THEN u[k] ELSE t[k - (Len(s) - 1)]
  BY <1>1, Joined DEF u
<1>3. ASSUME NEW k \in 1..(Len(s) - 1 + Len(t)) PROVE (u \o t)[k] = (s \o t)[k + 1]
  <2>1. CASE k <= Len(s) - 1
    BY <1>1, <1>2, <2>1 DEF u
  <2>2. CASE ~ k <= Len(s) - 1
    <3>1. k - (Len(s) - 1) = (k + 1) - Len(s) /\ k + 1 \in 1..(Len(s) + Len(t)) /\ k + 1 > Len(s)
      BY <1>1, <2>2
    <3> QED BY <1>1, <1>2, <2>2, <3>1
  <2> QED BY <2>1, <2>2
<1>4. Removes(s \o t, u \o t, 1)
  BY <1>1, <1>2, <1>3 DEF Removes
<1> QED BY <1>1, <1>2, <1>4 DEF u

\* The agent takes the first of its frames and answers, or not.
LEMMA JoinedAnswer ==
  ASSUME NEW F, NEW s \in Seq(F), NEW t \in Seq(F), t # <<>>, NEW g \in F
  PROVE  /\ (s \o t)[Len(s) + 1] = Head(t) /\ Head(t) \in F
         /\ Append(s, g) \in Seq(F) /\ Tail(t) \in Seq(F)
         /\ Replaces(s \o t, Append(s, g) \o Tail(t), Len(s) + 1, g)
         /\ Removes(s \o t, s \o Tail(t), Len(s) + 1)
<1>1. /\ Tail(t) \in Seq(F) /\ Len(Tail(t)) = Len(t) - 1 /\ Head(t) = t[1] /\ Head(t) \in F
      /\ \A k \in 1..(Len(t) - 1) : Tail(t)[k] = t[k + 1]
      /\ Len(t) \in Nat /\ Len(t) > 0 /\ Len(s) \in Nat
  BY EmptySeq, HeadTailProperties
<1>2. /\ Append(s, g) \in Seq(F) /\ Len(Append(s, g)) = Len(s) + 1
      /\ \A k \in 1..(Len(s) + 1) : Append(s, g)[k] = IF k <= Len(s) THEN s[k] ELSE g
  BY AppendProperties
<1> DEFINE u == Tail(t)
           v == Append(s, g)
<1> HIDE DEF u, v
<1>3. /\ Len(s \o t) = Len(s) + Len(t) /\ Len(s \o u) = Len(s) + Len(t) - 1 /\ Len(v \o u) = Len(s) + Len(t)
      /\ \A k \in 1..(Len(s) + Len(t)) : (s \o t)[k] = IF k <= Len(s) THEN s[k] ELSE t[k - Len(s)]
      /\ \A k \in 1..(Len(s) + Len(t) - 1) : (s \o u)[k] = IF k <= Len(s) THEN s[k] ELSE u[k - Len(s)]
      /\ \A k \in 1..(Len(s) + Len(t)) : (v \o u)[k] = IF k <= Len(s) + 1 THEN v[k] ELSE u[k - (Len(s) + 1)]
  <2>whole. /\ Len(s \o t) = Len(s) + Len(t)
            /\ \A k \in 1..(Len(s) + Len(t)) : (s \o t)[k] = IF k <= Len(s) THEN s[k] ELSE t[k - Len(s)]
    BY Joined
  <2>parts. u \in Seq(F) /\ v \in Seq(F) /\ Len(u) = Len(t) - 1 /\ Len(v) = Len(s) + 1
    BY <1>1, <1>2 DEF u, v
  <2>left. /\ Len(s \o u) = Len(s) + Len(u)
           /\ \A k \in 1..(Len(s) + Len(u)) : (s \o u)[k] = IF k <= Len(s) THEN s[k] ELSE u[k - Len(s)]
    BY <2>parts, Joined
  <2>right. /\ Len(v \o u) = Len(v) + Len(u)
            /\ \A k \in 1..(Len(v) + Len(u)) : (v \o u)[k] = IF k <= Len(v) THEN v[k] ELSE u[k - Len(v)]
    BY <2>parts, Joined
  <2>sums. Len(s) + Len(u) = Len(s) + Len(t) - 1 /\ Len(v) + Len(u) = Len(s) + Len(t)
    BY <1>1, <2>parts
  <2> QED BY <2>whole, <2>parts, <2>left, <2>right, <2>sums
<1>4. \A k \in 1..(Len(t) - 1) : u[k] = t[k + 1]
  BY <1>1 DEF u
<1>5. \A k \in 1..(Len(s) + 1) : v[k] = IF k <= Len(s) THEN s[k] ELSE g
  BY <1>2 DEF v
<1>6. Removes(s \o t, s \o u, Len(s) + 1)
  <2>1. ASSUME NEW k \in 1..(Len(s) + Len(t) - 1)
        PROVE  (s \o u)[k] = IF k < Len(s) + 1 THEN (s \o t)[k] ELSE (s \o t)[k + 1]
    <3>1. CASE k <= Len(s)
      BY <1>1, <1>3, <3>1
    <3>2. CASE ~ k <= Len(s)
      <4>1. k - Len(s) \in 1..(Len(t) - 1) /\ (k - Len(s)) + 1 = (k + 1) - Len(s) /\ k + 1 \in 1..(Len(s) + Len(t))
        BY <1>1, <3>2
      <4>2. (s \o u)[k] = t[(k + 1) - Len(s)]
        BY <1>1, <1>3, <1>4, <3>2, <4>1
      <4>3. (s \o t)[k + 1] = t[(k + 1) - Len(s)]
        BY <1>1, <1>3, <3>2, <4>1
      <4> QED BY <1>1, <3>2, <4>2, <4>3
    <3> QED BY <3>1, <3>2
  <2> QED BY <1>1, <1>3, <2>1 DEF Removes
<1>7. Replaces(s \o t, v \o u, Len(s) + 1, g)
  <2>1. ASSUME NEW k \in 1..(Len(s) + Len(t)), k # Len(s) + 1 PROVE (v \o u)[k] = (s \o t)[k]
    <3>1. CASE k <= Len(s)
      BY <1>1, <1>3, <1>5, <3>1
    <3>2. CASE ~ k <= Len(s)
      <4>0. k > Len(s) + 1
        BY <1>1, <2>1, <3>2
      <4>1. k - (Len(s) + 1) \in 1..(Len(t) - 1) /\ (k - (Len(s) + 1)) + 1 = k - Len(s)
        BY <1>1, <4>0
      <4>2. (v \o u)[k] = t[k - Len(s)]
        <5>1. (v \o u)[k] = u[k - (Len(s) + 1)]
          BY <1>1, <1>3, <4>0
        <5>2. u[k - (Len(s) + 1)] = t[(k - (Len(s) + 1)) + 1]
          BY <1>4, <4>1
        <5> QED BY <4>1, <5>1, <5>2
      <4>3. (s \o t)[k] = t[k - Len(s)]
        BY <1>1, <1>3, <4>0
      <4> QED BY <4>2, <4>3
    <3> QED BY <3>1, <3>2
  <2>2. (v \o u)[Len(s) + 1] = g
    BY <1>1, <1>3, <1>5
  <2> QED BY <1>1, <1>3, <2>1, <2>2 DEF Replaces
<1>8. (s \o t)[Len(s) + 1] = Head(t)
  BY <1>1, <1>3
<1> QED BY <1>1, <1>2, <1>6, <1>7, <1>8 DEF u, v

--------------------------------------------------------------------------------
(* Reads: who reads a file waits for the chunk it lacks.                       *)

OfRead(x, doc) == x.type \in {"read", "chunk"} /\ x.path = doc

\* An error is ahead of the k-th frame.
Doomed(s, k) == \E j \in 1..(k - 1) : s[j].type = "error"

\* What a reader has is in order, its next chunk or an error is under way, and what
\* arrives is its next chunk unless the error comes first.
Answered(s, readers, linked) ==
  \A r \in readers :
    /\ InOrder(r.parts) /\ r.path \in Docs
    /\ \A k \in 1..Len(s) : OfRead(s[k], r.path) => s[k].at = Len(r.parts) \/ Doomed(s, k)
    /\ linked => \E k \in 1..Len(s) : OfRead(s[k], r.path) \/ s[k].type = "error"

\* No two frames are of one file.
Single(s) == \A k, l \in 1..Len(s), d \in Docs : OfRead(s[k], d) /\ OfRead(s[l], d) => k = l

\* Two read one file only while an error is ahead of it.
Rivals(s, a, b) ==
  \A e \in a, d \in b, k \in 1..Len(s) : e.path = d.path /\ OfRead(s[k], e.path) => Doomed(s, k)

Reads(s, a, b, linked) ==
  Answered(s, a, linked) /\ Answered(s, b, linked) /\ Single(s) /\ Rivals(s, a, b)

LEMMA ReadsEither ==
  ASSUME NEW s, NEW a, NEW b, NEW linked, Reads(s, a, b, linked)
  PROVE  Reads(s, b, a, linked)
BY DEF Reads, Rivals

LEMMA ReadsFewer ==
  ASSUME NEW s, NEW a, NEW b, NEW linked, Reads(s, a, b, linked), NEW c \in SUBSET a, NEW d \in SUBSET b
  PROVE  Reads(s, c, d, linked)
BY DEF Reads, Rivals, Answered

LEMMA ReadsExtended ==
  ASSUME NEW F, NEW s \in Seq(F), NEW t \in Seq(F), NEW f, Extends(s, t, f),
         NEW a, NEW b, NEW linked, Reads(s, a, b, linked), \A d \in Docs : ~ OfRead(f, d)
  PROVE  Reads(t, a, b, linked)
<1> USE DEF Extends
<1>1. Len(s) \in Nat /\ Len(t) = Len(s) + 1 /\ \A k \in 1..Len(s) : k \in 1..Len(t)
  OBVIOUS
<1>2. \A k \in 1..Len(t), d \in Docs : OfRead(t[k], d) => k \in 1..Len(s)
  BY <1>1
<1>3. \A k \in 1..Len(s) : Doomed(s, k) => Doomed(t, k)
  BY <1>1 DEF Doomed
<1>4. Single(t)
  BY <1>1, <1>2 DEF Reads, Single
<1>5. ASSUME NEW c, Answered(s, c, linked) PROVE Answered(t, c, linked)
  BY <1>1, <1>2, <1>3, <1>5 DEF Answered
<1>6. Rivals(t, a, b)
  BY <1>1, <1>2, <1>3 DEF Reads, Rivals, Answered
<1> QED BY <1>4, <1>5, <1>6 DEF Reads

\* Somebody asks for a chunk of a file nothing of which is under way.
LEMMA ReadsAsked ==
  ASSUME NEW F, NEW s \in Seq(F), NEW t \in Seq(F), NEW f, Extends(s, t, f),
         NEW a, NEW b, Reads(s, a, b, TRUE),
         NEW r, r.path \in Docs, InOrder(r.parts), OfRead(f, r.path), f.at = Len(r.parts),
         \A k \in 1..Len(s) : ~ OfRead(s[k], r.path)
  PROVE  Reads(t, {r}, b, TRUE)
<1> USE DEF Extends
<1>1. Len(s) \in Nat /\ Len(t) = Len(s) + 1 /\ \A k \in 1..Len(s) : k \in 1..Len(t)
  OBVIOUS
<1>2. \A k \in 1..Len(t) : OfRead(t[k], r.path) => k = Len(t)
  BY <1>1
<1>3. \A k \in 1..Len(t), d \in Docs : d # r.path /\ OfRead(t[k], d) => k \in 1..Len(s)
  BY <1>1 DEF OfRead
<1>4. \A k \in 1..Len(s) : Doomed(s, k) => Doomed(t, k)
  BY <1>1 DEF Doomed
<1>5. Single(t)
  BY <1>1, <1>2, <1>3 DEF Reads, Single
<1>6. Answered(t, {r}, TRUE)
  BY <1>1, <1>2 DEF Answered
<1>7. \A d \in b : d.path = r.path => Doomed(t, Len(t))
  <2> SUFFICES ASSUME NEW d \in b, d.path = r.path PROVE Doomed(t, Len(t))
    OBVIOUS
  <2>1. PICK k \in 1..Len(s) : s[k].type = "error"
    BY DEF Reads, Answered
  <2> QED BY <1>1, <2>1 DEF Doomed
<1>8. Answered(t, b, TRUE)
  <2> SUFFICES ASSUME NEW d \in b
               PROVE  /\ InOrder(d.parts) /\ d.path \in Docs
                      /\ \A k \in 1..Len(t) : OfRead(t[k], d.path) => t[k].at = Len(d.parts) \/ Doomed(t, k)
                      /\ \E k \in 1..Len(t) : OfRead(t[k], d.path) \/ t[k].type = "error"
    BY DEF Answered
  <2>1. /\ InOrder(d.parts) /\ d.path \in Docs
        /\ \A k \in 1..Len(s) : OfRead(s[k], d.path) => s[k].at = Len(d.parts) \/ Doomed(s, k)
        /\ \E k \in 1..Len(s) : OfRead(s[k], d.path) \/ s[k].type = "error"
    BY DEF Reads, Answered
  <2>2. \E k \in 1..Len(t) : OfRead(t[k], d.path) \/ t[k].type = "error"
    BY <1>1, <2>1
  <2>3. \A k \in 1..Len(t) : OfRead(t[k], d.path) => t[k].at = Len(d.parts) \/ Doomed(t, k)
    BY <1>1, <1>2, <1>3, <1>4, <1>7, <2>1
  <2> QED BY <2>1, <2>2, <2>3
<1>9. Rivals(t, {r}, b)
  BY <1>2, <1>7 DEF Rivals
<1> QED BY <1>5, <1>6, <1>8, <1>9 DEF Reads

\* A frame leaves the line that is neither an error nor one that somebody waits for.
LEMMA ReadsRemoved ==
  ASSUME NEW F, NEW s \in Seq(F), NEW t \in Seq(F), NEW p, Removes(s, t, p),
         NEW a, NEW b, NEW linked, Reads(s, a, b, linked),
         s[p].type # "error", \A r \in a \cup b : ~ OfRead(s[p], r.path)
  PROVE  Reads(t, a, b, linked)
<1>1. Len(s) \in Nat /\ Len(t) \in Nat /\ Len(s) = Len(t) + 1 /\ p \in 1..Len(s)
  BY DEF Removes
<1> DEFINE At(k) == IF k < p THEN k ELSE k + 1
           To(k) == IF k < p THEN k ELSE k - 1
<1>2. \A k \in 1..Len(t) : At(k) \in 1..Len(s) /\ At(k) # p /\ t[k] = s[At(k)]
  BY <1>1 DEF Removes
<1>3. \A k, l \in 1..Len(t) : (At(k) = At(l) => k = l) /\ (k < l => At(k) < At(l))
  BY <1>1
<1>4. \A k \in 1..Len(s) : k # p => To(k) \in 1..Len(t) /\ At(To(k)) = k
  BY <1>1
<1>5. \A k \in 1..Len(s), l \in 1..Len(t) : k # p /\ k < At(l) => To(k) < l
  BY <1>1
<1> HIDE DEF At, To
<1>6. \A k \in 1..Len(t) : Doomed(s, At(k)) => Doomed(t, k)
  <2> SUFFICES ASSUME NEW k \in 1..Len(t), Doomed(s, At(k)) PROVE Doomed(t, k)
    OBVIOUS
  <2>1. PICK j \in 1..(At(k) - 1) : s[j].type = "error"
    BY DEF Doomed
  <2>2. j \in 1..Len(s) /\ j < At(k) /\ j # p
    BY <1>1, <1>2, <2>1
  <2>3. To(j) \in 1..Len(t) /\ To(j) < k /\ t[To(j)] = s[j]
    BY <1>2, <1>4, <1>5, <2>2
  <2>4. To(j) \in 1..(k - 1)
    BY <1>1, <2>3
  <2> QED BY <2>1, <2>3, <2>4 DEF Doomed
<1>7. Single(t)
  BY <1>2, <1>3 DEF Reads, Single
<1>8. ASSUME NEW c \in {a, b} PROVE Answered(t, c, linked)
  <2> SUFFICES ASSUME NEW d \in c
               PROVE  /\ InOrder(d.parts) /\ d.path \in Docs
                      /\ \A k \in 1..Len(t) : OfRead(t[k], d.path) => t[k].at = Len(d.parts) \/ Doomed(t, k)
                      /\ linked => \E k \in 1..Len(t) : OfRead(t[k], d.path) \/ t[k].type = "error"
    BY DEF Answered
  <2>1. /\ InOrder(d.parts) /\ d.path \in Docs
        /\ \A k \in 1..Len(s) : OfRead(s[k], d.path) => s[k].at = Len(d.parts) \/ Doomed(s, k)
        /\ linked => \E k \in 1..Len(s) : OfRead(s[k], d.path) \/ s[k].type = "error"
    BY <1>8 DEF Reads, Answered
  <2>2. \A k \in 1..Len(t) : OfRead(t[k], d.path) => t[k].at = Len(d.parts) \/ Doomed(t, k)
    BY <1>2, <1>6, <2>1
  <2>3. ASSUME linked PROVE \E k \in 1..Len(t) : OfRead(t[k], d.path) \/ t[k].type = "error"
    <3>1. PICK k \in 1..Len(s) : OfRead(s[k], d.path) \/ s[k].type = "error"
      BY <2>1, <2>3
    <3>2. k # p /\ To(k) \in 1..Len(t) /\ t[To(k)] = s[k]
      BY <1>2, <1>4, <1>8, <3>1
    <3> QED BY <3>1, <3>2
  <2> QED BY <2>1, <2>2, <2>3
<1>9. Rivals(t, a, b)
  BY <1>2, <1>6 DEF Reads, Rivals
<1> QED BY <1>7, <1>8, <1>9 DEF Reads

\* An error arrives, or what nobody waits for any more.
LEMMA ReadsOver ==
  ASSUME NEW F, NEW s \in Seq(F), NEW t \in Seq(F), NEW p, Removes(s, t, p),
         NEW a, NEW b, NEW linked, Reads(s, a, b, linked)
  PROVE  Reads(t, {}, {}, linked)
<1>1. Len(s) \in Nat /\ Len(t) \in Nat /\ Len(s) = Len(t) + 1 /\ p \in 1..Len(s)
  BY DEF Removes
<1> DEFINE At(k) == IF k < p THEN k ELSE k + 1
<1>2. \A k \in 1..Len(t) : At(k) \in 1..Len(s) /\ t[k] = s[At(k)]
  BY <1>1 DEF Removes
<1>3. \A k, l \in 1..Len(t) : At(k) = At(l) => k = l
  BY <1>1
<1> HIDE DEF At
<1>4. Single(t)
  BY <1>2, <1>3 DEF Reads, Single
<1> QED BY <1>4 DEF Reads, Rivals, Answered

\* A frame is replaced by its answer, which is of the same chunk, or by an error.
LEMMA ReadsReplaced ==
  ASSUME NEW F, NEW s \in Seq(F), NEW t \in Seq(F), NEW p, NEW g, Replaces(s, t, p, g),
         NEW a, NEW b, NEW linked, Reads(s, a, b, linked),
         s[p].type # "error",
         \A d \in Docs : OfRead(g, d) => OfRead(s[p], d) /\ g.at = s[p].at,
         \A d \in Docs : OfRead(s[p], d) => OfRead(g, d) \/ g.type = "error"
  PROVE  Reads(t, a, b, linked)
<1>1. Len(s) \in Nat /\ Len(t) = Len(s) /\ p \in 1..Len(s) /\ t[p] = g /\ \A k \in 1..Len(s) : k # p => t[k] = s[k]
  BY DEF Replaces
<1>2. \A k \in 1..Len(s), d \in Docs : OfRead(t[k], d) => OfRead(s[k], d) /\ t[k].at = s[k].at
  BY <1>1
<1>3. \A k \in 1..Len(s) : s[k].type = "error" => t[k].type = "error"
  BY <1>1
<1>4. \A k \in 1..Len(s), d \in Docs : OfRead(s[k], d) => OfRead(t[k], d) \/ t[k].type = "error"
  BY <1>1
<1>5. \A k \in 1..Len(s) : Doomed(s, k) => Doomed(t, k)
  BY <1>1, <1>3 DEF Doomed
<1>6. Single(t)
  BY <1>1, <1>2 DEF Reads, Single
<1>7. ASSUME NEW c \in {a, b} PROVE Answered(t, c, linked)
  <2>1. Answered(s, c, linked)
    BY <1>7 DEF Reads
  <2> QED BY <1>1, <1>2, <1>3, <1>4, <1>5, <2>1 DEF Answered
<1>8. Rivals(t, a, b)
  BY <1>1, <1>2, <1>5 DEF Reads, Rivals, Answered
<1> QED BY <1>6, <1>7, <1>8 DEF Reads

\* The awaited chunk arrives: it is the next of its reader, and no other reads the file.
LEMMA ReadsArrived ==
  ASSUME NEW F, NEW s \in Seq(F), NEW t \in Seq(F), Removes(s, t, 1),
         NEW a, NEW b, NEW linked, Reads(s, a, b, linked),
         NEW r \in a, a = {r}, OfRead(s[1], r.path)
  PROVE  /\ s[1].at = Len(r.parts) /\ InOrder(r.parts) /\ r.path \in Docs
         /\ \A k \in 1..Len(t) : ~ OfRead(t[k], r.path)
         /\ Reads(t, {}, b, linked)
<1>1. Len(s) \in Nat /\ Len(t) \in Nat /\ Len(s) = Len(t) + 1 /\ 1 \in 1..Len(s)
      /\ \A k \in 1..Len(t) : t[k] = s[k + 1] /\ k + 1 \in 1..Len(s)
  BY DEF Removes
<1>2. ~ Doomed(s, 1)
  BY DEF Doomed
<1>3. s[1].at = Len(r.parts) /\ InOrder(r.parts) /\ r.path \in Docs
  BY <1>1, <1>2 DEF Reads, Answered
<1>4. \A k \in 1..Len(t) : ~ OfRead(t[k], r.path)
  BY <1>1, <1>3 DEF Reads, Single
<1>5. \A d \in b : d.path # r.path
  BY <1>1, <1>2 DEF Reads, Rivals
<1>6. s[1].type # "error" /\ \A d \in {} \cup b : ~ OfRead(s[1], d.path)
  BY <1>5 DEF OfRead
<1>7. Reads(s, {}, b, linked)
  BY ReadsFewer
<1>8. Reads(t, {}, b, linked)
  BY <1>6, <1>7, ReadsRemoved
<1> QED BY <1>3, <1>4, <1>8

LEMMA ReadsNothing ==
  ASSUME NEW a, NEW b, \A r \in a \cup b : InOrder(r.parts) /\ r.path \in Docs
  PROVE  Reads(<<>>, a, b, FALSE)
BY DEF Reads, Answered, Single, Rivals

--------------------------------------------------------------------------------
(* Uploads: what is under way is of the upload that runs.                      *)

OfUpload(x) == x.type \in {"write", "written"}

Quiet(s) == \A k \in 1..Len(s) : ~ OfUpload(s[k])

\* A frame that is under way is the only one, and tells how far its upload is.
Chunks(s, running, busy, kept) ==
  /\ \A k \in 1..Len(s) : OfUpload(s[k]) =>
       /\ busy = {}
       /\ \E u \in running :
            /\ s[k].id = u.id /\ u.sent = u.acked + 1
            /\ s[k].type = "write" => s[k].commit = (u.sent >= Size[u.file])
            /\ s[k].type = "written" /\ u.sent >= Size[u.file] => u.id \in kept
  /\ \A k, l \in 1..Len(s) : OfUpload(s[k]) /\ OfUpload(s[l]) => k = l
  /\ \A x \in busy : \E u \in running : x.id = u.id /\ x.file = u.file /\ x.at = u.sent /\ u.sent = u.acked
  /\ \A x, y \in busy : x = y

LEMMA ChunksQuiet ==
  ASSUME NEW s, Quiet(s), NEW running, NEW busy, NEW kept,
         \A x \in busy : \E u \in running : x.id = u.id /\ x.file = u.file /\ x.at = u.sent /\ u.sent = u.acked,
         \A x, y \in busy : x = y
  PROVE  Chunks(s, running, busy, kept)
BY DEF Quiet, Chunks

LEMMA ChunksExtended ==
  ASSUME NEW F, NEW s \in Seq(F), NEW t \in Seq(F), NEW f, Extends(s, t, f), ~ OfUpload(f),
         NEW running, NEW busy, NEW kept, Chunks(s, running, busy, kept)
  PROVE  Chunks(t, running, busy, kept)
<1>1. Len(s) \in Nat /\ Len(t) = Len(s) + 1 /\ \A k \in 1..Len(s) : k \in 1..Len(t)
  BY DEF Extends
<1>2. \A k \in 1..Len(t) : OfUpload(t[k]) => k \in 1..Len(s) /\ t[k] = s[k]
  BY <1>1 DEF Extends
<1> QED BY <1>2 DEF Chunks

LEMMA ChunksRemoved ==
  ASSUME NEW F, NEW s \in Seq(F), NEW t \in Seq(F), NEW p, Removes(s, t, p),
         NEW running, NEW busy, NEW kept, Chunks(s, running, busy, kept)
  PROVE  Chunks(t, running, busy, kept)
<1>1. Len(s) \in Nat /\ Len(t) \in Nat /\ Len(s) = Len(t) + 1 /\ p \in 1..Len(s)
  BY DEF Removes
<1> DEFINE At(k) == IF k < p THEN k ELSE k + 1
<1>2. \A k \in 1..Len(t) : At(k) \in 1..Len(s) /\ t[k] = s[At(k)]
  BY <1>1 DEF Removes
<1>3. \A k, l \in 1..Len(t) : At(k) = At(l) => k = l
  BY <1>1
<1> HIDE DEF At
<1>4. ASSUME NEW k \in 1..Len(t), OfUpload(t[k])
      PROVE  /\ busy = {}
             /\ \E u \in running :
                  /\ t[k].id = u.id /\ u.sent = u.acked + 1
                  /\ t[k].type = "write" => t[k].commit = (u.sent >= Size[u.file])
                  /\ t[k].type = "written" /\ u.sent >= Size[u.file] => u.id \in kept
  <2>1. PICK j \in 1..Len(s) : t[k] = s[j]
    BY <1>2
  <2> QED BY <1>4, <2>1 DEF Chunks
<1>5. \A k, l \in 1..Len(t) : OfUpload(t[k]) /\ OfUpload(t[l]) => k = l
  BY <1>2, <1>3 DEF Chunks
<1> QED BY <1>4, <1>5 DEF Chunks

\* A frame is replaced by one of no upload.
LEMMA ChunksFailed ==
  ASSUME NEW F, NEW s \in Seq(F), NEW t \in Seq(F), NEW p, NEW g, Replaces(s, t, p, g), ~ OfUpload(g),
         NEW running, NEW busy, NEW kept, Chunks(s, running, busy, kept)
  PROVE  Chunks(t, running, busy, kept)
<1>1. Len(s) \in Nat /\ Len(t) = Len(s)
  BY DEF Replaces
<1>2. \A k \in 1..Len(t) : OfUpload(t[k]) => t[k] = s[k]
  BY <1>1 DEF Replaces
<1> QED BY <1>1, <1>2 DEF Chunks

\* A chunk is written.
LEMMA ChunksWritten ==
  ASSUME NEW F, NEW s \in Seq(F), NEW t \in Seq(F), NEW p, NEW g, Replaces(s, t, p, g),
         s[p].type = "write", g.type = "written", g.id = s[p].id,
         NEW running, NEW busy, NEW kept, Chunks(s, running, busy, kept),
         NEW more, kept \subseteq more, s[p].commit => s[p].id \in more
  PROVE  Chunks(t, running, busy, more)
<1>1. Len(s) \in Nat /\ Len(t) = Len(s) /\ p \in 1..Len(s) /\ t[p] = g /\ \A k \in 1..Len(s) : k # p => t[k] = s[k]
  BY DEF Replaces
<1>2. OfUpload(s[p]) /\ OfUpload(g)
  BY DEF OfUpload
<1>3. \A k \in 1..Len(t) : OfUpload(t[k]) => k = p
  BY <1>1, <1>2 DEF Chunks
<1>4. busy = {}
  BY <1>1, <1>2 DEF Chunks
<1>5. PICK u \in running : s[p].id = u.id /\ u.sent = u.acked + 1 /\ s[p].commit = (u.sent >= Size[u.file])
  BY <1>1, <1>2 DEF Chunks
<1>6. t[p].id = u.id /\ t[p].type = "written" /\ (u.sent >= Size[u.file] => u.id \in more)
  BY <1>1, <1>5
<1> QED BY <1>1, <1>3, <1>4, <1>5, <1>6 DEF Chunks

\* The reader of a chunk has finished.
LEMMA ChunksSent ==
  ASSUME NEW F, NEW s \in Seq(F), NEW t \in Seq(F), NEW f, Extends(s, t, f),
         NEW running, NEW busy, NEW kept, Chunks(s, running, busy, kept), NEW x \in busy,
         NEW u, running = {u}, NEW v,
         f.type = "write", f.id = x.id, f.commit = (x.at + 1 >= Size[x.file]),
         v.id = u.id, v.file = u.file, v.sent = u.sent + 1, v.acked = u.acked
  PROVE  /\ x.id = u.id /\ busy = {x}
         /\ Chunks(t, {v}, {}, kept)
         /\ Chunks(s, {v}, {}, kept)
<1>1. x.id = u.id /\ x.file = u.file /\ x.at = u.sent /\ u.sent = u.acked /\ busy = {x}
  BY DEF Chunks
<1>2. Quiet(s)
  BY DEF Chunks, Quiet
<1>3. Len(s) \in Nat /\ Len(t) = Len(s) + 1 /\ t[Len(t)] = f
  BY DEF Extends
<1>4. \A k \in 1..Len(t) : OfUpload(t[k]) => k = Len(t)
  BY <1>2, <1>3 DEF Extends, Quiet
<1>5. f.id = v.id /\ v.sent = v.acked + 1 /\ f.commit = (v.sent >= Size[v.file])
  BY <1>1
<1>6. Chunks(t, {v}, {}, kept)
  BY <1>3, <1>4, <1>5 DEF Chunks
<1>7. Chunks(s, {v}, {}, kept)
  BY <1>2, ChunksQuiet
<1> QED BY <1>1, <1>6, <1>7

\* An answer arrives, and nothing of its upload is left.
LEMMA ChunksAnswered ==
  ASSUME NEW F, NEW s \in Seq(F), NEW t \in Seq(F), Removes(s, t, 1), s[1].type = "written",
         NEW running, NEW busy, NEW kept, Chunks(s, running, busy, kept), NEW u, running = {u}
  PROVE  /\ Quiet(t) /\ busy = {} /\ u.sent = u.acked + 1
         /\ u.sent >= Size[u.file] => u.id \in kept
<1>1. /\ Len(s) \in Nat /\ Len(t) \in Nat /\ Len(s) = Len(t) + 1 /\ 1 \in 1..Len(s)
      /\ \A k \in 1..Len(t) : t[k] = s[k + 1] /\ k + 1 \in 1..Len(s) /\ k + 1 # 1
  BY DEF Removes
<1>2. OfUpload(s[1])
  BY DEF OfUpload
<1>3. Quiet(t)
  BY <1>1, <1>2 DEF Chunks, Quiet
<1> QED BY <1>1, <1>2, <1>3 DEF Chunks

\* Without an upload nothing is under way, and without frames and readers of one neither.
LEMMA ChunksGone ==
  ASSUME NEW s, NEW running, NEW busy, NEW kept, Chunks(s, running, busy, kept),
         \A u \in running : (\A x \in busy : x.id # u.id) /\ \A k \in 1..Len(s) : OfUpload(s[k]) => s[k].id # u.id
  PROVE  Quiet(s) /\ busy = {}
BY DEF Chunks, Quiet

--------------------------------------------------------------------------------
(* The inductive invariant.                                                    *)

Frame ==
  [type : {"write"}, id : Uploads, at : Nat, commit : BOOLEAN] \cup [type : {"abort"}, id : Uploads]
  \cup [type : {"written"}, id : Uploads] \cup [type : {"read"}, path : Docs, at : Nat]
  \cup [type : {"chunk"}, path : Docs, at : Nat, end : BOOLEAN] \cup [type : {"error"}] \cup [type : {"other"}]

Running == [id : Uploads, file : Files, sent : Nat, acked : Nat]
Reader == [path : Docs, parts : Seq(Nat)]

TransferData ==
  /\ toAgent \in Seq(Frame) /\ toPage \in Seq(Frame)
  /\ up = {} \/ \E u \in Running : up = {u}
  /\ reading \subseteq [id : Uploads, file : Files, at : Nat]
  /\ down = {} \/ \E r \in Reader : down = {r}
  /\ edit = {} \/ \E r \in Reader : edit = {r}
  /\ queue \in Seq(Files) /\ asking \subseteq Files

\* Without a connection nothing is under way.
WireInv == ~ connected => toAgent = <<>> /\ toPage = <<>>

\* What is promised of reads, and what that needs.
ReadInv == ~ wrongRead /\ (~ mixed => Reads(Line, edit, down, connected))

\* The same of uploads.
DoneInv == ~ wrongUpload /\ (~ late => Chunks(Line, up, reading, stored))

TransferInv == TransferData /\ WireInv /\ ReadInv /\ DoneInv

LEMMA FramesAre ==
  /\ \A i \in Uploads, n \in Nat, c \in BOOLEAN : [type |-> "write", id |-> i, at |-> n, commit |-> c] \in Frame
  /\ \A i \in Uploads : [type |-> "abort", id |-> i] \in Frame /\ [type |-> "written", id |-> i] \in Frame
  /\ \A d \in Docs, n \in Nat : [type |-> "read", path |-> d, at |-> n] \in Frame
  /\ \A d \in Docs, n \in Nat, c \in BOOLEAN : [type |-> "chunk", path |-> d, at |-> n, end |-> c] \in Frame
  /\ [type |-> "error"] \in Frame /\ [type |-> "other"] \in Frame
BY DEF Frame

LEMMA FrameFields ==
  ASSUME NEW x \in Frame
  PROVE  /\ x.type \in {"write", "written"} => x.id \in Uploads
         /\ x.type = "write" => x.at \in Nat /\ x.commit \in BOOLEAN
         /\ x.type \in {"read", "chunk"} => x.path \in Docs /\ x.at \in Nat
         /\ x.type = "chunk" => x.end \in BOOLEAN
         /\ x.type = "written" => x = [type |-> "written", id |-> x.id]
BY DEF Frame

LEMMA Sizes ==
  /\ Batches \subseteq Seq(Files)
  /\ \A f \in Files : Size[f] \in Nat
  /\ \A d \in Docs : DocSize[d] \in Nat /\ DocSize[d] > 0
BY TransferAssumption

LEMMA LineIs ==
  ASSUME TransferData
  PROVE  Line \in Seq(Frame)
BY Joined DEF TransferData, Line

\* What nextUpload does to the page: an upload goes on, or one begins when none runs.
Goes(running) == UNCHANGED <<reading, part, stored>> /\ up' = running
Began(running) == running = {} /\ \E f \in Files : Begins(f)

LEMMA AdvancesDoes ==
  ASSUME NEW q \in Seq(Files), NEW running, Advances(q, running)
  PROVE  queue' \in Seq(Files) /\ asking' \subseteq Files /\ (Goes(running) \/ Began(running))
<1>1. CASE queue' = <<>> /\ asking' = {} /\ up' = running /\ UNCHANGED <<reading, part, stored>>
  BY <1>1 DEF Goes
<1>2. CASE q # <<>> /\ running = {} /\ queue' = Tail(q) /\ asking' = {} /\ Begins(Head(q))
  <2>1. Tail(q) \in Seq(Files) /\ Head(q) \in Files
    BY <1>2, HeadTailProperties
  <2> QED BY <1>2, <2>1 DEF Began
<1>3. CASE \E i \in 1..Len(q) : /\ queue' = SubSeq(q, i, Len(q)) /\ asking' = {q[i]}
                                /\ up' = running /\ UNCHANGED <<reading, part, stored>>
  <2>1. PICK i \in 1..Len(q) : /\ queue' = SubSeq(q, i, Len(q)) /\ asking' = {q[i]}
                               /\ up' = running /\ UNCHANGED <<reading, part, stored>>
    BY <1>3
  <2>2. SubSeq(q, i, Len(q)) \in Seq(Files) /\ q[i] \in Files
    BY SubSeqProperties
  <2> QED BY <2>1, <2>2 DEF Goes
<1> QED BY <1>1, <1>2, <1>3 DEF Advances

LEMMA OnErrorDoes ==
  ASSUME queue \in Seq(Files), asking \subseteq Files, NEW running, OnError(running)
  PROVE  queue' \in Seq(Files) /\ asking' \subseteq Files /\ (Goes(running) \/ Began(running))
<1>1. CASE queue = <<>>
  BY <1>1 DEF OnError, Goes
<1>2. CASE queue # <<>>
  BY <1>2, AdvancesDoes DEF OnError
<1> QED BY <1>1, <1>2

\* An upload that begins finds nothing of another one: what that leaves of the invariant.
LEMMA BeginsDoes ==
  ASSUME TransferData, NEW f \in Files, Begins(f)
  PROVE  /\ up' = {} \/ \E u \in Running : up' = {u}
         /\ reading' \subseteq [id : Uploads, file : Files, at : Nat]
         /\ \A s : Quiet(s) /\ reading = {} => Chunks(s, up', reading', stored')
<1>1. PICK i \in Uploads :
        /\ up' = {[id |-> i, file |-> f, sent |-> 0, acked |-> 0]}
        /\ reading' = IF Size[f] = 0 THEN reading ELSE reading \cup {[id |-> i, file |-> f, at |-> 0]}
  BY DEF Begins
<1>2. [id |-> i, file |-> f, sent |-> 0, acked |-> 0] \in Running
  BY DEF Running
<1>3. [id |-> i, file |-> f, at |-> 0] \in [id : Uploads, file : Files, at : Nat]
  OBVIOUS
<1>4. reading' \subseteq [id : Uploads, file : Files, at : Nat]
  BY <1>1, <1>3 DEF TransferData
<1>5. ASSUME NEW s, Quiet(s), reading = {} PROVE Chunks(s, up', reading', stored')
  <2>1. \A x \in reading' : x = [id |-> i, file |-> f, at |-> 0]
    BY <1>1, <1>5
  <2>2. \A x, y \in reading' : x = y
    BY <2>1
  <2>3. \A x \in reading' : \E u \in up' : x.id = u.id /\ x.file = u.file /\ x.at = u.sent /\ u.sent = u.acked
    BY <1>1, <2>1
  <2> QED BY <1>5, <2>2, <2>3, ChunksQuiet
<1> QED BY <1>1, <1>2, <1>4, <1>5

\* The same, whether an upload goes on or begins.
LEMMA MovesOn ==
  ASSUME TransferData, NEW running, Goes(running) \/ Began(running),
         running = {} \/ \E u \in Running : running = {u}
  PROVE  /\ up' = {} \/ \E u \in Running : up' = {u}
         /\ reading' \subseteq [id : Uploads, file : Files, at : Nat]
         /\ \A s : Chunks(s, running, reading, stored) => Chunks(s, up', reading', stored')
<1>1. CASE Goes(running)
  BY <1>1 DEF Goes, TransferData
<1>2. CASE Began(running)
  <2>1. running = {}
    BY <1>2 DEF Began
  <2>2. PICK f \in Files : Begins(f)
    BY <1>2 DEF Began
  <2>3. \A s : Chunks(s, running, reading, stored) => Quiet(s) /\ reading = {}
    BY <2>1, ChunksGone
  <2> QED BY <2>2, <2>3, BeginsDoes
<1> QED BY <1>1, <1>2

\* A frame is sent.
LEMMA Sent ==
  ASSUME TransferData, WireInv, NEW f \in Frame, Send(<<f>>), toPage' = toPage
  PROVE  /\ toAgent' \in Seq(Frame) /\ Line' \in Seq(Frame)
         /\ connected => Extends(Line, Line', f)
         /\ ~ connected => Line' = Line /\ Line = <<>> /\ toAgent' = <<>> /\ toPage' = <<>>
<1>1. CASE connected
  <2>sent. toAgent' = toAgent \o <<f>>
    BY <1>1 DEF Send
  <2>extends. Extends(toPage \o toAgent, toPage \o (toAgent \o <<f>>), f) /\ toAgent \o <<f>> \in Seq(Frame)
    BY JoinedLater DEF TransferData
  <2>line. Line' = toPage \o (toAgent \o <<f>>)
    BY <2>sent DEF Line
  <2>typed. Line' \in Seq(Frame)
    BY <2>extends, <2>line, Joined DEF TransferData
  <2> QED BY <1>1, <2>sent, <2>extends, <2>line, <2>typed DEF Line
<1>2. CASE ~ connected
  BY <1>2, LineIs DEF Send, WireInv, Line, TransferData
<1> QED BY <1>1, <1>2

\* A frame arrives at the page.
LEMMA Arrived ==
  ASSUME TransferData, WireInv, toPage # <<>>
  PROVE  /\ Removes(Line, Tail(toPage) \o toAgent, 1) /\ Line[1] = Head(toPage)
         /\ Tail(toPage) \in Seq(Frame) /\ Head(toPage) \in Frame
         /\ Tail(toPage) \o toAgent \in Seq(Frame)
         /\ connected
<1>1. /\ Removes(Line, Tail(toPage) \o toAgent, 1) /\ Line[1] = Head(toPage)
      /\ Tail(toPage) \in Seq(Frame) /\ Head(toPage) \in Frame
  BY JoinedTail DEF TransferData, Line
<1>2. Tail(toPage) \o toAgent \in Seq(Frame)
  BY <1>1, Joined DEF TransferData
<1> QED BY <1>1, <1>2 DEF WireInv

LEMMA OnTheLine ==
  ASSUME NEW F, NEW s \in Seq(F), NEW t \in Seq(F)
  PROVE  Elements(t) \cup Elements(s) = {(s \o t)[k] : k \in 1..Len(s \o t)}
<1>1. /\ Len(s \o t) = Len(s) + Len(t) /\ Len(s) \in Nat /\ Len(t) \in Nat
      /\ \A k \in 1..(Len(s) + Len(t)) : (s \o t)[k] = IF k <= Len(s) THEN s[k] ELSE t[k - Len(s)]
  BY Joined
<1> DEFINE u == s \o t
<1> HIDE DEF u
<1>2. ASSUME NEW k \in 1..Len(u) PROVE u[k] \in Elements(t) \cup Elements(s)
  <2>1. CASE k <= Len(s)
    BY <1>1, <2>1 DEF Elements, u
  <2>2. CASE ~ k <= Len(s)
    <3>1. k - Len(s) \in 1..Len(t) /\ u[k] = t[k - Len(s)]
      BY <1>1, <2>2 DEF u
    <3> QED BY <3>1 DEF Elements
  <2> QED BY <2>1, <2>2
<1>3. ASSUME NEW x \in Elements(s) PROVE x \in {u[k] : k \in 1..Len(u)}
  <2>1. PICK i \in 1..Len(s) : x = s[i]
    BY <1>3 DEF Elements
  <2>2. i \in 1..Len(u) /\ u[i] = x
    BY <1>1, <2>1 DEF u
  <2> QED BY <2>2
<1>4. ASSUME NEW x \in Elements(t) PROVE x \in {u[k] : k \in 1..Len(u)}
  <2>picked. PICK i \in 1..Len(t) : x = t[i]
    BY <1>4 DEF Elements
  <2>shifted. i + Len(s) \in 1..Len(u) /\ (i + Len(s)) - Len(s) = i
    BY <1>1, <2>picked DEF u
  <2>value. u[i + Len(s)] = IF i + Len(s) <= Len(s) THEN s[i + Len(s)] ELSE t[(i + Len(s)) - Len(s)]
    BY <1>1, <2>shifted DEF u
  <2>beyond. ~ i + Len(s) <= Len(s)
    BY <1>1
  <2>found. u[i + Len(s)] = x
    BY <2>picked, <2>shifted, <2>value, <2>beyond
  <2> QED BY <2>shifted, <2>found
<1> QED BY <1>2, <1>3, <1>4 DEF u

LEMMA NoLine == <<>> \o <<>> = <<>> /\ Len(<<>>) = 0
OBVIOUS

\* An upload that is over has left nothing, or late says so.
LEMMA NoneLeft ==
  ASSUME toPage' \in Seq(Frame), toAgent' \in Seq(Frame), NEW ids, Outlived(ids), ~ late'
  PROVE  /\ ~ late
         /\ \A x \in reading : x.id \notin ids
         /\ \A k \in 1..Len(Line') : OfUpload(Line'[k]) => Line'[k].id \notin ids
<1>1. ~ late /\ ids \cap {x.id : x \in {y \in Under' : y.type \in {"write", "written"}} \cup reading} = {}
  BY DEF Outlived
<1>2. Under' = {Line'[k] : k \in 1..Len(Line')}
  <2>1. Elements(toAgent') \cup Elements(toPage') = {(toPage' \o toAgent')[k] : k \in 1..Len(toPage' \o toAgent')}
    BY OnTheLine
  <2>2. Under' = Elements(toAgent') \cup Elements(toPage')
    BY DEF Under, Elements
  <2> QED BY <2>1, <2>2 DEF Line
<1>3. \A x \in reading : x.id \notin ids
  <2> SUFFICES ASSUME NEW x \in reading, x.id \in ids PROVE FALSE
    OBVIOUS
  <2>1. x.id \in {z.id : z \in {y \in Under' : y.type \in {"write", "written"}} \cup reading}
    OBVIOUS
  <2> QED BY <1>1, <2>1
<1>4. \A k \in 1..Len(Line') : OfUpload(Line'[k]) => Line'[k].id \notin ids
  <2> SUFFICES ASSUME NEW k \in 1..Len(Line'), OfUpload(Line'[k]), Line'[k].id \in ids PROVE FALSE
    OBVIOUS
  <2> DEFINE x == Line'[k]
  <2>1. x \in {y \in Under' : y.type \in {"write", "written"}}
    BY <1>2 DEF OfUpload
  <2> HIDE DEF x
  <2>2. x.id \in {z.id : z \in {y \in Under' : y.type \in {"write", "written"}} \cup reading}
    BY <2>1
  <2>3. x.id \in ids
    BY DEF x
  <2> QED BY <1>1, <2>2, <2>3
<1> QED BY <1>1, <1>3, <1>4

--------------------------------------------------------------------------------
(* The steps.                                                                  *)

LEMMA UserUploadsKeeps ==
  ASSUME TransferInv, NEW files \in Batches, UserUploads(files)
  PROVE  TransferInv'
<1>1. /\ UNCHANGED <<down, edit, connected, toAgent, toPage, late, mixed, wrongUpload, wrongRead>>
      /\ files \in Seq(Files) /\ Advances(files, up)
  BY Sizes DEF UserUploads, wireVars
<1>2. queue' \in Seq(Files) /\ asking' \subseteq Files /\ (Goes(up) \/ Began(up))
  BY <1>1, AdvancesDoes
<1>3. /\ up' = {} \/ \E u \in Running : up' = {u}
      /\ reading' \subseteq [id : Uploads, file : Files, at : Nat]
      /\ \A s : Chunks(s, up, reading, stored) => Chunks(s, up', reading', stored')
  BY <1>2, MovesOn DEF TransferInv, TransferData
<1>4. Line' = Line
  BY <1>1 DEF Line
<1> QED BY <1>1, <1>2, <1>3, <1>4 DEF TransferInv, TransferData, WireInv, ReadInv, DoneInv

LEMMA AnswersKeeps ==
  ASSUME TransferInv, Answers
  PROVE  TransferInv'
<1>1. UNCHANGED <<down, edit, connected, toAgent, toPage, late, mixed, wrongUpload, wrongRead>>
  BY DEF Answers, wireVars
<1>2. (IF queue = <<>> THEN queue ELSE Tail(queue)) \in Seq(Files)
  BY HeadTailProperties DEF TransferInv, TransferData
<1>3. queue' \in Seq(Files) /\ asking' \subseteq Files /\ (Goes(up) \/ Began(up))
  <2>1. CASE Advances(IF queue = <<>> THEN queue ELSE Tail(queue), up)
    BY <1>2, <2>1, AdvancesDoes
  <2>2. CASE /\ up = {} /\ asking' = {}
             /\ queue' = IF queue = <<>> THEN queue ELSE Tail(queue)
             /\ \E file \in asking : Begins(file)
    BY <1>2, <2>2 DEF Began, TransferInv, TransferData
  <2> QED BY <2>1, <2>2 DEF Answers
<1>4. /\ up' = {} \/ \E u \in Running : up' = {u}
      /\ reading' \subseteq [id : Uploads, file : Files, at : Nat]
      /\ \A s : Chunks(s, up, reading, stored) => Chunks(s, up', reading', stored')
  BY <1>3, MovesOn DEF TransferInv, TransferData
<1>5. Line' = Line
  BY <1>1 DEF Line
<1> QED BY <1>1, <1>3, <1>4, <1>5 DEF TransferInv, TransferData, WireInv, ReadInv, DoneInv

LEMMA SavesKeeps ==
  ASSUME TransferInv, NEW file \in Files, Saves(file)
  PROVE  TransferInv'
<1>1. UNCHANGED <<down, edit, connected, toAgent, toPage, late, mixed, wrongUpload, wrongRead>>
  BY DEF Saves, wireVars, historyVars
<1>2. queue' \in Seq(Files) /\ asking' \subseteq Files /\ (Goes(up) \/ Began(up))
  <2>1. CASE up = {}
    BY <2>1 DEF Saves, Began, TransferInv, TransferData
  <2>2. CASE up # {}
    BY <2>2, OnErrorDoes DEF Saves, TransferInv, TransferData
  <2> QED BY <2>1, <2>2
<1>3. /\ up' = {} \/ \E u \in Running : up' = {u}
      /\ reading' \subseteq [id : Uploads, file : Files, at : Nat]
      /\ \A s : Chunks(s, up, reading, stored) => Chunks(s, up', reading', stored')
  BY <1>2, MovesOn DEF TransferInv, TransferData
<1>4. Line' = Line
  BY <1>1 DEF Line
<1> QED BY <1>1, <1>2, <1>3, <1>4 DEF TransferInv, TransferData, WireInv, ReadInv, DoneInv

LEMMA CommandsKeeps ==
  ASSUME TransferInv, Commands
  PROVE  TransferInv'
<1>1. /\ UNCHANGED <<up, reading, down, edit, queue, asking, connected, toPage, stored, late, mixed, wrongUpload, wrongRead>>
      /\ connected /\ Send(<<[type |-> "other"]>>)
  BY DEF Commands, pageVars, agentVars, historyVars
<1> DEFINE f == [type |-> "other"]
<1>2. /\ f \in Frame /\ ~ OfUpload(f) /\ \A d \in Docs : ~ OfRead(f, d)
  BY FramesAre DEF OfUpload, OfRead
<1> HIDE DEF f
<1>3. toAgent' \in Seq(Frame) /\ Line \in Seq(Frame) /\ Line' \in Seq(Frame) /\ Extends(Line, Line', f)
  BY <1>1, <1>2, Sent, LineIs DEF f, TransferInv
<1>4. ~ mixed => Reads(Line', edit, down, connected)
  BY <1>2, <1>3, ReadsExtended DEF TransferInv, ReadInv
<1>5. ~ late => Chunks(Line', up, reading, stored)
  BY <1>2, <1>3, ChunksExtended DEF TransferInv, DoneInv
<1> QED BY <1>1, <1>3, <1>4, <1>5 DEF TransferInv, TransferData, WireInv, ReadInv, DoneInv

LEMMA CancelsUploadKeeps ==
  ASSUME TransferInv, CancelsUpload
  PROVE  TransferInv'
<1>1. /\ UNCHANGED <<reading, down, edit, asking, connected, toPage, stored, mixed, wrongUpload, wrongRead>>
      /\ up' = {} /\ queue' = <<>> /\ Outlived(Ids(up))
  BY DEF CancelsUpload, agentVars
<1>2. PICK u \in up : Send(<<[type |-> "abort", id |-> u.id]>>)
  BY DEF CancelsUpload
<1>3. u \in Running /\ up = {u} /\ u.id \in Uploads
  BY DEF TransferInv, TransferData, Running
<1> DEFINE f == [type |-> "abort", id |-> u.id]
<1>4. f \in Frame /\ ~ OfUpload(f) /\ \A d \in Docs : ~ OfRead(f, d)
  BY <1>3, FramesAre DEF OfUpload, OfRead
<1> HIDE DEF f
<1>5. /\ toAgent' \in Seq(Frame) /\ Line \in Seq(Frame) /\ Line' \in Seq(Frame)
      /\ connected => Extends(Line, Line', f)
      /\ ~ connected => Line' = Line /\ toAgent' = <<>> /\ toPage' = <<>>
  BY <1>1, <1>2, <1>4, Sent, LineIs DEF f, TransferInv
<1>6. ~ mixed => Reads(Line', edit, down, connected)
  <2>1. CASE connected
    BY <1>4, <1>5, <2>1, ReadsExtended DEF TransferInv, ReadInv
  <2>2. CASE ~ connected
    BY <1>5, <2>2 DEF TransferInv, ReadInv
  <2> QED BY <2>1, <2>2
<1>7. ASSUME ~ late' PROVE Chunks(Line', {}, reading, stored)
  <2>1. /\ ~ late /\ \A x \in reading : x.id # u.id
        /\ \A k \in 1..Len(Line') : OfUpload(Line'[k]) => Line'[k].id # u.id
    <3>1. toPage' \in Seq(Frame) /\ toAgent' \in Seq(Frame)
      BY <1>1, <1>5 DEF TransferInv, TransferData
    <3>2. u.id \in Ids(up)
      BY DEF Ids
    <3> QED BY <1>1, <1>7, <3>1, <3>2, NoneLeft
  <2>2. Chunks(Line', up, reading, stored)
    <3>1. CASE connected
      BY <1>4, <1>5, <2>1, <3>1, ChunksExtended DEF TransferInv, DoneInv
    <3>2. CASE ~ connected
      BY <1>5, <2>1, <3>2 DEF TransferInv, DoneInv
    <3> QED BY <3>1, <3>2
  <2>3. Quiet(Line') /\ reading = {}
    BY <1>3, <2>1, <2>2, ChunksGone
  <2> QED BY <2>3, ChunksQuiet
<1>8. <<>> \in Seq(Files)
  OBVIOUS
<1> QED BY <1>1, <1>5, <1>6, <1>7, <1>8 DEF TransferInv, TransferData, WireInv, ReadInv, DoneInv

LEMMA LoadedKeeps ==
  ASSUME TransferInv, Loaded
  PROVE  TransferInv'
<1>1. PICK x \in reading :
        /\ reading' = reading \ {x}
        /\ IF up = {} THEN UNCHANGED <<up, toAgent>>
           ELSE /\ Send(<<[type |-> "write", id |-> x.id, at |-> x.at, commit |-> x.at + 1 >= Size[x.file]]>>)
                /\ up' = {IF u.id = x.id THEN [u EXCEPT !.sent = @ + 1] ELSE u : u \in up}
        /\ UNCHANGED <<down, edit, queue, asking, connected, toPage, stored, late, mixed, wrongUpload, wrongRead>>
  BY DEF Loaded, agentVars, historyVars
<1>2. x \in [id : Uploads, file : Files, at : Nat] /\ reading' \subseteq [id : Uploads, file : Files, at : Nat]
  BY <1>1 DEF TransferInv, TransferData
<1>3. CASE up = {}
  <2>1. Line' = Line /\ UNCHANGED <<up, toAgent>>
    BY <1>1, <1>3 DEF Line
  <2>2. ~ late => Chunks(Line, up, reading', stored)
    <3> SUFFICES ASSUME ~ late PROVE Chunks(Line, up, reading', stored)
      OBVIOUS
    <3>1. Chunks(Line, up, reading, stored)
      BY DEF TransferInv, DoneInv
    <3>2. Quiet(Line) /\ reading = {}
      BY <1>3, <3>1, ChunksGone
    <3> QED BY <3>2
  <2> QED BY <1>1, <1>2, <2>1, <2>2 DEF TransferInv, TransferData, WireInv, ReadInv, DoneInv
<1>4. CASE up # {}
  <2>picked. PICK u \in Running : up = {u}
    BY <1>4 DEF TransferInv, TransferData
  <2> DEFINE f == [type |-> "write", id |-> x.id, at |-> x.at, commit |-> x.at + 1 >= Size[x.file]]
             v == IF u.id = x.id THEN [u EXCEPT !.sent = @ + 1] ELSE u
  <2>next. v \in Running /\ up' = {v}
    <3>1. up' = {v}
      BY <1>1, <1>4, <2>picked
    <3>2. v \in Running
      BY DEF Running
    <3> QED BY <3>1, <3>2
  <2>frame. f \in Frame /\ (\A d \in Docs : ~ OfRead(f, d)) /\ f.type = "write" /\ f.id = x.id /\ f.commit = (x.at + 1 >= Size[x.file])
    <3>1. (x.at + 1 >= Size[x.file]) \in BOOLEAN
      OBVIOUS
    <3>2. x.id \in Uploads /\ x.at \in Nat
      BY <1>2
    <3>3. f \in Frame
      BY <3>1, <3>2, FramesAre
    <3> QED BY <3>3 DEF OfRead
  <2>same. u.id = x.id => v.id = u.id /\ v.file = u.file /\ v.sent = u.sent + 1 /\ v.acked = u.acked
    BY DEF Running
  <2>sends. Send(<<f>>)
    BY <1>1, <1>4
  <2> HIDE DEF f, v
  <2>lines. /\ toAgent' \in Seq(Frame) /\ Line \in Seq(Frame) /\ Line' \in Seq(Frame)
            /\ connected => Extends(Line, Line', f)
            /\ ~ connected => Line' = Line /\ toAgent' = <<>> /\ toPage' = <<>>
    BY <1>1, <2>frame, <2>sends, Sent, LineIs DEF TransferInv
  <2>reads. ~ mixed => Reads(Line', edit, down, connected)
    <3>1. CASE connected
      BY <2>frame, <2>lines, <3>1, ReadsExtended DEF TransferInv, ReadInv
    <3>2. CASE ~ connected
      BY <2>lines, <3>2 DEF TransferInv, ReadInv
    <3> QED BY <3>1, <3>2
  <2>chunks. ASSUME ~ late PROVE Chunks(Line', up', reading', stored)
    <3>1. Chunks(Line, up, reading, stored)
      BY <2>chunks DEF TransferInv, DoneInv
    <3>2. x.id = u.id /\ reading = {x}
      BY <2>picked, <3>1 DEF Chunks
    <3>3. reading' = {}
      BY <1>1, <3>2
    <3>4. CASE connected
      BY <2>picked, <2>next, <2>frame, <2>same, <2>lines, <3>1, <3>2, <3>3, <3>4, ChunksSent
    <3>5. CASE ~ connected
      <4>1. Quiet(Line)
        BY <3>1, <3>2 DEF Chunks, Quiet
      <4> QED BY <2>lines, <3>3, <3>5, <4>1, ChunksQuiet
    <3> QED BY <3>4, <3>5
  <2> QED BY <1>1, <1>2, <2>next, <2>lines, <2>reads, <2>chunks DEF TransferInv, TransferData,
             WireInv, ReadInv, DoneInv
<1> QED BY <1>3, <1>4

\* A read begins, of a file nothing of which is under way.
LEMMA NewReadKeeps ==
  ASSUME TransferInv, NEW doc \in Docs, NewRead(doc), UNCHANGED <<toPage, connected>>, NEW a, NEW b,
         ~ mixed => Reads(Line, a, b, connected),
         NEW r, r = [path |-> doc, parts |-> <<>>]
  PROVE  /\ r \in Reader /\ toAgent' \in Seq(Frame) /\ (~ connected => toAgent' = <<>>)
         /\ ~ mixed' => Reads(Line', {r}, b, connected)
         /\ ~ late => Chunks(Line', up, reading, stored)
<1> DEFINE f == Read(doc, 0)
<1>1. /\ f \in Frame /\ ~ OfUpload(f) /\ OfRead(f, r.path) /\ f.at = Len(r.parts)
      /\ r.path = doc /\ InOrder(r.parts) /\ r \in Reader
  <2>1. f \in Frame /\ ~ OfUpload(f) /\ OfRead(f, r.path) /\ r.path = doc
    BY FramesAre DEF Read, OfUpload, OfRead
  <2>2. f.at = Len(r.parts) /\ InOrder(r.parts)
    BY DEF Read, InOrder
  <2>3. r \in Reader
    <3>1. <<>> \in Seq(Nat)
      OBVIOUS
    <3> QED BY <3>1 DEF Reader
  <2> QED BY <2>1, <2>2, <2>3
<1>2. Send(<<f>>) /\ mixed' = (mixed \/ Frames({"read", "chunk"}, doc) # {})
  BY DEF NewRead
<1> HIDE DEF f
<1>3. /\ toAgent' \in Seq(Frame) /\ Line \in Seq(Frame) /\ Line' \in Seq(Frame)
      /\ connected => Extends(Line, Line', f)
      /\ ~ connected => Line' = Line /\ Line = <<>> /\ toAgent' = <<>> /\ toPage' = <<>>
  BY <1>1, <1>2, Sent, LineIs DEF TransferInv
<1>4. ASSUME ~ mixed' PROVE ~ mixed /\ \A k \in 1..Len(Line) : ~ OfRead(Line[k], doc)
  <2>1. ~ mixed /\ Frames({"read", "chunk"}, doc) = {}
    BY <1>2, <1>4
  <2>2. Under = {Line[k] : k \in 1..Len(Line)}
    BY OnTheLine DEF Under, Line, TransferInv, TransferData
  <2> QED BY <2>1, <2>2 DEF Frames, OfRead
<1>5. ASSUME ~ mixed' PROVE Reads(Line', {r}, b, connected)
  <2>1. Reads(Line, a, b, connected)
    BY <1>4, <1>5
  <2>2. CASE connected
    <3>1. Reads(Line, a, b, TRUE)
      BY <2>1, <2>2 DEF Reads, Answered
    <3>2. Reads(Line', {r}, b, TRUE)
      BY <1>1, <1>3, <1>4, <1>5, <2>2, <3>1, ReadsAsked
    <3> QED BY <2>2, <3>2 DEF Reads, Answered
  <2>3. CASE ~ connected
    <3>1. \A x \in {r} \cup b : InOrder(x.parts) /\ x.path \in Docs
      BY <1>1, <2>1 DEF Reads, Answered
    <3>2. Reads(<<>>, {r}, b, FALSE)
      BY <3>1, ReadsNothing
    <3> QED BY <1>3, <2>3, <3>2 DEF Reads, Answered
  <2> QED BY <2>2, <2>3
<1>6. ASSUME ~ late PROVE Chunks(Line', up, reading, stored)
  <2>1. Chunks(Line, up, reading, stored)
    BY <1>6 DEF TransferInv, DoneInv
  <2>2. CASE connected
    BY <1>1, <1>3, <2>1, <2>2, ChunksExtended
  <2> QED BY <1>3, <2>1, <2>2
<1> QED BY <1>1, <1>3, <1>5, <1>6

LEMMA DownloadsKeeps ==
  ASSUME TransferInv, NEW doc \in Docs, Downloads(doc)
  PROVE  TransferInv'
<1>1. UNCHANGED <<edit, connected, toPage, late, wrongUpload, wrongRead>>
  BY DEF Downloads
<1>2. CASE down # {}
  <2>rest. UNCHANGED <<down, toAgent, mixed>> /\ OnError(up)
    BY <1>2 DEF Downloads
  <2>queue. queue' \in Seq(Files) /\ asking' \subseteq Files /\ (Goes(up) \/ Began(up))
    BY <2>rest, OnErrorDoes DEF TransferInv, TransferData
  <2>runs. /\ up' = {} \/ \E u \in Running : up' = {u}
           /\ reading' \subseteq [id : Uploads, file : Files, at : Nat]
           /\ \A s : Chunks(s, up, reading, stored) => Chunks(s, up', reading', stored')
    BY <2>queue, MovesOn DEF TransferInv, TransferData
  <2>line. Line' = Line
    BY <1>1, <2>rest DEF Line
  <2> QED BY <1>1, <2>rest, <2>queue, <2>runs, <2>line DEF TransferInv, TransferData, WireInv,
             ReadInv, DoneInv
<1>3. CASE down = {}
  <2> DEFINE r == [path |-> doc, parts |-> <<>>]
  <2>1. down' = {r} /\ NewRead(doc) /\ UNCHANGED <<up, queue, asking, reading, stored>>
    BY <1>3 DEF Downloads
  <2>2. ~ mixed => Reads(Line, down, edit, connected)
    BY ReadsEither DEF TransferInv, ReadInv
  <2>3. /\ r \in Reader /\ toAgent' \in Seq(Frame) /\ (~ connected => toAgent' = <<>>)
        /\ ~ mixed' => Reads(Line', {r}, edit, connected)
        /\ ~ late => Chunks(Line', up, reading, stored)
    BY <1>1, <2>1, <2>2, NewReadKeeps
  <2>4. ~ mixed' => Reads(Line', edit, {r}, connected)
    BY <2>3, ReadsEither
  <2> HIDE DEF r
  <2> QED BY <1>1, <2>1, <2>3, <2>4 DEF TransferInv, TransferData, WireInv, ReadInv, DoneInv
<1> QED BY <1>2, <1>3

LEMMA EditsKeeps ==
  ASSUME TransferInv, NEW doc \in Docs, Edits(doc)
  PROVE  TransferInv'
<1> DEFINE r == [path |-> doc, parts |-> <<>>]
<1>1. /\ UNCHANGED <<up, reading, down, queue, asking, connected, toPage, stored, late, wrongUpload, wrongRead>>
      /\ edit' = {r} /\ NewRead(doc)
  BY DEF Edits, agentVars
<1>2. ~ mixed => Reads(Line, edit, down, connected)
  BY DEF TransferInv, ReadInv
<1>3. /\ r \in Reader /\ toAgent' \in Seq(Frame) /\ (~ connected => toAgent' = <<>>)
      /\ ~ mixed' => Reads(Line', {r}, down, connected)
      /\ ~ late => Chunks(Line', up, reading, stored)
  BY <1>1, <1>2, NewReadKeeps
<1> HIDE DEF r
<1> QED BY <1>1, <1>3 DEF TransferInv, TransferData, WireInv, ReadInv, DoneInv

LEMMA CancelsReadKeeps ==
  ASSUME TransferInv, CancelsDownload \/ CancelsEdit
  PROVE  TransferInv'
<1>1. UNCHANGED <<up, reading, queue, asking, connected, toAgent, toPage, stored, late, mixed, wrongUpload, wrongRead>>
  BY DEF CancelsDownload, CancelsEdit, wireVars, agentVars, historyVars
<1>2. (down' = {} /\ edit' = edit) \/ (edit' = {} /\ down' = down)
  BY DEF CancelsDownload, CancelsEdit
<1>3. edit' \in SUBSET edit /\ down' \in SUBSET down
  BY <1>2
<1>4. ~ mixed => Reads(Line, edit', down', connected)
  BY <1>3, ReadsFewer DEF TransferInv, ReadInv
<1>5. Line' = Line
  BY <1>1 DEF Line
<1> QED BY <1>1, <1>2, <1>4, <1>5 DEF TransferInv, TransferData, WireInv, ReadInv, DoneInv

LEMMA EndsKeeps ==
  ASSUME TransferInv, Ends
  PROVE  TransferInv'
<1>1. /\ up' = {} /\ down' = {} /\ edit' = {} /\ connected' = FALSE /\ toAgent' = <<>> /\ toPage' = <<>>
      /\ late' = (reading # {}) /\ UNCHANGED <<reading, queue, asking, stored, wrongUpload, wrongRead>>
  BY DEF Ends, AnswersLost
<1>2. Line' = <<>> /\ <<>> \in Seq(Frame)
  BY <1>1, NoLine DEF Line
<1>3. Reads(<<>>, {}, {}, FALSE)
  BY ReadsNothing
<1>4. ASSUME ~ late' PROVE Chunks(<<>>, {}, reading, stored)
  <2>1. reading = {}
    BY <1>1, <1>4
  <2>2. Quiet(<<>>)
    BY DEF Quiet
  <2> QED BY <2>1, <2>2, ChunksQuiet
<1> QED BY <1>1, <1>2, <1>3, <1>4 DEF TransferInv, TransferData, WireInv, ReadInv, DoneInv

LEMMA DisconnectsKeeps ==
  ASSUME TransferInv, Disconnects
  PROVE  TransferInv'
<1>1. /\ connected' = FALSE /\ toAgent' = <<>> /\ toPage' = <<>>
      /\ UNCHANGED <<up, reading, down, edit, queue, asking, stored, late, mixed, wrongUpload, wrongRead>>
  BY DEF Disconnects, AnswersLost, pageVars
<1>2. Line' = <<>> /\ <<>> \in Seq(Frame)
  BY <1>1, NoLine DEF Line
<1>3. ASSUME ~ mixed PROVE Reads(<<>>, edit, down, FALSE)
  <2>1. \A r \in edit \cup down : InOrder(r.parts) /\ r.path \in Docs
    BY <1>3 DEF TransferInv, ReadInv, Reads, Answered
  <2> QED BY <2>1, ReadsNothing
<1>4. ASSUME ~ late PROVE Chunks(<<>>, up, reading, stored)
  <2>1. Chunks(Line, up, reading, stored)
    BY <1>4 DEF TransferInv, DoneInv
  <2>2. Quiet(<<>>)
    BY DEF Quiet
  <2> QED BY <2>1, <2>2, ChunksQuiet DEF Chunks
<1> QED BY <1>1, <1>2, <1>3, <1>4 DEF TransferInv, TransferData, WireInv, ReadInv, DoneInv

LEMMA OpensKeeps ==
  ASSUME TransferInv, OpensFiles
  PROVE  TransferInv'
<1>1. /\ connected' = TRUE /\ edit = {} /\ down = {}
      /\ UNCHANGED <<up, reading, down, edit, queue, asking, toAgent, toPage, stored, late, mixed, wrongUpload, wrongRead>>
  BY DEF OpensFiles, pageVars, agentVars, historyVars
<1>2. Line' = Line
  BY <1>1 DEF Line
<1>3. ~ mixed => Reads(Line, {}, {}, TRUE)
  BY <1>1 DEF TransferInv, ReadInv, Reads, Answered
<1> QED BY <1>1, <1>2, <1>3 DEF TransferInv, TransferData, WireInv, ReadInv, DoneInv

LEMMA NothingMoves ==
  ASSUME TransferInv, Shrinks \/ UNCHANGED transferVars
  PROVE  TransferInv'
<1>1. UNCHANGED <<up, reading, down, edit, queue, asking, connected, toAgent, toPage, stored, late, mixed, wrongUpload, wrongRead>>
  BY DEF Shrinks, transferVars, pageVars, wireVars, agentVars, historyVars
<1>2. Line' = Line
  BY <1>1 DEF Line
<1> QED BY <1>1, <1>2 DEF TransferInv, TransferData, WireInv, ReadInv, DoneInv

\* The agent answers its first command.
LEMMA AnswerKeeps ==
  ASSUME TransferInv, toAgent # <<>>, toAgent' = Tail(toAgent),
         NEW g \in Frame, toPage' = Append(toPage, g),
         UNCHANGED <<up, reading, down, edit, queue, asking, connected, late, mixed, wrongUpload, wrongRead>>,
         NEW x, x = Head(toAgent), x.type # "error",
         \A d \in Docs : OfRead(g, d) => OfRead(x, d) /\ g.at = x.at,
         \A d \in Docs : OfRead(x, d) => OfRead(g, d) \/ g.type = "error",
         \/ ~ OfUpload(g) /\ stored' = stored
         \/ /\ x.type = "write" /\ g.type = "written" /\ g.id = x.id
            /\ stored \subseteq stored' /\ (x.commit => x.id \in stored')
  PROVE  TransferInv'
<1>1. /\ Line[Len(toPage) + 1] = x
      /\ toPage' \in Seq(Frame) /\ toAgent' \in Seq(Frame)
      /\ Replaces(Line, Line', Len(toPage) + 1, g)
  BY JoinedAnswer DEF TransferInv, TransferData, Line
<1>2. Line \in Seq(Frame) /\ Line' \in Seq(Frame)
  BY <1>1, Joined DEF TransferInv, TransferData, Line
<1>3. connected
  BY DEF TransferInv, WireInv
<1>4. ASSUME ~ mixed PROVE Reads(Line', edit, down, connected)
  <2>1. Reads(Line, edit, down, connected)
    BY <1>4 DEF TransferInv, ReadInv
  <2> QED BY <1>1, <1>2, <2>1, ReadsReplaced
<1>5. ASSUME ~ late PROVE Chunks(Line', up, reading, stored')
  <2>1. Chunks(Line, up, reading, stored)
    BY <1>5 DEF TransferInv, DoneInv
  <2>2. CASE ~ OfUpload(g) /\ stored' = stored
    BY <1>1, <1>2, <2>1, <2>2, ChunksFailed
  <2>3. CASE /\ x.type = "write" /\ g.type = "written" /\ g.id = x.id
             /\ stored \subseteq stored' /\ (x.commit => x.id \in stored')
    BY <1>1, <1>2, <2>1, <2>3, ChunksWritten
  <2> QED BY <2>2, <2>3
<1> QED BY <1>1, <1>3, <1>4, <1>5 DEF TransferInv, TransferData, WireInv, ReadInv, DoneInv

\* It carries out one that the page wants no answer to.
LEMMA SilenceKeeps ==
  ASSUME TransferInv, toAgent # <<>>, toAgent' = Tail(toAgent), toPage' = toPage,
         Head(toAgent).type \in {"abort", "other"},
         UNCHANGED <<up, reading, down, edit, queue, asking, connected, stored, late, mixed, wrongUpload, wrongRead>>
  PROVE  TransferInv'
<1>1. [type |-> "error"] \in Frame
  BY FramesAre
<1>2. /\ Line[Len(toPage) + 1] = Head(toAgent) /\ toAgent' \in Seq(Frame)
      /\ Removes(Line, Line', Len(toPage) + 1)
  BY <1>1, JoinedAnswer DEF TransferInv, TransferData, Line
<1>3. Line \in Seq(Frame) /\ Line' \in Seq(Frame)
  BY <1>2, Joined DEF TransferInv, TransferData, Line
<1>4. connected
  BY DEF TransferInv, WireInv
<1>5. Line[Len(toPage) + 1].type # "error" /\ \A r \in edit \cup down : ~ OfRead(Line[Len(toPage) + 1], r.path)
  BY <1>2 DEF OfRead
<1>6. ASSUME ~ mixed PROVE Reads(Line', edit, down, connected)
  <2>1. Reads(Line, edit, down, connected)
    BY <1>6 DEF TransferInv, ReadInv
  <2> QED BY <1>2, <1>3, <1>5, <2>1, ReadsRemoved
<1>7. ~ late => Chunks(Line', up, reading, stored)
  BY <1>2, <1>3, ChunksRemoved DEF TransferInv, DoneInv
<1> QED BY <1>2, <1>4, <1>6, <1>7 DEF TransferInv, TransferData, WireInv, ReadInv, DoneInv

LEMMA AgentAnswersKeeps ==
  ASSUME TransferInv, AgentAnswers
  PROVE  TransferInv'
<1> DEFINE x == Head(toAgent)
           err == [type |-> "error"]
<1>1. /\ UNCHANGED <<up, reading, down, edit, queue, asking, connected, late, mixed, wrongUpload, wrongRead>>
      /\ toAgent # <<>> /\ toAgent' = Tail(toAgent)
  BY DEF AgentAnswers, pageVars, historyVars
<1>2. x \in Frame
  BY <1>1, HeadTailProperties DEF TransferInv, TransferData
<1>3. err \in Frame /\ err.type = "error"
  BY FramesAre
<1> DEFINE written == [type |-> "written", id |-> x.id]
           chunk == [type |-> "chunk", path |-> x.path, at |-> x.at, end |-> x.at >= length[x.path]]
<1>4. \/ /\ x.type = "write" /\ stored' = IF x.commit THEN stored \cup {x.id} ELSE stored
         /\ toPage' = Append(toPage, written)
      \/ x.type \in {"write", "abort", "read", "other"} /\ stored' = stored /\ toPage' = Append(toPage, err)
      \/ x.type \in {"abort", "other"} /\ stored' = stored /\ toPage' = toPage
      \/ x.type = "read" /\ stored' = stored /\ toPage' = Append(toPage, chunk)
  BY DEF AgentAnswers
<1>5. x.type = "write" => written \in Frame /\ written.type = "written" /\ written.id = x.id
  BY <1>2, FrameFields, FramesAre
<1>6. x.type = "read" => chunk \in Frame /\ chunk.type = "chunk" /\ chunk.path = x.path /\ chunk.at = x.at
  <2> SUFFICES ASSUME x.type = "read" PROVE chunk \in Frame
    OBVIOUS
  <2>1. x.path \in Docs /\ x.at \in Nat
    BY <1>2, FrameFields
  <2>2. (x.at >= length[x.path]) \in BOOLEAN
    OBVIOUS
  <2> QED BY <2>1, <2>2, FramesAre
<1> HIDE DEF x, err, written, chunk
<1>7. toAgent # <<>> /\ x = Head(toAgent)
  BY <1>1 DEF x
<1>8. CASE /\ x.type = "write" /\ stored' = IF x.commit THEN stored \cup {x.id} ELSE stored
           /\ toPage' = Append(toPage, written)
  <2>1. \A d \in Docs : ~ OfRead(written, d) /\ ~ OfRead(x, d)
    BY <1>5, <1>8 DEF OfRead
  <2>2. stored \subseteq stored' /\ (x.commit => x.id \in stored')
    BY <1>8
  <2> QED BY <1>1, <1>5, <1>7, <1>8, <2>1, <2>2, AnswerKeeps
<1>9. CASE x.type \in {"write", "abort", "read", "other"} /\ stored' = stored /\ toPage' = Append(toPage, err)
  <2>1. ~ OfUpload(err) /\ \A d \in Docs : ~ OfRead(err, d)
    BY <1>3 DEF OfUpload, OfRead
  <2>2. x.type # "error"
    BY <1>9
  <2> QED BY <1>1, <1>3, <1>7, <1>9, <2>1, <2>2, AnswerKeeps
<1>10. CASE x.type \in {"abort", "other"} /\ stored' = stored /\ toPage' = toPage
  BY <1>1, <1>7, <1>10, SilenceKeeps
<1>11. CASE x.type = "read" /\ stored' = stored /\ toPage' = Append(toPage, chunk)
  <2>1. ~ OfUpload(chunk) /\ \A d \in Docs : OfRead(chunk, d) <=> OfRead(x, d)
    BY <1>6, <1>11 DEF OfUpload, OfRead
  <2> QED BY <1>1, <1>6, <1>7, <1>11, <2>1, AnswerKeeps
<1> QED BY <1>4, <1>8, <1>9, <1>10, <1>11

\* What is left of the line when a frame has arrived.
Rest == Tail(toPage) \o toAgent

\* It is all there is, or the page has sent something.
LEMMA RestIs ==
  ASSUME TransferInv, toPage # <<>>, toPage' = Tail(toPage)
  PROVE  /\ Line \in Seq(Frame) /\ Rest \in Seq(Frame) /\ toPage' \in Seq(Frame) /\ Head(toPage) \in Frame
         /\ Removes(Line, Rest, 1) /\ Line[1] = Head(toPage) /\ connected
         /\ toAgent' = toAgent => Line' = Rest
         /\ \A f \in Frame : Send(<<f>>) =>
              toAgent' \in Seq(Frame) /\ Line' \in Seq(Frame) /\ Extends(Rest, Line', f)
<1>1. /\ Line \in Seq(Frame) /\ Rest \in Seq(Frame) /\ toPage' \in Seq(Frame) /\ Head(toPage) \in Frame
      /\ Removes(Line, Rest, 1) /\ Line[1] = Head(toPage) /\ connected
  BY LineIs, Arrived DEF Rest, TransferInv
<1>2. toAgent' = toAgent => Line' = Rest
  BY DEF Line, Rest
<1>3. ASSUME NEW f \in Frame, Send(<<f>>)
      PROVE  toAgent' \in Seq(Frame) /\ Line' \in Seq(Frame) /\ Extends(Rest, Line', f)
  <2>1. toAgent' = toAgent \o <<f>> /\ Line' = Tail(toPage) \o (toAgent \o <<f>>)
    BY <1>1, <1>3 DEF Send, Line
  <2>2. Tail(toPage) \in Seq(Frame) /\ toAgent \in Seq(Frame)
    BY <1>1 DEF TransferInv, TransferData
  <2>3. Extends(Rest, Line', f) /\ toAgent' \in Seq(Frame)
    BY <2>1, <2>2, JoinedLater DEF Rest
  <2> QED BY <2>1, <2>2, <2>3, Joined
<1> QED BY <1>1, <1>2, <1>3

LEMMA WrittenKeeps ==
  ASSUME TransferInv, toPage # <<>>, toPage' = Tail(toPage), Head(toPage).type = "written",
         UNCHANGED <<toAgent, down, edit, connected, mixed, wrongRead>>,
         IF up = {} THEN UNCHANGED <<up, reading, queue, asking, part, stored, late, wrongUpload>>
                    ELSE OnWritten
  PROVE  TransferInv'
<1>1. /\ Line \in Seq(Frame) /\ Rest \in Seq(Frame) /\ toPage' \in Seq(Frame)
      /\ Removes(Line, Rest, 1) /\ Line[1].type = "written" /\ connected /\ Line' = Rest
  BY RestIs
<1>2. Line[1].type # "error" /\ \A r \in edit \cup down : ~ OfRead(Line[1], r.path)
  BY <1>1 DEF OfRead
<1>3. ASSUME ~ mixed PROVE Reads(Rest, edit, down, connected)
  <2>1. Reads(Line, edit, down, connected)
    BY <1>3 DEF TransferInv, ReadInv
  <2> QED BY <1>1, <1>2, <2>1, ReadsRemoved
<1>4. ~ late => Chunks(Line, up, reading, stored)
  BY DEF TransferInv, DoneInv
<1>5. CASE up = {}
  <2>1. UNCHANGED <<up, reading, queue, asking, stored, late, wrongUpload>>
    BY <1>5
  <2>2. ~ late => Chunks(Rest, up, reading, stored)
    BY <1>1, <1>4, ChunksRemoved
  <2> QED BY <1>1, <1>3, <2>1, <2>2 DEF TransferInv, TransferData, WireInv, ReadInv, DoneInv
<1>6. CASE up # {}
  <2>1. PICK x \in up : LET u == [x EXCEPT !.acked = @ + 1] IN
          IF u.acked >= Size[u.file]
          THEN /\ wrongUpload' = (wrongUpload \/ (u.id \notin stored /\ ~late))
               /\ Outlived({u.id})
               /\ Advances(queue, {})
          ELSE up' = {u} /\ ReadsNext(u) /\ UNCHANGED <<queue, asking, part, stored, late, wrongUpload>>
    BY <1>6 DEF OnWritten
  <2> DEFINE u == [x EXCEPT !.acked = @ + 1]
  <2>2. up = {x} /\ x \in Running
    BY DEF TransferInv, TransferData
  <2>3. u \in Running /\ u.id = x.id /\ u.file = x.file /\ u.sent = x.sent /\ u.acked = x.acked + 1
    BY <2>2 DEF Running
  <2>4. ~ late => /\ Quiet(Rest) /\ reading = {} /\ x.sent = x.acked + 1
                  /\ x.sent >= Size[x.file] => x.id \in stored
    BY <1>1, <1>4, <2>2, ChunksAnswered
  <2>5. CASE u.acked >= Size[u.file]
    <3>1. /\ wrongUpload' = (wrongUpload \/ (u.id \notin stored /\ ~late))
          /\ Outlived({u.id}) /\ Advances(queue, {})
      BY <2>1, <2>5
    <3>2. ~ wrongUpload'
      BY <2>3, <2>4, <2>5, <3>1 DEF TransferInv, DoneInv
    <3>3. queue' \in Seq(Files) /\ asking' \subseteq Files /\ (Goes({}) \/ Began({}))
      BY <3>1, AdvancesDoes DEF TransferInv, TransferData
    <3>4. /\ up' = {} \/ \E v \in Running : up' = {v}
          /\ reading' \subseteq [id : Uploads, file : Files, at : Nat]
          /\ \A s : Chunks(s, {}, reading, stored) => Chunks(s, up', reading', stored')
      BY <3>3, MovesOn DEF TransferInv
    <3>5. ASSUME ~ late' PROVE Chunks(Rest, up', reading', stored')
      <4>1. ~ late
        BY <3>1, <3>5 DEF Outlived
      <4>2. Chunks(Rest, {}, reading, stored)
        BY <2>4, <4>1, ChunksQuiet
      <4> QED BY <3>4, <4>2
    <3> QED BY <1>1, <1>3, <3>2, <3>3, <3>4, <3>5 DEF TransferInv, TransferData, WireInv, ReadInv, DoneInv
  <2>6. CASE ~ u.acked >= Size[u.file]
    <3> DEFINE y == [id |-> u.id, file |-> u.file, at |-> u.sent]
    <3>1. up' = {u} /\ ReadsNext(u) /\ UNCHANGED <<queue, asking, stored, late, wrongUpload>>
      BY <2>1, <2>6
    <3>2. reading' = reading \/ reading' = reading \cup {y}
      BY <3>1 DEF ReadsNext
    <3>3. y \in [id : Uploads, file : Files, at : Nat]
      BY <2>3 DEF Running
    <3>4. y.id = u.id /\ y.file = u.file /\ y.at = u.sent
      OBVIOUS
    <3> HIDE DEF y, u
    <3>5. reading' \subseteq [id : Uploads, file : Files, at : Nat]
      BY <3>2, <3>3 DEF TransferInv, TransferData
    <3>6. ASSUME ~ late PROVE Chunks(Rest, up', reading', stored')
      <4>1. Quiet(Rest) /\ reading = {} /\ u.sent = u.acked
        BY <2>3, <2>4, <3>6
      <4>2. \A z \in reading' : z = y
        BY <3>2, <4>1
      <4>3. \A z \in reading' : \E v \in {u} : z.id = v.id /\ z.file = v.file /\ z.at = v.sent /\ v.sent = v.acked
        BY <3>4, <4>1, <4>2
      <4>4. \A w, z \in reading' : w = z
        BY <4>2
      <4> QED BY <3>1, <4>1, <4>3, <4>4, ChunksQuiet
    <3> QED BY <1>1, <1>3, <2>3, <3>1, <3>5, <3>6 DEF TransferInv, TransferData, WireInv, ReadInv, DoneInv
  <2> QED BY <2>5, <2>6
<1> QED BY <1>5, <1>6

LEMMA ErrorKeeps ==
  ASSUME TransferInv, toPage # <<>>, toPage' = Tail(toPage), down' = {}, edit' = {},
         UNCHANGED <<toAgent, connected, mixed, wrongUpload, wrongRead>>,
         Outlived(Ids(up)), OnError({})
  PROVE  TransferInv'
<1>1. /\ Line \in Seq(Frame) /\ Rest \in Seq(Frame) /\ toPage' \in Seq(Frame) /\ toAgent' \in Seq(Frame)
      /\ Removes(Line, Rest, 1) /\ connected /\ Line' = Rest
  BY RestIs DEF TransferInv, TransferData
<1>2. ASSUME ~ mixed PROVE Reads(Rest, {}, {}, connected)
  <2>1. Reads(Line, edit, down, connected)
    BY <1>2 DEF TransferInv, ReadInv
  <2> QED BY <1>1, <2>1, ReadsOver
<1>3. queue' \in Seq(Files) /\ asking' \subseteq Files /\ (Goes({}) \/ Began({}))
  BY OnErrorDoes DEF TransferInv, TransferData
<1>4. /\ up' = {} \/ \E v \in Running : up' = {v}
      /\ reading' \subseteq [id : Uploads, file : Files, at : Nat]
      /\ \A s : Chunks(s, {}, reading, stored) => Chunks(s, up', reading', stored')
  BY <1>3, MovesOn DEF TransferInv
<1>5. ASSUME ~ late' PROVE Chunks(Rest, up', reading', stored')
  <2>1. /\ ~ late /\ \A x \in reading : x.id \notin Ids(up)
        /\ \A k \in 1..Len(Rest) : OfUpload(Rest[k]) => Rest[k].id \notin Ids(up)
    BY <1>1, <1>5, NoneLeft
  <2>2. Chunks(Rest, up, reading, stored)
    BY <1>1, <2>1, ChunksRemoved DEF TransferInv, DoneInv
  <2>3. \A u \in up : u.id \in Ids(up)
    BY DEF Ids
  <2>4. Quiet(Rest) /\ reading = {}
    BY <2>1, <2>2, <2>3, ChunksGone
  <2>5. Chunks(Rest, {}, reading, stored)
    BY <2>4, ChunksQuiet
  <2> QED BY <1>4, <2>5
<1> QED BY <1>1, <1>2, <1>3, <1>4, <1>5 DEF TransferInv, TransferData, WireInv, ReadInv, DoneInv

LEMMA ExtendedIs ==
  ASSUME NEW r \in Reader, NEW at
  PROVE  Extended(r, at) = {[path |-> r.path, parts |-> Append(r.parts, at)]}
<1> DEFINE p == Append(r.parts, at)
<1> HIDE DEF p
<1>1. [r EXCEPT !.parts = p] = [path |-> r.path, parts |-> p]
  BY DEF Reader
<1>2. Extended(r, at) = {[r EXCEPT !.parts = p]}
  BY DEF Extended, p
<1> QED BY <1>1, <1>2 DEF p

\* A chunk arrives for one of the readers, who hands the file over, gives up, or asks
\* for the next.
LEMMA ChunkFor ==
  ASSUME TransferInv, toPage # <<>>, toPage' = Tail(toPage), Head(toPage).type = "chunk",
         NEW a, NEW b, ~ mixed => Reads(Line, a, b, connected),
         NEW r \in Reader, a = {r}, r.path = Head(toPage).path
  PROVE  /\ ~ mixed => Reads(Rest, {}, b, connected) /\ InOrder(Append(r.parts, Head(toPage).at))
         /\ Send(<<Read(r.path, Len(r.parts) + 1)>>) =>
              /\ toAgent' \in Seq(Frame)
              /\ \E e \in Reader : Extended(r, Head(toPage).at) = {e}
              /\ ~ mixed => Reads(Line', Extended(r, Head(toPage).at), b, connected)
              /\ ~ late => Chunks(Line', up, reading, stored)
<1> DEFINE x == Head(toPage)
           f == Read(r.path, Len(r.parts) + 1)
           e == [path |-> r.path, parts |-> Append(r.parts, x.at)]
<1>1. /\ Line \in Seq(Frame) /\ Rest \in Seq(Frame) /\ toPage' \in Seq(Frame) /\ x \in Frame
      /\ Removes(Line, Rest, 1) /\ Line[1] = x /\ connected
  BY RestIs
<1>2. r.path \in Docs /\ r.parts \in Seq(Nat) /\ Len(r.parts) \in Nat /\ x.at \in Nat
  BY <1>1, FrameFields DEF Reader
<1>3. /\ e \in Reader /\ e.path = r.path /\ e.parts = Append(r.parts, x.at) /\ Len(e.parts) = Len(r.parts) + 1
      /\ \A k \in 1..Len(e.parts) : e.parts[k] = IF k <= Len(r.parts) THEN r.parts[k] ELSE x.at
      /\ Extended(r, x.at) = {e}
  <2>1. Append(r.parts, x.at) \in Seq(Nat) /\ Len(Append(r.parts, x.at)) = Len(r.parts) + 1
        /\ \A k \in 1..(Len(r.parts) + 1) : Append(r.parts, x.at)[k] = IF k <= Len(r.parts) THEN r.parts[k] ELSE x.at
    BY <1>2, Appended
  <2>5. Extended(r, x.at) = {e}
    BY ExtendedIs
  <2>6. e.path = r.path /\ e.parts = Append(r.parts, x.at)
    OBVIOUS
  <2>7. e \in Reader
    BY <1>2, <2>1 DEF Reader
  <2> HIDE DEF e
  <2> QED BY <2>1, <2>5, <2>6, <2>7
<1>4. /\ f \in Frame /\ ~ OfUpload(f) /\ OfRead(f, r.path) /\ f.at = Len(r.parts) + 1
  <2>1. Len(r.parts) + 1 \in Nat
    BY <1>2
  <2> QED BY <1>2, <2>1, FramesAre DEF Read, OfUpload, OfRead
<1> HIDE DEF x, f, e
<1>5. ASSUME ~ mixed
      PROVE  /\ Line[1].at = Len(r.parts) /\ InOrder(r.parts)
             /\ \A k \in 1..Len(Rest) : ~ OfRead(Rest[k], r.path)
             /\ Reads(Rest, {}, b, connected)
  <2>1. OfRead(Line[1], r.path)
    BY <1>1 DEF OfRead, x
  <2>2. Reads(Line, a, b, connected) /\ r \in a
    BY <1>5
  <2> QED BY <1>1, <2>1, <2>2, ReadsArrived
<1>6. ASSUME ~ mixed PROVE InOrder(e.parts)
  <2>1. x.at = Len(r.parts) /\ \A k \in 1..Len(r.parts) : r.parts[k] = k - 1
    BY <1>1, <1>5, <1>6 DEF InOrder
  <2>2. ASSUME NEW k \in 1..Len(e.parts) PROVE e.parts[k] = k - 1
    <3>1. CASE k <= Len(r.parts)
      BY <1>2, <1>3, <2>1, <3>1
    <3>2. CASE ~ k <= Len(r.parts)
      BY <1>2, <1>3, <2>1, <3>2
    <3> QED BY <3>1, <3>2
  <2> QED BY <2>2 DEF InOrder
<1>7. ASSUME Send(<<f>>)
      PROVE  /\ toAgent' \in Seq(Frame)
             /\ ~ mixed => Reads(Line', {e}, b, connected)
             /\ ~ late => Chunks(Line', up, reading, stored)
  <2>1. toAgent' \in Seq(Frame) /\ Line' \in Seq(Frame) /\ Extends(Rest, Line', f)
    BY <1>4, <1>7, RestIs
  <2>2. ASSUME ~ mixed PROVE Reads(Line', {e}, b, connected)
    <3>1. Reads(Rest, {}, b, TRUE) /\ e.path \in Docs /\ InOrder(e.parts) /\ OfRead(f, e.path) /\ f.at = Len(e.parts)
          /\ \A k \in 1..Len(Rest) : ~ OfRead(Rest[k], e.path)
      <4>1. connected = TRUE
        BY <1>1 DEF Reads, Answered
      <4> QED BY <1>2, <1>3, <1>4, <1>5, <1>6, <2>2, <4>1
    <3>2. Reads(Line', {e}, b, TRUE)
      BY <1>1, <2>1, <3>1, ReadsAsked
    <3> QED BY <1>1, <3>2 DEF Reads, Answered
  <2>3. ASSUME ~ late PROVE Chunks(Line', up, reading, stored)
    <3>1. Chunks(Rest, up, reading, stored)
      BY <1>1, <2>3, ChunksRemoved DEF TransferInv, DoneInv
    <3> QED BY <1>1, <1>4, <2>1, <3>1, ChunksExtended
  <2> QED BY <2>1, <2>2, <2>3
<1> QED BY <1>3, <1>5, <1>6, <1>7 DEF x, f

LEMMA ChunkKeeps ==
  ASSUME TransferInv, toPage # <<>>, toPage' = Tail(toPage), Head(toPage).type = "chunk",
         OnChunk(Head(toPage)), UNCHANGED <<connected, mixed, late, wrongUpload>>
  PROVE  TransferInv'
<1> DEFINE x == Head(toPage)
<1>1. /\ Line \in Seq(Frame) /\ Rest \in Seq(Frame) /\ toPage' \in Seq(Frame)
      /\ Removes(Line, Rest, 1) /\ Line[1] = x /\ connected /\ (toAgent' = toAgent => Line' = Rest)
  BY RestIs
<1>2. ~ mixed => Reads(Line, edit, down, connected) /\ Reads(Line, down, edit, connected)
  BY ReadsEither DEF TransferInv, ReadInv
<1>3. ~ late => Chunks(Rest, up, reading, stored)
  BY <1>1, ChunksRemoved DEF TransferInv, DoneInv
<1>4. /\ \A r \in For(edit, x) : edit = {r} /\ r \in Reader /\ r.path = Head(toPage).path
      /\ \A r \in For(down, x) : down = {r} /\ r \in Reader /\ r.path = Head(toPage).path
  BY DEF For, TransferInv, TransferData
<1>5. CASE OnError(up) /\ toAgent' = toAgent /\ wrongRead' = wrongRead
           /\ (~ mixed => Reads(Rest, edit', down', connected))
           /\ ((edit' = {} /\ down' = down) \/ (down' = {} /\ edit' = edit))
  <2>1. queue' \in Seq(Files) /\ asking' \subseteq Files /\ (Goes(up) \/ Began(up))
    BY <1>5, OnErrorDoes DEF TransferInv, TransferData
  <2>2. /\ up' = {} \/ \E u \in Running : up' = {u}
        /\ reading' \subseteq [id : Uploads, file : Files, at : Nat]
        /\ \A s : Chunks(s, up, reading, stored) => Chunks(s, up', reading', stored')
    BY <2>1, MovesOn DEF TransferInv, TransferData
  <2> QED BY <1>1, <1>3, <1>5, <2>1, <2>2 DEF TransferInv, TransferData, WireInv, ReadInv, DoneInv
<1>6. CASE UNCHANGED <<up, queue, asking, reading, stored, toAgent>> /\ ~ wrongRead'
           /\ (~ mixed => Reads(Rest, edit', down', connected))
           /\ ((edit' = {} /\ down' = down) \/ (down' = {} /\ edit' = edit) \/ UNCHANGED <<edit, down>>)
  BY <1>1, <1>3, <1>6 DEF TransferInv, TransferData, WireInv, ReadInv, DoneInv
<1>7. CASE UNCHANGED <<up, queue, asking, reading, stored, wrongRead>> /\ toAgent' \in Seq(Frame)
           /\ (~ mixed => Reads(Line', edit', down', connected))
           /\ (~ late => Chunks(Line', up, reading, stored))
           /\ \/ (\E e \in Reader : edit' = {e}) /\ down' = down
              \/ (\E e \in Reader : down' = {e}) /\ edit' = edit
  BY <1>1, <1>7 DEF TransferInv, TransferData, WireInv, ReadInv, DoneInv
<1>8. CASE For(edit, x) # {}
  <2>1. PICK r \in For(edit, x) :
          /\ down' = down
          /\ \/ x.end /\ edit' = {} /\ OnError(up) /\ wrongRead' = wrongRead /\ toAgent' = toAgent
             \/ /\ edit' = {} /\ toAgent' = toAgent
                /\ wrongRead' = (wrongRead \/ (~mixed /\ ~InOrder(Append(r.parts, x.at))))
                /\ UNCHANGED <<up, queue, asking, reading, part, stored>>
             \/ /\ edit' = Extended(r, x.at) /\ Send(<<Read(r.path, Len(r.parts) + 1)>>)
                /\ UNCHANGED <<up, queue, asking, reading, part, stored, wrongRead>>
    BY <1>8 DEF OnChunk
  <2>2. /\ ~ mixed => Reads(Rest, {}, down, connected) /\ InOrder(Append(r.parts, x.at))
        /\ Send(<<Read(r.path, Len(r.parts) + 1)>>) =>
             /\ toAgent' \in Seq(Frame)
             /\ \E e \in Reader : Extended(r, x.at) = {e}
             /\ ~ mixed => Reads(Line', Extended(r, x.at), down, connected)
             /\ ~ late => Chunks(Line', up, reading, stored)
    BY <1>2, <1>4, ChunkFor
  <2> HIDE DEF x
  <2>3. ~ wrongRead
    BY DEF TransferInv, ReadInv
  <2>4. CASE x.end /\ edit' = {} /\ OnError(up) /\ wrongRead' = wrongRead /\ toAgent' = toAgent
    BY <1>5, <2>1, <2>2, <2>4
  <2>5. CASE /\ edit' = {} /\ toAgent' = toAgent
             /\ wrongRead' = (wrongRead \/ (~mixed /\ ~InOrder(Append(r.parts, x.at))))
             /\ UNCHANGED <<up, queue, asking, reading, part, stored>>
    BY <1>6, <2>1, <2>2, <2>3, <2>5
  <2>6. CASE /\ edit' = Extended(r, x.at) /\ Send(<<Read(r.path, Len(r.parts) + 1)>>)
             /\ UNCHANGED <<up, queue, asking, reading, part, stored, wrongRead>>
    BY <1>7, <2>1, <2>2, <2>6
  <2> QED BY <2>1, <2>4, <2>5, <2>6
<1>9. CASE For(edit, x) = {} /\ For(down, x) = {}
  <2>1. UNCHANGED <<edit, down, toAgent, wrongRead, up, queue, asking, reading, stored>>
    BY <1>9 DEF OnChunk
  <2>2. Line[1].type # "error" /\ \A r \in edit \cup down : ~ OfRead(Line[1], r.path)
    BY <1>1, <1>9 DEF OfRead, For
  <2>3. ~ mixed => Reads(Rest, edit, down, connected)
    BY <1>1, <1>2, <2>2, ReadsRemoved
  <2>4. ~ wrongRead
    BY DEF TransferInv, ReadInv
  <2> QED BY <1>6, <2>1, <2>3, <2>4
<1>10. CASE For(edit, x) = {} /\ For(down, x) # {}
  <2>picked. PICK r \in For(down, x) :
               /\ edit' = edit
               /\ \/ x.end /\ down' = {} /\ OnError(up) /\ wrongRead' = wrongRead /\ toAgent' = toAgent
                  \/ /\ down' = {} /\ toAgent' = toAgent
                     /\ wrongRead' = (wrongRead \/ (~mixed /\ ~InOrder(Append(r.parts, x.at))))
                     /\ UNCHANGED <<up, queue, asking, reading, part, stored>>
                  \/ /\ down' = Extended(r, x.at) /\ Send(<<Read(x.path, Len(r.parts) + 1)>>)
                     /\ UNCHANGED <<up, queue, asking, reading, part, stored, wrongRead>>
    BY <1>10 DEF OnChunk
  <2>order. /\ ~ mixed => Reads(Rest, {}, edit, connected) /\ InOrder(Append(r.parts, x.at))
            /\ Send(<<Read(r.path, Len(r.parts) + 1)>>) =>
                 /\ toAgent' \in Seq(Frame)
                 /\ \E e \in Reader : Extended(r, x.at) = {e}
                 /\ ~ mixed => Reads(Line', Extended(r, x.at), edit, connected)
                 /\ ~ late => Chunks(Line', up, reading, stored)
    BY <1>2, <1>4, ChunkFor
  <2>path. r.path = x.path
    BY <1>4
  <2> HIDE DEF x
  <2>right. ~ wrongRead
    BY DEF TransferInv, ReadInv
  <2>reads. ~ mixed => Reads(Rest, edit, {}, connected)
    BY <2>order, ReadsEither
  <2>sends. Send(<<Read(r.path, Len(r.parts) + 1)>>) /\ ~ mixed => Reads(Line', edit, Extended(r, x.at), connected)
    BY <2>order, ReadsEither
  <2> QED BY <1>5, <1>6, <1>7, <2>picked, <2>order, <2>path, <2>right, <2>reads, <2>sends
<1> QED BY <1>8, <1>9, <1>10

LEMMA PageReceivesKeeps ==
  ASSUME TransferInv, PageReceives
  PROVE  TransferInv'
<1>1. toPage # <<>> /\ toPage' = Tail(toPage) /\ UNCHANGED <<connected, mixed>>
  BY DEF PageReceives
<1> DEFINE x == Head(toPage)
<1>2. CASE /\ x.type = "written" /\ UNCHANGED <<toAgent, down, edit, wrongRead>>
           /\ IF up = {} THEN UNCHANGED <<up, reading, queue, asking, part, stored, late, wrongUpload>>
                         ELSE OnWritten
  BY <1>1, <1>2, WrittenKeeps
<1>3. CASE x.type = "chunk" /\ OnChunk(x) /\ UNCHANGED <<late, wrongUpload>>
  BY <1>1, <1>3, ChunkKeeps
<1>4. CASE /\ x.type = "error" /\ down' = {} /\ edit' = {}
           /\ UNCHANGED <<toAgent, wrongUpload, wrongRead>>
           /\ Outlived(Ids(up)) /\ OnError({})
  BY <1>1, <1>4, ErrorKeeps
<1> QED BY <1>2, <1>3, <1>4 DEF PageReceives

LEMMA TransferInitially ==
  ASSUME TransferInit
  PROVE  TransferInv
<1>1. /\ connected = TRUE /\ up = {} /\ reading = {} /\ down = {} /\ edit = {} /\ queue = <<>> /\ asking = {}
      /\ toAgent = <<>> /\ toPage = <<>> /\ wrongUpload = FALSE /\ wrongRead = FALSE
  BY DEF TransferInit
<1>2. Line = <<>>
  BY <1>1, NoLine DEF Line
<1>3. Reads(<<>>, {}, {}, TRUE)
  BY DEF Reads, Answered, Single, Rivals
<1>4. Quiet(<<>>)
  BY DEF Quiet
<1>5. Chunks(<<>>, {}, {}, stored)
  BY <1>4, ChunksQuiet
<1>6. <<>> \in Seq(Frame) /\ <<>> \in Seq(Files)
  OBVIOUS
<1>7. TransferData /\ WireInv
  BY <1>1, <1>6 DEF TransferData, WireInv
<1>8. ReadInv
  BY <1>1, <1>2, <1>3 DEF ReadInv
<1>9. DoneInv
  BY <1>1, <1>2, <1>5 DEF DoneInv
<1> QED BY <1>7, <1>8, <1>9 DEF TransferInv

LEMMA TransferInductive ==
  ASSUME TransferInv, [TransferNext]_transferVars
  PROVE  TransferInv'
<1>1. CASE \E files \in Batches : UserUploads(files)
  BY <1>1, UserUploadsKeeps
<1>2. CASE \E f \in Files : Saves(f)
  BY <1>2, SavesKeeps
<1>3. CASE \E doc \in Docs : Downloads(doc) \/ Edits(doc)
  BY <1>3, DownloadsKeeps, EditsKeeps
<1>4. CASE Answers
  BY <1>4, AnswersKeeps
<1>5. CASE CancelsUpload
  BY <1>5, CancelsUploadKeeps
<1>6. CASE CancelsDownload \/ CancelsEdit
  BY <1>6, CancelsReadKeeps
<1>7. CASE Commands
  BY <1>7, CommandsKeeps
<1>8. CASE Ends
  BY <1>8, EndsKeeps
<1>9. CASE OpensFiles
  BY <1>9, OpensKeeps
<1>10. CASE Loaded
  BY <1>10, LoadedKeeps
<1>11. CASE PageReceives
  BY <1>11, PageReceivesKeeps
<1>12. CASE AgentAnswers
  BY <1>12, AgentAnswersKeeps
<1>13. CASE Shrinks \/ UNCHANGED transferVars
  BY <1>13, NothingMoves
<1>14. CASE Disconnects
  BY <1>14, DisconnectsKeeps
<1> QED
  BY <1>1, <1>2, <1>3, <1>4, <1>5, <1>6, <1>7, <1>8, <1>9, <1>10, <1>11, <1>12, <1>13, <1>14
  DEF TransferNext, FileUser

\* Whatever is cancelled, fails, is saved in between or opened anew: what onComplete
\* reports as uploaded has been committed by the agent.
THEOREM UploadsAreStored == TransferSpec => []DoneIsStored
<1>1. TransferInv => DoneIsStored
  BY DEF TransferInv, DoneInv, DoneIsStored
<1> QED BY <1>1, TransferInitially, TransferInductive, PTL DEF TransferSpec

\* However chunks of downloads, of the editor and of reads that were given up cross: the
\* file that is handed over has each chunk once and in order.
THEOREM ReadsAreWhole == TransferSpec => []ReadIsWhole
<1>1. TransferInv => ReadIsWhole
  BY DEF TransferInv, ReadInv, ReadIsWhole
<1> QED BY <1>1, TransferInitially, TransferInductive, PTL DEF TransferSpec
==============================================================================
