------------------------------- MODULE TailPreview -------------------------------
(***************************************************************************)
(* The preview of a large file in the editor: its end is read first        *)
(* (editText with tailBytes) and earlier text put before it, a block at a  *)
(* time (prependMore), whenever the user scrolls up to the top.  app.js    *)
(* decides what is a gesture of the user and what a position it has set    *)
(* itself, and api.js cuts a block at its first line.                      *)
(*                                                                         *)
(* A file is positions, some of them newlines; what the editor shows is    *)
(* the blocks it was put together from.  Scroll positions are "near" the   *)
(* top or not, and those the page has set (previewProgTop) or not.  The    *)
(* file may grow, which changes none of what is read.  A read that finds   *)
(* nothing any more is answered like one that fails.  Frames of a preview  *)
(* closed and opened again while they are under way: see FileTransfer.     *)
(*                                                                         *)
(* Operators marked "Defect:" are no part of the model, see OperationJobs. *)
(***************************************************************************)
EXTENDS Naturals, Sequences, FiniteSets, FiniteSetsExt

CONSTANTS
  Total,  \* bytes of the file
  Texts,  \* bound: sets of positions of newlines
  Chunk,  \* FILE_CHUNK
  Tail_   \* PREVIEW_TAIL_BYTES

ASSUME PreviewAssumption ==
  /\ {Total, Chunk, Tail_} \subseteq Nat \ {0} /\ Tail_ <= Chunk /\ Tail_ < Total
  /\ Texts \subseteq SUBSET (0..(Total - 1))

VARIABLES
  newlines, \* not in the code: the file
  link,     \* FileSession is connected
  tail,     \* editState: the end of the file is awaited
  prepend,  \* prependState: the offset that was asked for
  asked,    \* offsets of reads under way to the agent
  answers,  \* and of the answers, "error" for one that failed
  opened,   \* the editor shows the preview
  text,     \* blocks [lo, hi) it shows, the topmost first
  from,     \* previewFrom
  loading,  \* previewLoading
  intent,   \* previewIntent
  jump,     \* previewJumpTop
  near,     \* at most PREVIEW_LOAD_TRIGGER_PX from the top
  placed,   \* at previewProgTop
  monaco,   \* "none", "loading" or "ready"
  broken,   \* history: since it was opened, earlier text was asked for in vain
  swapped   \* history: since it was opened, Monaco has taken earlier text away

editorVars == <<opened, text, from, loading, intent, jump, near, placed, monaco>>
readVars == <<link, tail, prepend, asked, answers>>
previewVars == <<newlines, readVars, editorVars, broken, swapped>>

Block == [lo : 0..Total, hi : 0..Total]

PreviewTypeOK ==
  /\ newlines \in Texts
  /\ {link, tail, opened, loading, intent, jump, near, placed, broken, swapped} \subseteq BOOLEAN
  /\ prepend \subseteq 0..Total /\ Cardinality(prepend) <= 1
  /\ asked \in Seq(0..Total)
  /\ \A i \in 1..Len(answers) : answers[i] \in {[ok |-> TRUE, at |-> n] : n \in 0..Total} \cup {[ok |-> FALSE]}
  /\ \A i \in 1..Len(text) : text[i] \in Block
  /\ from \in 0..Total
  /\ monaco \in {"none", "loading", "ready"}

PreviewInit ==
  /\ newlines \in Texts
  /\ link = TRUE /\ tail = FALSE /\ prepend = {} /\ asked = <<>> /\ answers = <<>>
  /\ opened = FALSE /\ text = <<>> /\ from = 0
  /\ loading = FALSE /\ intent = FALSE /\ jump = FALSE
  /\ near = FALSE /\ placed = TRUE /\ monaco = "none"
  /\ broken = FALSE /\ swapped = FALSE

\* send(), which drops what there is no connection for.
Ask(at) == asked' = IF link THEN Append(asked, at) ELSE asked

--------------------------------------------------------------------------------
(* The end of the file.                                                        *)

TailAt == Total - Tail_

\* editText: a click on the file that is being read is ignored.
OpensPreview ==
  /\ ~ opened /\ asked = <<>> /\ answers = <<>> /\ ~ (tail /\ link)
  /\ tail' = TRUE /\ Ask(TailAt)
  /\ UNCHANGED <<newlines, link, prepend, answers, editorVars, broken, swapped>>

\* Defect: the cursor is where the block was asked for, not where its first line begins.
AskedAt(lo, hi) == lo

\* Where the text of a block begins: after its first newline, but at the start of the file.
LineStart(lo, hi) ==
  LET inside == {n \in newlines : lo <= n /\ n < hi}
  IN IF lo = 0 \/ inside = {} THEN lo ELSE Min(inside) + 1

\* nextFrom.
Cursor(lo, hi) == LineStart(lo, hi)

TailBlock == [lo |-> LineStart(TailAt, Total), hi |-> Total]

\* openFileEditor: the textarea is shown, and Monaco loaded if it is not there yet.  It
\* places the view at the bottom.
ShowsTail ==
  /\ tail' = FALSE /\ opened' = TRUE
  /\ text' = <<TailBlock>> /\ from' = Cursor(TailAt, Total)
  /\ loading' = FALSE /\ intent' = FALSE /\ jump' = FALSE
  /\ placed' = TRUE /\ near' \in BOOLEAN
  /\ monaco' = IF monaco = "ready" THEN "ready" ELSE "loading"
  /\ broken' = FALSE /\ swapped' = FALSE
  /\ UNCHANGED prepend

\* initMonaco, with the text openFileEditor was called with; or it cannot be had.
MonacoLoads ==
  /\ monaco = "loading"
  /\ \/ /\ monaco' = "ready"
        /\ text' = IF opened THEN <<TailBlock>> ELSE text
        /\ swapped' = (swapped \/ text' # text)
        /\ placed' = TRUE /\ near' \in BOOLEAN
     \/ monaco' = "none" /\ UNCHANGED <<text, swapped, placed, near>>
  /\ UNCHANGED <<newlines, readVars, opened, from, loading, intent, jump, broken>>

ClosesPreview ==
  /\ opened /\ opened' = FALSE
  /\ tail' = FALSE /\ prepend' = {}
  /\ text' = <<>> /\ from' = 0 /\ loading' = FALSE /\ intent' = FALSE /\ jump' = FALSE
  /\ placed' = TRUE /\ near' = FALSE
  /\ broken' = FALSE /\ swapped' = FALSE
  /\ UNCHANGED <<newlines, link, asked, answers, monaco>>

--------------------------------------------------------------------------------
(* Gestures.                                                                   *)

\* prependMore, which does nothing while one is awaited; loading is set all the same.
LoadsEarlier ==
  /\ loading' = TRUE
  /\ broken' = (broken \/ ~ link \/ prepend # {})
  /\ IF prepend # {} THEN UNCHANGED <<prepend, asked>>
     ELSE LET offset == IF from > Chunk THEN from - Chunk ELSE 0
          IN prepend' = {offset} /\ Ask(offset)

Idle == UNCHANGED <<loading, broken, prepend, asked>>

\* maybeLoadEarlier, at a position and with or without intent.
MaybeLoadEarlier(n, p, i) ==
  /\ opened
  /\ near' = n /\ placed' = p
  /\ IF ~ loading /\ from > 0 /\ n /\ (p => i)
     THEN intent' = FALSE /\ LoadsEarlier
     ELSE intent' = i /\ Idle
  /\ UNCHANGED <<newlines, link, tail, answers, opened, text, from, jump, monaco, swapped>>

\* A scroll event: the user has moved the view, or the page has placed it.
Scrolls == \E n \in BOOLEAN, p \in {FALSE, placed} : MaybeLoadEarlier(n, p, intent)

\* The wheel upwards, PageUp and the like.
Wheels == MaybeLoadEarlier(near, placed, TRUE)

\* editorJump: the top is loaded before it is shown.
JumpsTop ==
  /\ opened
  /\ IF from > 0
     THEN /\ jump' = TRUE /\ UNCHANGED <<near, placed>>
          /\ IF loading THEN Idle ELSE LoadsEarlier
     ELSE near' = TRUE /\ placed' = TRUE /\ Idle /\ UNCHANGED jump
  /\ UNCHANGED <<newlines, link, tail, answers, opened, text, from, intent, monaco, swapped>>

JumpsBottom ==
  /\ opened /\ placed' = TRUE /\ near' \in BOOLEAN
  /\ UNCHANGED <<newlines, readVars, opened, text, from, loading, intent, jump, monaco, broken, swapped>>

--------------------------------------------------------------------------------
(* The session.                                                                *)

\* file_read, which knows nothing of what the page wants, only of the chunk.
AgentReads ==
  /\ asked # <<>> /\ asked' = Tail(asked)
  /\ \/ answers' = Append(answers, [ok |-> TRUE, at |-> Head(asked)])
     \/ answers' = Append(answers, [ok |-> FALSE])
  /\ UNCHANGED <<newlines, link, tail, prepend, editorVars, broken, swapped>>

\* onPrepended: the block is put before the text, and the view is kept where it was or
\* goes to the new top.
Prepends(lo) ==
  LET hi == Min({lo + Chunk, Total}) IN
  /\ prepend' = {} /\ loading' = FALSE
  /\ from' = Cursor(lo, hi)
  /\ text' = IF LineStart(lo, hi) = hi THEN text ELSE <<[lo |-> LineStart(lo, hi), hi |-> hi]>> \o text
  /\ jump' = FALSE
  /\ placed' = TRUE /\ near' \in IF jump THEN {TRUE} ELSE BOOLEAN
  /\ UNCHANGED <<tail, opened, intent, monaco, broken, swapped>>

\* An error ends what is awaited.  Nobody takes loading back.
Fails ==
  /\ tail' = FALSE /\ prepend' = {}
  /\ broken' = (broken \/ prepend # {})
  /\ UNCHANGED <<editorVars, swapped>>

\* _onReadResult: an answer nobody awaits any more is dropped.
Receives ==
  /\ answers # <<>> /\ answers' = Tail(answers)
  /\ LET x == Head(answers) IN
     \/ ~ x.ok /\ Fails
     \/ x.ok /\ tail /\ ShowsTail
     \/ x.ok /\ ~ tail /\ \E lo \in prepend : Prepends(lo)
     \/ x.ok /\ ~ tail /\ prepend = {} /\ UNCHANGED <<tail, prepend, editorVars, broken, swapped>>
  /\ UNCHANGED <<newlines, link, asked>>

\* The connection is lost, or made again by open(), which forgets editState only.
LosesLink ==
  /\ link /\ link' = FALSE
  /\ asked' = <<>> /\ answers' = <<>>
  /\ broken' = (broken \/ prepend # {})
  /\ UNCHANGED <<newlines, tail, prepend, editorVars, swapped>>

Reopens ==
  /\ ~ link /\ link' = TRUE /\ tail' = FALSE
  /\ UNCHANGED <<newlines, prepend, asked, answers, editorVars, broken, swapped>>

--------------------------------------------------------------------------------

PreviewNext ==
  \/ OpensPreview \/ ClosesPreview \/ MonacoLoads
  \/ Scrolls \/ Wheels \/ JumpsTop \/ JumpsBottom
  \/ AgentReads \/ Receives \/ LosesLink \/ Reopens

PreviewSpec == PreviewInit /\ [][PreviewNext]_previewVars

\* The agent answers, the session delivers, and the user goes on scrolling up.
PreviewFairness ==
  /\ WF_previewVars(AgentReads) /\ WF_previewVars(Receives)
  /\ WF_previewVars(MaybeLoadEarlier(TRUE, FALSE, intent))

FairPreviewSpec == PreviewSpec /\ PreviewFairness

--------------------------------------------------------------------------------
(* Properties.                                                                 *)

\* Every line is shorter than a block: before one that is not nothing can be loaded.
Readable ==
  \A a \in 0..(Total - Chunk) : Cardinality(newlines \cap (a..(a + Chunk - 1))) > 1
                                  \/ (a + Chunk - 1) \notin newlines

Whole ==
  /\ Len(text) > 0 /\ text[1].lo = 0 /\ text[Len(text)].hi = Total
  /\ \A i \in 1..(Len(text) - 1) : text[i].hi >= text[i + 1].lo

\* A user who goes on scrolling up comes to the start of the file, wherever blocks and
\* lines begin, and has then seen all of it, with no line torn or left out; unless a
\* read failed, after which nothing more is loaded, or Monaco came late.
PreviewReachesStart ==
  <>[](opened) => <>[](broken \/ swapped \/ ~ Readable \/ (from = 0 /\ Whole))

\* "One more block from before from" (api.js:281): no byte is shown twice.
NothingTwice == \A i \in 1..(Len(text) - 1) : text[i].hi <= text[i + 1].lo
================================================================================
