------------------------------- MODULE MCConsole -------------------------------
(* The parts of the page side by side, as they share nothing but the login: in one *)
(* behaviour the list of servers, one terminal tab, the file window or a preview   *)
(* moves.  In the file window the user uploads or he reads, and does what can come *)
(* between.                                                                        *)
EXTENDS PushView, TermTab, FileTransfer, TailPreview

VARIABLE moving  \* the part that moves

consoleVars == <<moving, pushVars, termVars, transferVars, previewVars>>

ConsoleInit ==
  /\ moving \in {"list", "terminal", "files", "preview"}
  /\ PushInit /\ TermInit /\ TransferInit /\ PreviewInit
  /\ (moving = "files") <=> (scope # {})
  /\ moving # "preview" => newlines = {}

ConsoleNext ==
  \/ moving = "list" /\ PushNext /\ UNCHANGED <<moving, termVars, transferVars, previewVars>>
  \/ moving = "terminal" /\ TermNext /\ UNCHANGED <<moving, pushVars, transferVars, previewVars>>
  \/ moving = "files" /\ TransferNext /\ UNCHANGED <<moving, pushVars, termVars, previewVars>>
  \/ moving = "preview" /\ PreviewNext /\ UNCHANGED <<moving, pushVars, termVars, transferVars>>

FairConsoleSpec ==
  /\ ConsoleInit /\ [][ConsoleNext]_consoleVars
  /\ PushFairness /\ TransferFairness /\ PreviewFairness

\* The preview alone, where only what it shows is in question.
PreviewSpec_ == ConsoleInit /\ moving = "preview" /\ [][ConsoleNext]_consoleVars

AllTexts == SUBSET (0..(Total - 1))
ThreeFiles == [f \in Files |-> CASE f = "long" -> 2 [] f = "short" -> 1 [] f = "empty" -> 0]
SomeBatches == {<<"long">>, <<"short", "long">>, <<"short", "empty">>}
TwoDocs == [d \in Docs |-> 2]
Scopes4 == {{}, {"upload", "other"}, {"upload", "save"}, {"upload", "leave"}, {"download", "edit"}}
================================================================================
