----------------------------- MODULE FileTransfer -----------------------------
(***************************************************************************)
(* The file window of the page: FileSession (api.js), with its upload,     *)
(* which waits for the answer to every chunk, its download and the reading *)
(* of a file into the editor; the queue of uploads in app.js; and the file *)
(* session of the agent, which answers one command after the other.        *)
(*                                                                         *)
(* The answer to a command does not say which upload or which read it      *)
(* answers, beyond the path of a read.  Sizes are in chunks.  open(), its  *)
(* request and the handshake are one step.  Previews (tailBytes and        *)
(* prependState) are in TailPreview, zip downloads are left out.           *)
(*                                                                         *)
(* Operators marked "Defect:" are no part of the model, see OperationJobs. *)
(***************************************************************************)
EXTENDS Naturals, Sequences, FiniteSets

CONSTANTS
  Files,      \* files the user uploads
  Size,       \* their chunks
  Batches,    \* what he selects at a time
  Docs,       \* files he reads on the agent
  DocSize,    \* their chunks, as they were listed
  Uploads,    \* bound: uploads that anything refers to
  MaxFrames,  \* bound: frames under way before the user goes on
  Scopes      \* bound: what the user does in one behaviour

ASSUME TransferAssumption ==
  /\ Batches \subseteq Seq(Files) /\ Size \in [Files -> Nat] /\ DocSize \in [Docs -> Nat \ {0}]
  /\ Uploads # {} /\ MaxFrames \in Nat \ {0}
  /\ Scopes \subseteq SUBSET {"upload", "save", "download", "edit", "other", "leave"}

VARIABLES
  scope,       \* not in the code: what the user does
  connected,
  up,          \* uploadState
  reading,     \* FileReaders that have not finished
  down,        \* downloadState
  edit,        \* editState
  queue,       \* uploadQueue
  asking,      \* the file the confirmation dialog of nextUpload is about
  toAgent,     \* frames on their way through the session
  toPage,
  part,        \* agent: chunks in the temporary file of an upload
  stored,      \* agent: uploads that were committed
  length,      \* agent: chunks of the files he reads
  late,        \* history: frames or readers of an upload outlived it, on this connection
  mixed,       \* history: a read began while frames of another read of the file were under way
  stranded,    \* history: the session ended with files in the queue
  wrongUpload, \* history: an upload was reported done, not stored and no such frames explain it
  wrongRead    \* history: what was handed over was not the file, and no such read explains it

pageVars == <<up, reading, down, edit, queue, asking>>
wireVars == <<connected, toAgent, toPage>>
agentVars == <<part, stored, length>>
historyVars == <<late, mixed, stranded, wrongUpload, wrongRead>>
transferVars == <<scope, pageVars, wireVars, agentVars, historyVars>>

TransferInit ==
  /\ scope \in Scopes
  /\ connected = TRUE
  /\ up = {} /\ reading = {} /\ down = {} /\ edit = {} /\ queue = <<>> /\ asking = {}
  /\ toAgent = <<>> /\ toPage = <<>>
  /\ part = [i \in Uploads |-> 0] /\ stored = {} /\ length = DocSize
  /\ late = FALSE /\ mixed = FALSE /\ stranded = FALSE
  /\ wrongUpload = FALSE /\ wrongRead = FALSE

Elements(s) == {s[k] : k \in 1..Len(s)}
Under == Elements(toAgent) \cup Elements(toPage)
\* Uploads that a frame or a reader refers to.
Referred == {x.id : x \in {y \in Under : y.type \in {"write", "abort", "written"}} \cup reading \cup up}
Frames(type, path) == {x \in Under : x.type \in type /\ x.path = path}

\* send(): nothing is sent, and nobody told, without a connection.
Send(frames) == toAgent' = IF connected THEN toAgent \o frames ELSE toAgent

\* Where the bound is.
Patient == Len(toAgent) + Len(toPage) < MaxFrames

--------------------------------------------------------------------------------
(* Uploads.                                                                    *)

\* upload() with no upload running, up to the reader of the first chunk: there is
\* none in an empty file.  A new id is one nothing refers to.
Begins(file) ==
  \E i \in Uploads \ Referred :
    /\ up' = {[id |-> i, file |-> file, sent |-> 0, acked |-> 0]}
    /\ reading' = IF Size[file] = 0 THEN reading ELSE reading \cup {[id |-> i, file |-> file, at |-> 0]}
    /\ part' = [part EXCEPT ![i] = 0] /\ stored' = stored \ {i}

\* nextUpload() for the queue q.  It asks when the file is in the listing.  While an
\* upload is running upload() fails, onError takes the next file, and so on.
Advances(q, running) ==
  \/ q = <<>> /\ queue' = <<>> /\ asking' = {} /\ up' = running /\ UNCHANGED <<reading, part, stored>>
  \/ /\ q # <<>> /\ running = {}
     /\ queue' = Tail(q) /\ asking' = {}
     /\ Begins(Head(q))
  \/ \E i \in 1..Len(q) :
       /\ i = 1 \/ running # {}
       /\ queue' = SubSeq(q, i, Len(q)) /\ asking' = {q[i]}
       /\ up' = running /\ UNCHANGED <<reading, part, stored>>
  \/ /\ q # <<>> /\ running # {}
     /\ queue' = <<>> /\ asking' = {} /\ up' = running /\ UNCHANGED <<reading, part, stored>>

\* Defect: an error leaves the queue as it is.
LeavesQueue(running) == up' = running /\ UNCHANGED <<queue, asking, reading, part, stored>>

\* onError of app.js: the next file of a batch is taken.
OnError(running) ==
  IF queue = <<>> THEN up' = running /\ UNCHANGED <<queue, asking, reading, part, stored>>
                  ELSE Advances(queue, running)

\* An upload is given up, or taken for complete, with frames of it left or a reader.
Outlived(ids) == late' = (late \/ ids \cap {x.id : x \in {y \in Under' : y.type \in {"write", "written"}} \cup reading} # {})
Ids(u) == {x.id : x \in u}

UserUploads(files) ==
  /\ "upload" \in scope /\ files # <<>> /\ Patient
  /\ Advances(files, up)
  /\ stranded' = FALSE
  /\ UNCHANGED <<scope, down, edit, wireVars, length, late, mixed, wrongUpload, wrongRead>>

Answers ==
  /\ asking # {} /\ stranded' = FALSE
  /\ \/ /\ up = {} /\ asking' = {}
        /\ queue' = IF queue = <<>> THEN queue ELSE Tail(queue)
        /\ \E file \in asking : Begins(file)
     \/ Advances(IF queue = <<>> THEN queue ELSE Tail(queue), up)
  /\ UNCHANGED <<scope, down, edit, wireVars, length, late, mixed, wrongUpload, wrongRead>>

\* The editor saves: upload(), with the queue as it is.
Saves(file) ==
  /\ "save" \in scope /\ connected /\ Patient
  /\ IF up = {} THEN Begins(file) /\ UNCHANGED <<queue, asking>> ELSE OnError(up)
  /\ UNCHANGED <<scope, down, edit, wireVars, length, historyVars>>

\* reader.onload: a reader whose upload was cancelled sends its chunk if there is
\* an upload at all.
Loaded ==
  \E x \in reading :
    LET last == x.at + 1 >= Size[x.file] IN
    /\ reading' = reading \ {x}
    /\ IF up = {} THEN UNCHANGED <<up, toAgent>>
       ELSE /\ Send(<<[type |-> "write", id |-> x.id, at |-> x.at, commit |-> last]>>)
            /\ up' = {IF u.id = x.id THEN [u EXCEPT !.sent = @ + 1] ELSE u : u \in up}
    /\ UNCHANGED <<scope, down, edit, queue, asking, connected, toPage, agentVars, historyVars>>

CancelsUpload ==
  /\ up # {} /\ Patient
  /\ \E u \in up : Send(<<[type |-> "abort", id |-> u.id]>>)
  /\ up' = {} /\ queue' = <<>> /\ stranded' = FALSE
  /\ UNCHANGED <<scope, reading, down, edit, asking, connected, toPage, agentVars,
                 mixed, wrongUpload, wrongRead>>
  /\ Outlived(Ids(up))

\* _sendNextUpload, for which a reader that is busy stays busy.
ReadsNext(u) ==
  reading' = IF u.sent >= Size[u.file] \/ u.id \in Ids(reading) THEN reading
             ELSE reading \cup {[id |-> u.id, file |-> u.file, at |-> u.sent]}

\* _onWriteResult.
OnWritten ==
  \E x \in up :
    LET u == [x EXCEPT !.acked = @ + 1] IN
    IF u.acked >= Size[u.file]
    THEN /\ wrongUpload' = (wrongUpload \/ (u.id \notin stored /\ ~late))
         /\ Outlived({u.id})
         /\ Advances(queue, {})
    ELSE up' = {u} /\ ReadsNext(u) /\ UNCHANGED <<queue, asking, part, stored, late, wrongUpload>>

--------------------------------------------------------------------------------
(* Reads.                                                                      *)

Read(doc, at) == [type |-> "read", path |-> doc, at |-> at]
NewRead(doc) == Send(<<Read(doc, 0)>>) /\ mixed' = (mixed \/ Frames({"read", "chunk"}, doc) # {})

Downloads(doc) ==
  /\ "download" \in scope /\ Patient
  /\ IF down # {} THEN OnError(up) /\ UNCHANGED <<down, toAgent, mixed>>
     ELSE /\ down' = {[path |-> doc, parts |-> <<>>]} /\ NewRead(doc)
          /\ UNCHANGED <<up, queue, asking, reading, part, stored>>
  /\ UNCHANGED <<scope, edit, connected, toPage, length, late, stranded, wrongUpload, wrongRead>>

CancelsDownload == down # {} /\ down' = {}
  /\ UNCHANGED <<scope, up, reading, edit, queue, asking, wireVars, agentVars, historyVars>>

\* editText: asking for the file that is on its way is a repeated click.
Edits(doc) ==
  /\ "edit" \in scope /\ Patient
  /\ ~(connected /\ \E e \in edit : e.path = doc)
  /\ edit' = {[path |-> doc, parts |-> <<>>]} /\ NewRead(doc)
  /\ UNCHANGED <<scope, up, reading, down, queue, asking, connected, toPage, agentVars,
                 late, stranded, wrongUpload, wrongRead>>

CancelsEdit == edit # {} /\ edit' = {}
  /\ UNCHANGED <<scope, up, reading, down, queue, asking, wireVars, agentVars, historyVars>>

InOrder(parts) == \A i \in 1..Len(parts) : parts[i] = i - 1

\* One chunk for a reader r: what becomes of it, whether it is complete or has failed.
Extended(r, at) == {[r EXCEPT !.parts = Append(@, at)]}
Complete(r) == Len(r.parts) + 1 >= DocSize[r.path]

\* Defect: a chunk goes to whatever is being read.
AnyChunk(s, x) == s

For(s, x) == {r \in s : r.path = x.path}

\* _onReadResult: the editor comes first, and nobody waits for a late answer.
OnChunk(x) ==
  IF For(edit, x) # {} THEN
    /\ UNCHANGED down
    /\ \E r \in For(edit, x) :
         \/ /\ x.end /\ edit' = {} /\ OnError(up) /\ UNCHANGED wrongRead
            /\ toAgent' = toAgent
         \/ /\ ~x.end /\ Complete(r) /\ edit' = {} /\ UNCHANGED toAgent
            /\ wrongRead' = (wrongRead \/ (~mixed /\ ~InOrder(Append(r.parts, x.at))))
            /\ UNCHANGED <<up, queue, asking, reading, part, stored>>
         \/ /\ ~x.end /\ ~Complete(r) /\ edit' = Extended(r, x.at)
            /\ Send(<<Read(r.path, Len(r.parts) + 1)>>)
            /\ UNCHANGED <<up, queue, asking, reading, part, stored, wrongRead>>
  ELSE
    /\ UNCHANGED edit
    /\ \/ /\ For(down, x) = {}
          /\ UNCHANGED <<down, toAgent, wrongRead, up, queue, asking, reading, part, stored>>
       \/ \E r \in For(down, x) :
            \/ x.end /\ down' = {} /\ OnError(up) /\ UNCHANGED <<toAgent, wrongRead>>
            \/ /\ ~x.end /\ Complete(r) /\ down' = {} /\ UNCHANGED toAgent
               /\ wrongRead' = (wrongRead \/ (~mixed /\ ~InOrder(Append(r.parts, x.at))))
               /\ UNCHANGED <<up, queue, asking, reading, part, stored>>
            \/ /\ ~x.end /\ ~Complete(r) /\ down' = Extended(r, x.at)
               /\ Send(<<Read(x.path, Len(r.parts) + 1)>>)
               /\ UNCHANGED <<up, queue, asking, reading, part, stored, wrongRead>>

--------------------------------------------------------------------------------
(* The session.                                                                *)

\* A frame of the agent arrives: _onMessage.  An error, of whatever command, ends
\* every transfer, and no abort is sent.
PageReceives ==
  /\ toPage # <<>> /\ toPage' = Tail(toPage)
  /\ LET x == Head(toPage) IN
     \/ /\ x.type = "written" /\ UNCHANGED <<toAgent, down, edit, wrongRead>>
        /\ IF up = {} THEN UNCHANGED <<up, reading, queue, asking, part, stored, late, wrongUpload>>
                      ELSE OnWritten
     \/ x.type = "chunk" /\ OnChunk(x) /\ UNCHANGED <<late, wrongUpload>>
     \/ /\ x.type = "error" /\ down' = {} /\ edit' = {}
        /\ UNCHANGED <<toAgent, wrongUpload, wrongRead>>
        /\ Outlived(Ids(up)) /\ OnError({})
  /\ UNCHANGED <<scope, connected, length, mixed, stranded>>

\* The agent carries out the next command.  Each may fail, or take too long, which is
\* answered as a failure; the page has no use for the answer to an abort.
AgentAnswers ==
  /\ toAgent # <<>> /\ toAgent' = Tail(toAgent)
  /\ LET x == Head(toAgent)
         Reply(f) == toPage' = Append(toPage, f)
         Fails == Reply([type |-> "error"])
     IN
     \/ /\ x.type = "write" /\ x.at = part[x.id]
        /\ part' = [part EXCEPT ![x.id] = IF x.commit THEN 0 ELSE @ + 1]
        /\ stored' = IF x.commit THEN stored \cup {x.id} ELSE stored
        /\ Reply([type |-> "written", id |-> x.id])
     \/ x.type = "write" /\ part' = [part EXCEPT ![x.id] = 0] /\ UNCHANGED stored /\ Fails
     \/ /\ x.type = "abort" /\ part' = [part EXCEPT ![x.id] = 0] /\ UNCHANGED stored
        /\ Fails \/ UNCHANGED toPage
     \/ /\ x.type = "read" /\ UNCHANGED <<part, stored>>
        /\ \/ Reply([type |-> "chunk", path |-> x.path, at |-> x.at, end |-> x.at >= length[x.path]])
           \/ Fails
     \/ x.type = "other" /\ UNCHANGED <<part, stored>> /\ (Fails \/ UNCHANGED toPage)
  /\ UNCHANGED <<scope, pageVars, connected, length, historyVars>>

\* A command that transfers nothing: a listing, a new directory.
Commands ==
  /\ "other" \in scope /\ Patient
  /\ Send(<<[type |-> "other"]>>) /\ connected
  /\ UNCHANGED <<scope, pageVars, connected, toPage, agentVars, historyVars>>

\* A file is cut short on the agent while it is read.
Shrinks ==
  /\ "edit" \in scope
  /\ \E doc \in Docs : length[doc] > 1 /\ length' = [length EXCEPT ![doc] = 1]
  /\ UNCHANGED <<scope, pageVars, wireVars, part, stored, historyVars>>

\* Defect: answers on the old socket still count.
AnswersStay == UNCHANGED toPage

AnswersLost == toPage' = <<>>

\* close(): the window is closed, or open() begins anew; the agent deletes what is
\* not committed as its session ends, and answers on the old socket are discarded.
Ends ==
  /\ "leave" \in scope
  /\ up' = {} /\ down' = {} /\ edit' = {}
  /\ connected' = FALSE /\ toAgent' = <<>> /\ AnswersLost
  /\ part' = [i \in Uploads |-> 0]
  /\ late' = (reading # {}) /\ mixed' = FALSE
  /\ stranded' = (stranded \/ queue # <<>>)
  /\ UNCHANGED <<scope, reading, queue, asking, stored, length, wrongUpload, wrongRead>>

\* onclose: the connection is lost, and nothing else changes.
Disconnects ==
  /\ "leave" \in scope /\ connected
  /\ connected' = FALSE /\ toAgent' = <<>> /\ AnswersLost
  /\ part' = [i \in Uploads |-> 0]
  /\ stranded' = (stranded \/ queue # <<>> \/ up # {})
  /\ UNCHANGED <<scope, pageVars, stored, length, late, mixed, wrongUpload, wrongRead>>

\* open(), of a session that close() has put back.
OpensFiles ==
  /\ ~connected /\ up = {} /\ down = {} /\ edit = {}
  /\ connected' = TRUE
  /\ UNCHANGED <<scope, pageVars, toAgent, toPage, agentVars, historyVars>>

--------------------------------------------------------------------------------

FileUser ==
  \/ \E files \in Batches : UserUploads(files)
  \/ \E f \in Files : Saves(f)
  \/ \E doc \in Docs : Downloads(doc) \/ Edits(doc)
  \/ Answers \/ CancelsUpload \/ CancelsDownload \/ CancelsEdit \/ Commands
  \/ Ends \/ OpensFiles

TransferNext == FileUser \/ Loaded \/ PageReceives \/ AgentAnswers \/ Shrinks \/ Disconnects

TransferSpec == TransferInit /\ [][TransferNext]_transferVars

\* Readers finish, the session delivers and the agent answers.
TransferFairness ==
  WF_transferVars(Loaded) /\ WF_transferVars(PageReceives) /\ WF_transferVars(AgentAnswers)

FairTransferSpec == TransferSpec /\ TransferFairness

--------------------------------------------------------------------------------
(* Properties.                                                                 *)

\* What is reported as uploaded is stored on the agent, whatever was cancelled, failed
\* or was opened anew before: unless, on one connection, frames of an upload that
\* was given up were still under way, whose answers count for the next.
DoneIsStored == ~wrongUpload

\* What is saved or shown in the editor is the file, each chunk once and in order,
\* unless it was asked for while answers to another read of the same file were
\* under way.
ReadIsWhole == ~wrongRead

\* No upload runs, but perhaps that of an empty file, and none that could is waiting.
Settled == /\ \A u \in up : Size[u.file] = 0
           /\ queue # <<>> => asking # {} \/ up # {}

\* When the user lets it be, a batch comes to its end: every file of it is uploaded,
\* fails or waits for his word, whatever fails in between.  Not held to it are an
\* empty file, which has no chunk to be answered, and the end of the session.
BatchEnds ==
  (<>[]connected /\ <>[][~FileUser]_transferVars) => <>[](stranded \/ Settled)
================================================================================
