----------------------------- MODULE StaticContent -----------------------------
(***************************************************************************)
(* static_content: one request for a path below the document root.  The    *)
(* answer is worked out by a series of questions to the file system, and   *)
(* other programs change the files between any two of them.                *)
(*                                                                         *)
(* Two files matter: the path itself and "index.html" below it.  A file is *)
(* a sequence of blocks, as many as the buffer of serve_file() takes turns.*)
(***************************************************************************)
EXTENDS Naturals, Sequences, SequencesExt

CONSTANTS
  Block,       \* the blocks files are made of
  MaxBlocks,   \* bound: blocks of a file, or taken from a pipe
  MaxChanges   \* bound: changes other programs make during the request

ASSUME StaticAssumption == MaxBlocks \in Nat /\ MaxChanges \in Nat

Blocks == SeqOf(Block, MaxBlocks)

\* "locked" is a regular file that cannot be opened. What is neither a regular file nor
\* a directory either cannot be opened, as a socket, or is a "pipe", named or a device:
\* what comes out of it, and when, is up to whoever is at its other end.
Node == [kind : {"file"}, blocks : Blocks] \cup
        [kind : {"absent", "directory", "locked", "socket", "pipe"}, blocks : {<<>>}]

Absent == [kind |-> "absent", blocks |-> <<>>]

\* Only a directory holds an index.html.
FileSystem == {f \in [path : Node, index : Node] : f.path.kind # "directory" => f.index = Absent}

VARIABLES
  fs,       \* the files
  request,  \* the method, and whether the uri ends with '/'
  pc,       \* the next question to the file system, or "pipe" in the open() or a read()
            \* of one, or "done", or "thrown"
  file,     \* the file serve_file() was called for: "path" or "index"
  stream,   \* the open file: its blocks, the next to read, whether fs still has it
  reply,    \* its status, content and Content-Length
  seen,     \* history: the file systems there have been
  events    \* history: "fault" after an i/o error, "rewrite" after a change in place,
            \* "pipe" when what serve_file() opens is one

svars == <<fs, request, pc, file, stream, reply, seen, events>>

Closed == [blocks |-> <<>>, next |-> 1, linked |-> FALSE]

\* Bodies that are not the blocks of a file.
Stock == <<"stock">>
Listing == <<"listing">>

Reply(status, content) == [status |-> status, content |-> content, length |-> Len(content)]
Headless(rep, req) == [rep EXCEPT !.content = IF req.method = "HEAD" THEN <<>> ELSE @]

StaticInit ==
  /\ fs \in FileSystem
  /\ request \in [method : {"GET", "HEAD"}, slash : BOOLEAN]
  /\ pc = "is_directory"
  /\ file = "path"
  /\ stream = Closed
  /\ reply = Reply("ok", <<>>)
  /\ seen = <<fs>>
  /\ events = {}

-----------------------------------------------------------------------------
(***************************************************************************)
(* serve_if_match(), list_directory() and serve_file(), one question to    *)
(* the file system at a time.                                              *)
(***************************************************************************)
At(label) == pc = label /\ UNCHANGED <<fs, request, seen>>
Goto(label) == pc' = label

\* Mutant of Answer: the body is dropped before its length is taken.
AnswerUnmeasured(status, content) ==
  reply' = Reply(status, IF request.method = "HEAD" THEN <<>> ELSE content)

\* The end of serve_if_match(): the body is measured, then dropped for HEAD.
Answer(status, content) == reply' = Headless(Reply(status, content), request)

Finish(status, content) == Goto("done") /\ Answer(status, content) /\ UNCHANGED <<file, stream>>

\* fs::is_directory(request_path)
IsDirectory ==
  /\ At("is_directory")
  /\ Goto(IF fs.path.kind = "directory" THEN "index_exists" ELSE "exists")
  /\ UNCHANGED <<file, stream, reply, events>>

\* fs::exists(index_path): serve it,
IndexExists ==
  /\ At("index_exists")
  /\ fs.index.kind # "absent"
  /\ Goto("exists")
  /\ file' = "index"
  /\ UNCHANGED <<stream, reply, events>>

\* else list the directory, or redirect to the uri with a slash.
NoIndex ==
  /\ At("index_exists")
  /\ fs.index.kind = "absent"
  /\ IF request.slash THEN Goto("list") /\ UNCHANGED <<file, stream, reply>>
                      ELSE Finish("moved_permanently", Stock)
  /\ UNCHANGED events

\* list_directory: whatever goes wrong in it ends in not_found.
ListDirectory ==
  /\ At("list")
  /\ \/ fs.path.kind = "directory" /\ Finish("ok", Listing) /\ UNCHANGED events
     \/ fs.path.kind # "directory" /\ Finish("not_found", Stock) /\ UNCHANGED events
     \/ Finish("not_found", Stock) /\ events' = events \cup {"fault"}

\* The questions of std::filesystem throw on an error that does not tell whether the
\* file is there.
QuestionThrows ==
  /\ \E label \in {"is_directory", "index_exists", "exists", "is_regular"} : At(label)
  /\ Goto("thrown")
  /\ events' = events \cup {"fault"}
  /\ UNCHANGED <<file, stream, reply>>

Exists ==
  /\ At("exists")
  /\ IF fs[file].kind = "absent" THEN Finish("not_found", Stock)
     ELSE Goto("is_regular") /\ UNCHANGED <<file, stream, reply>>
  /\ UNCHANGED events

\* fs::is_regular_file: of a file that has gone meanwhile, it says no.
IsRegular ==
  /\ At("is_regular")
  /\ IF fs[file].kind \in {"file", "locked"} THEN Goto("open") /\ UNCHANGED <<file, stream, reply>>
     ELSE Finish("forbidden", Stock)
  /\ UNCHANGED events

\* std::ifstream: a directory opens too, and nothing can be read from it.
Open ==
  /\ At("open")
  /\ fs[file].kind \in {"file", "directory"}
  /\ Goto("read")
  /\ stream' = [blocks |-> fs[file].blocks, next |-> 1, linked |-> TRUE]
  /\ UNCHANGED <<file, reply, events>>

OpenFails ==
  /\ At("open")
  /\ fs[file].kind \in {"absent", "locked", "socket"}
  /\ Finish("not_found", Stock)
  /\ UNCHANGED events

\* A pipe has taken the name since is_regular_file(): the thread waits in open() for
\* somebody at the other end, then in each read().
OpenPipe ==
  /\ At("open")
  /\ fs[file].kind = "pipe"
  /\ Goto("pipe")
  /\ events' = events \cup {"pipe"}
  /\ UNCHANGED <<file, stream, reply>>

\* Mutant of ReadBlock: the block comes from the file that has the name by now.
ReadBlockByName ==
  /\ stream.next \in DOMAIN fs[file].blocks
  /\ reply' = [reply EXCEPT !.content = Append(@, fs[file].blocks[stream.next])]

ReadBlock ==
  /\ stream.next \in DOMAIN stream.blocks
  /\ reply' = [reply EXCEPT !.content = Append(@, stream.blocks[stream.next])]

Read ==
  /\ At("read")
  /\ ReadBlock
  /\ Goto("read")
  /\ stream' = [stream EXCEPT !.next = @ + 1]
  /\ UNCHANGED <<file, events>>

\* Mutant of Measured: Content-Length is the size the file has by now.
MeasuredByName ==
  reply' = [Headless(Reply("ok", reply.content), request) EXCEPT !.length = Len(fs[file].blocks)]

Measured == Answer("ok", reply.content)

\* Mutant of EndOfFile: the loop goes on until the end of the file is seen, which
\* nothing but a file has.
EndOfFileAwaited ==
  /\ At("read")
  /\ stream.next \notin DOMAIN stream.blocks
  /\ fs[file].kind = "file"
  /\ Goto("done")
  /\ Measured
  /\ UNCHANGED <<file, stream, events>>

\* read() gets nothing: the end of the file, or an error.
EndOfFile ==
  /\ At("read")
  /\ IF stream.next \in DOMAIN stream.blocks THEN events' = events \cup {"fault"} ELSE UNCHANGED events
  /\ Goto("done")
  /\ Measured
  /\ UNCHANGED <<file, stream>>

ServerStep ==
  \/ IsDirectory \/ IndexExists \/ NoIndex \/ ListDirectory \/ QuestionThrows
  \/ Exists \/ IsRegular \/ Open \/ OpenFails \/ OpenPipe \/ Read \/ EndOfFile

\* What the loop gets from a pipe, when somebody writes to it or closes it.
ReadPipe ==
  /\ At("pipe")
  /\ Len(reply.content) < MaxBlocks
  /\ \E b \in Block : reply' = [reply EXCEPT !.content = Append(@, b)]
  /\ Goto("pipe")
  /\ UNCHANGED <<file, stream, events>>

EndOfPipe ==
  /\ At("pipe")
  /\ Goto("done")
  /\ Measured
  /\ UNCHANGED <<file, stream, events>>

-----------------------------------------------------------------------------
(***************************************************************************)
(* The other programs: a file appears, goes, or another takes its name     *)
(* (an open one stays as it is), or is written over in place.              *)
(***************************************************************************)
ChangeTo(f) ==
  /\ Len(seen) <= MaxChanges
  /\ pc \notin {"done", "thrown"}
  /\ fs' = f
  /\ seen' = Append(seen, f)
  /\ UNCHANGED <<request, pc, file, reply>>

Replace ==
  /\ \E f \in FileSystem \ {fs} :
       /\ ChangeTo(f)
       /\ stream' = [stream EXCEPT !.linked = @ /\ f[file] = fs[file]]
  /\ UNCHANGED events

Rewrite(name) ==
  /\ fs[name].kind = "file"
  /\ \E blocks \in Blocks \ {fs[name].blocks} :
       /\ ChangeTo([fs EXCEPT ![name].blocks = blocks])
       /\ stream' = IF stream.linked /\ file = name THEN [stream EXCEPT !.blocks = blocks] ELSE stream
  /\ events' = events \cup {"rewrite"}

StaticNext ==
  \/ ServerStep \/ ReadPipe \/ EndOfPipe
  \/ Replace \/ \E name \in {"path", "index"} : Rewrite(name)

\* No fairness for what takes another program.
StaticSpec == StaticInit /\ [][StaticNext]_svars /\ WF_svars(ServerStep)

-----------------------------------------------------------------------------
(***************************************************************************)
(* Properties.                                                             *)
(***************************************************************************)
\* What the reply to a request is for files that do not change.
Expected(f, req) ==
  LET name == IF f.path.kind = "directory" THEN "index" ELSE "path"
      rep  == CASE name = "index" /\ f.index = Absent /\ req.slash -> Reply("ok", Listing)
                [] name = "index" /\ f.index = Absent /\ ~req.slash -> Reply("moved_permanently", Stock)
                [] f[name].kind = "file" -> Reply("ok", f[name].blocks)
                [] f[name].kind \in {"directory", "socket", "pipe"} -> Reply("forbidden", Stock)
                [] OTHER -> Reply("not_found", Stock)
  IN  Headless(rep, req)

\* When nothing changes and no call fails, the reply is the one expected of the
\* files, and HEAD gets the Content-Length of GET with no body.
QuietReply == pc = "done" /\ Len(seen) = 1 /\ "fault" \notin events => reply = Expected(fs, request)

\* Content-Length is the length of the body that follows it, whatever happens to the
\* files while they are read; a reply to HEAD has no body.
LengthIsTrue ==
  pc = "done" => IF request.method = "HEAD" THEN reply.content = <<>>
                                            ELSE reply.length = Len(reply.content)

\* While other programs only replace files, and by no pipe, a file is sent whole, in one of the
\* versions it had during the request: never the pieces of two.  (A directory that
\* took the name in time reads as an empty file.)
WholeVersion ==
  /\ pc = "done" /\ events = {} /\ request.method = "GET"
  /\ reply.status = "ok" /\ reply.content # Listing
  => \E k \in DOMAIN seen, name \in {"path", "index"} :
       /\ seen[k][name].kind \in {"file", "directory"}
       /\ reply.content = seen[k][name].blocks

\* Every request is answered, or ends in an exception, if the files change finitely often:
\* the loop of serve_file() does not run for ever. The one exception is a pipe that has
\* taken the name between is_regular_file() and the opening: until somebody at its
\* other end ends it, the thread stays there. (A file that is appended to as fast as it
\* is read, without end, keeps the loop going too; MaxChanges leaves that out.)
RequestEnds == <>(pc \in {"done", "thrown"}) \/ <>[](pc = "pipe")

=============================================================================
