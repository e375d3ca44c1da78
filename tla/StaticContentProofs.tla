-------------------------- MODULE StaticContentProofs --------------------------
(***************************************************************************)
(* Theorems about StaticContent, for any files and any changes to them.    *)
(***************************************************************************)
EXTENDS StaticContent, TLAPS

Labels == {"is_directory", "index_exists", "list", "exists", "is_regular", "open", "read", "pipe", "done", "thrown"}

StaticTypeOK ==
  /\ fs \in FileSystem
  /\ request \in [method : {"GET", "HEAD"}, slash : BOOLEAN]
  /\ pc \in Labels
  /\ file \in {"path", "index"}
  /\ stream \in [blocks : Seq(Block), next : Nat \ {0}, linked : BOOLEAN]
  /\ seen \in Seq(FileSystem) /\ seen # <<>>
  /\ events \subseteq {"fault", "rewrite", "pipe"}

\* What has been read is the beginning of the open file, as long as nobody writes
\* over it; and the open file is one that had the name.
Unwritten == "rewrite" \notin events

StreamInv ==
  /\ fs = seen[Len(seen)]
  /\ pc \notin {"read", "pipe", "done"} => reply = Reply("ok", <<>>)
  /\ pc = "pipe" => "pipe" \in events
  /\ pc = "read" /\ Unwritten =>
       /\ reply.content = SubSeq(stream.blocks, 1, stream.next - 1)
       /\ stream.next <= Len(stream.blocks) + 1
       /\ \E k \in DOMAIN seen : /\ seen[k][file].kind \in {"file", "directory"}
                                 /\ stream.blocks = seen[k][file].blocks

LEMMA BlocksAreSequences == Blocks \subseteq Seq(Block)
  BY StaticAssumption DEF Blocks, SeqOf

LEMMA NodeBlocks == \A node \in Node : node.blocks \in Seq(Block)
<1>1. <<>> \in Seq(Block)
  OBVIOUS
<1> TAKE node \in Node
<1>2. CASE node \in [kind : {"file"}, blocks : Blocks]
  BY <1>2, BlocksAreSequences
<1>3. CASE node \in [kind : {"absent", "directory", "locked", "socket", "pipe"}, blocks : {<<>>}]
  BY <1>3, <1>1
<1> QED
  BY <1>2, <1>3 DEF Node

LEMMA FileNodes == \A f \in FileSystem, name \in {"path", "index"} : f[name] \in Node
  BY DEF FileSystem

LEMMA TypeInit == StaticInit => StaticTypeOK
  BY DEF StaticInit, StaticTypeOK, Labels, Closed

\* Writing over a file leaves a file.
LEMMA RewrittenFiles ==
  ASSUME NEW f \in FileSystem, NEW name \in {"path", "index"}, f[name].kind = "file",
         NEW blocks \in Blocks
  PROVE  [f EXCEPT ![name].blocks = blocks] \in FileSystem
<1> DEFINE g == [f EXCEPT ![name].blocks = blocks]
<1>1. f \in [path : Node, index : Node] /\ (f.path.kind # "directory" => f.index = Absent)
  BY DEF FileSystem
<1>2. f[name] \in [kind : {"file"}, blocks : Blocks]
  BY <1>1 DEF Node
<1>3. [f[name] EXCEPT !.blocks = blocks] \in [kind : {"file"}, blocks : Blocks]
  BY <1>2
<1>4. g \in [path : Node, index : Node]
  BY <1>1, <1>3 DEF Node
<1>5. g.path.kind # "directory" => g.index = Absent
  <2>1. CASE name = "path"
    BY <1>1, <2>1
  <2>2. CASE name = "index"
    <3>1. f.index # Absent
      BY <2>2 DEF Absent
    <3> QED
      BY <1>1, <2>2, <3>1
  <2> QED
    BY <2>1, <2>2
<1> QED
  BY <1>4, <1>5 DEF FileSystem

LEMMA ChangeKeepsTypes ==
  ASSUME StaticTypeOK, NEW f \in FileSystem, ChangeTo(f)
  PROVE  /\ fs' \in FileSystem
         /\ request' = request /\ pc' = pc /\ file' = file
         /\ seen' \in Seq(FileSystem) /\ seen' # <<>>
  BY DEF StaticTypeOK, ChangeTo

LEMMA TypeStep == StaticTypeOK /\ [StaticNext]_svars => StaticTypeOK'
<1> SUFFICES ASSUME StaticTypeOK, [StaticNext]_svars PROVE StaticTypeOK'
  OBVIOUS
<1> USE DEF StaticTypeOK, Labels, At, Goto, Finish
<1>1. CASE UNCHANGED svars
  BY <1>1 DEF svars
<1>2. CASE IsDirectory
  BY <1>2 DEF IsDirectory
<1>3. CASE IndexExists
  BY <1>3 DEF IndexExists
<1>4. CASE NoIndex
  BY <1>4 DEF NoIndex
<1>5. CASE ListDirectory
  BY <1>5 DEF ListDirectory
<1>6. CASE QuestionThrows
  BY <1>6 DEF QuestionThrows
<1>7. CASE Exists
  BY <1>7 DEF Exists
<1>8. CASE IsRegular
  BY <1>8 DEF IsRegular
<1>9. CASE Open
  <2>1. fs[file].blocks \in Seq(Block)
    BY NodeBlocks, FileNodes
  <2>2. [blocks |-> fs[file].blocks, next |-> 1, linked |-> TRUE]
          \in [blocks : Seq(Block), next : Nat \ {0}, linked : BOOLEAN]
    BY <2>1
  <2> QED
    BY <1>9, <2>2 DEF Open
<1>10. CASE Read
  BY <1>10 DEF Read
<1>11. CASE EndOfFile
  BY <1>11 DEF EndOfFile
<1>14. CASE OpenFails \/ OpenPipe \/ ReadPipe \/ EndOfPipe
  BY <1>14 DEF OpenFails, OpenPipe, ReadPipe, EndOfPipe
<1>12. CASE Replace
  <2>1. PICK f \in FileSystem : ChangeTo(f) /\ stream' = [stream EXCEPT !.linked = @ /\ f[file] = fs[file]]
    BY <1>12 DEF Replace
  <2>2. (stream.linked /\ f[file] = fs[file]) \in BOOLEAN
    OBVIOUS
  <2>3. stream' \in [blocks : Seq(Block), next : Nat \ {0}, linked : BOOLEAN]
    BY <2>1, <2>2
  <2> QED
    BY <1>12, <2>1, <2>3, ChangeKeepsTypes DEF Replace
<1>13. ASSUME NEW name \in {"path", "index"}, Rewrite(name) PROVE StaticTypeOK'
  <2>1. PICK blocks \in Blocks :
          /\ ChangeTo([fs EXCEPT ![name].blocks = blocks])
          /\ stream' = IF stream.linked /\ file = name THEN [stream EXCEPT !.blocks = blocks] ELSE stream
    BY <1>13 DEF Rewrite
  <2>2. fs[name].kind = "file" /\ events' = events \cup {"rewrite"}
    BY <1>13 DEF Rewrite
  <2>3. [fs EXCEPT ![name].blocks = blocks] \in FileSystem
    BY <2>2, RewrittenFiles
  <2>4. stream' \in [blocks : Seq(Block), next : Nat \ {0}, linked : BOOLEAN]
    BY <2>1, BlocksAreSequences
  <2> QED
    BY <2>1, <2>2, <2>3, <2>4, ChangeKeepsTypes
<1> QED
  BY <1>1, <1>2, <1>3, <1>4, <1>5, <1>6, <1>7, <1>8, <1>9, <1>10, <1>11, <1>12, <1>13, <1>14
     DEF StaticNext, ServerStep

-----------------------------------------------------------------------------
(***************************************************************************)
(* WholeVersion.                                                           *)
(***************************************************************************)
LEMMA OneMore ==
  ASSUME NEW S, NEW s \in Seq(S), NEW n \in Nat \ {0}, n \in DOMAIN s
  PROVE  Append(SubSeq(s, 1, n - 1), s[n]) = SubSeq(s, 1, n)
<1>1. SubSeq(s, 1, n - 1) \in Seq(S) /\ Len(SubSeq(s, 1, n - 1)) = n - 1
  OBVIOUS
<1>2. SubSeq(s, 1, n) \in Seq(S) /\ Len(SubSeq(s, 1, n)) = n
  OBVIOUS
<1>3. Append(SubSeq(s, 1, n - 1), s[n]) \in Seq(S) /\ Len(Append(SubSeq(s, 1, n - 1), s[n])) = n
  BY <1>1
<1>4. \A i \in 1..n : Append(SubSeq(s, 1, n - 1), s[n])[i] = SubSeq(s, 1, n)[i]
  BY <1>1, <1>2
<1> QED
  BY <1>2, <1>3, <1>4

LEMMA Whole ==
  ASSUME NEW S, NEW s \in Seq(S), NEW n \in Nat \ {0}, n \notin DOMAIN s, n <= Len(s) + 1
  PROVE  SubSeq(s, 1, n - 1) = s
<1>1. n - 1 = Len(s)
  OBVIOUS
<1> QED
  BY <1>1

\* A change appends to the history and leaves what has been seen.
LEMMA ChangeIsSeen ==
  ASSUME StaticTypeOK, NEW f \in FileSystem, ChangeTo(f)
  PROVE  /\ fs' = seen'[Len(seen')]
         /\ \A k \in DOMAIN seen : k \in DOMAIN seen' /\ seen'[k] = seen[k]
         /\ Len(seen') = Len(seen) + 1 /\ Len(seen) >= 1
  BY DEF StaticTypeOK, ChangeTo

LEMMA AnswerIs ==
  ASSUME NEW status, NEW content, Answer(status, content)
  PROVE  /\ reply'.status = status
         /\ reply'.length = Len(content)
         /\ request.method = "HEAD" => reply'.content = <<>>
         /\ request.method # "HEAD" => reply'.content = content
  BY DEF Answer, Headless, Reply

SInv == StaticTypeOK /\ StreamInv /\ WholeVersion

LEMMA SInvInit == StaticInit => SInv
  BY TypeInit DEF StaticInit, SInv, StreamInv, WholeVersion

LEMMA SInvStep == SInv /\ [StaticNext]_svars => SInv'
<1> SUFFICES ASSUME SInv, [StaticNext]_svars PROVE StreamInv' /\ WholeVersion'
  BY TypeStep DEF SInv
<1> USE DEF SInv
<1>1. CASE UNCHANGED svars
  BY <1>1 DEF svars, StreamInv, WholeVersion, Unwritten
<1>2. ASSUME UNCHANGED <<fs, seen, reply>>,
             pc \notin {"read", "pipe", "done"}, pc' \notin {"read", "pipe", "done"}
      PROVE  StreamInv' /\ WholeVersion'
  BY <1>2 DEF StreamInv, WholeVersion
<1>3. ASSUME UNCHANGED <<fs, seen, request>>, pc' = "done",
             NEW status, NEW content, Answer(status, content), status # "ok" \/ content = Listing
      PROVE  StreamInv' /\ WholeVersion'
  BY <1>3, AnswerIs DEF StreamInv, WholeVersion, StaticTypeOK
<1>4. CASE IsDirectory \/ IndexExists \/ QuestionThrows
  BY <1>2, <1>4 DEF IsDirectory, IndexExists, QuestionThrows, At, Goto
<1>5. CASE NoIndex
  BY <1>2, <1>3, <1>5 DEF NoIndex, At, Goto, Finish
<1>6. CASE ListDirectory
  BY <1>3, <1>6 DEF ListDirectory, At, Goto, Finish
<1>7. CASE Exists
  BY <1>2, <1>3, <1>7 DEF Exists, At, Goto, Finish
<1>8. CASE IsRegular
  BY <1>2, <1>3, <1>8 DEF IsRegular, At, Goto, Finish
<1>9. CASE Open
  <2>1. /\ pc = "open" /\ pc' = "read" /\ UNCHANGED <<fs, request, seen, file, reply, events>>
        /\ fs[file].kind \in {"file", "directory"}
        /\ stream' = [blocks |-> fs[file].blocks, next |-> 1, linked |-> TRUE]
    BY <1>9 DEF Open, At, Goto
  <2>2. fs[file].blocks \in Seq(Block)
    BY NodeBlocks, FileNodes DEF StaticTypeOK
  <2>3. reply.content = SubSeq(stream'.blocks, 1, stream'.next - 1)
    <3>1. reply.content = <<>>
      BY <2>1 DEF StreamInv, Reply
    <3>2. stream'.next - 1 = 0 /\ stream'.blocks = fs[file].blocks
      BY <2>1
    <3>3. SubSeq(fs[file].blocks, 1, 0) = <<>>
      BY <2>2
    <3> QED
      BY <3>1, <3>2, <3>3
  <2>4. Len(seen) \in DOMAIN seen
    BY DEF StaticTypeOK
  <2> QED
    BY <2>1, <2>2, <2>3, <2>4 DEF StreamInv, WholeVersion
<1>14. CASE OpenFails
  BY <1>3, <1>14 DEF OpenFails, At, Goto, Finish
<1>15. CASE OpenPipe \/ ReadPipe
  <2>1. /\ UNCHANGED <<fs, seen>> /\ pc' = "pipe"
        /\ "pipe" \in events'
    BY <1>15 DEF OpenPipe, ReadPipe, At, Goto, StreamInv
  <2> QED
    BY <2>1 DEF StreamInv, WholeVersion
<1>16. CASE EndOfPipe
  <2>1. /\ UNCHANGED <<fs, seen>> /\ pc' = "done" /\ "pipe" \in events'
    BY <1>16 DEF EndOfPipe, At, Goto, StreamInv
  <2> QED
    BY <2>1 DEF StreamInv, WholeVersion
<1>10. CASE Read
  <2>1. /\ pc = "read" /\ pc' = "read" /\ UNCHANGED <<fs, request, seen, file, events>>
        /\ stream.next \in DOMAIN stream.blocks
        /\ stream' = [stream EXCEPT !.next = @ + 1]
        /\ reply' = [reply EXCEPT !.content = Append(@, stream.blocks[stream.next])]
    BY <1>10 DEF Read, ReadBlock, At, Goto
  <2> QED
    BY <2>1, OneMore DEF StreamInv, WholeVersion, StaticTypeOK, Unwritten
<1>11. CASE EndOfFile
  <2>1. /\ pc = "read" /\ pc' = "done" /\ UNCHANGED <<fs, request, seen, file, stream>>
        /\ Answer("ok", reply.content)
        /\ events' = {} => events = {} /\ stream.next \notin DOMAIN stream.blocks
    BY <1>11 DEF EndOfFile, Measured, At, Goto
  <2>2. ASSUME events' = {}, request.method = "GET"
        PROVE  \E k \in DOMAIN seen : /\ seen[k][file].kind \in {"file", "directory"}
                                      /\ reply'.content = seen[k][file].blocks
    <3>1. reply.content = SubSeq(stream.blocks, 1, stream.next - 1) /\ stream.next <= Len(stream.blocks) + 1
      BY <2>1, <2>2 DEF StreamInv, Unwritten
    <3>2. reply.content = stream.blocks
      BY <2>1, <2>2, <3>1, Whole DEF StaticTypeOK
    <3> QED
      BY <2>1, <2>2, <3>2, AnswerIs DEF StreamInv, Unwritten
  <2> QED
    BY <2>1, <2>2 DEF StreamInv, WholeVersion, StaticTypeOK
<1>12. CASE Replace
  <2>1. PICK f \in FileSystem : ChangeTo(f) /\ stream' = [stream EXCEPT !.linked = @ /\ f[file] = fs[file]]
    BY <1>12 DEF Replace
  <2>2. /\ UNCHANGED <<request, pc, file, reply, events>> /\ pc # "done"
        /\ stream'.blocks = stream.blocks /\ stream'.next = stream.next
    BY <1>12, <2>1 DEF Replace, ChangeTo, StaticTypeOK
  <2> QED
    BY <2>1, <2>2, ChangeIsSeen DEF StreamInv, WholeVersion, Unwritten
<1>13. ASSUME NEW name \in {"path", "index"}, Rewrite(name) PROVE StreamInv' /\ WholeVersion'
  <2>1. PICK blocks \in Blocks : ChangeTo([fs EXCEPT ![name].blocks = blocks])
    BY <1>13 DEF Rewrite
  <2>2. fs[name].kind = "file" /\ events' = events \cup {"rewrite"}
    BY <1>13 DEF Rewrite
  <2>3. [fs EXCEPT ![name].blocks = blocks] \in FileSystem
    BY <2>2, RewrittenFiles DEF StaticTypeOK
  <2>4. UNCHANGED <<request, pc, file, reply>> /\ pc # "done"
    BY <2>1 DEF ChangeTo
  <2> QED
    BY <2>1, <2>2, <2>3, <2>4, ChangeIsSeen DEF StreamInv, WholeVersion, Unwritten
<1> QED
  BY <1>1, <1>4, <1>5, <1>6, <1>7, <1>8, <1>9, <1>10, <1>11, <1>12, <1>13, <1>14, <1>15, <1>16
     DEF StaticNext, ServerStep

\* While files are only replaced, and by no pipe, whatever is sent of one is a whole version of it.
THEOREM VersionsAreWhole == StaticSpec => []WholeVersion
<1>1. SInv => WholeVersion
  BY DEF SInv
<1> QED
  BY <1>1, SInvInit, SInvStep, PTL DEF StaticSpec

-----------------------------------------------------------------------------
(***************************************************************************)
(* LengthIsTrue is inductive as it stands: every way to "done" goes by     *)
(* Answer, and nothing leads out of it.                                    *)
(***************************************************************************)
LEMMA DoneByAnswer ==
  ASSUME [StaticNext]_svars
  PROVE  \/ pc' # "done"
         \/ UNCHANGED <<pc, reply, request>>
         \/ UNCHANGED request /\ \E status, content : Answer(status, content)
<1> USE DEF At, Goto, Finish
<1>1. CASE UNCHANGED svars
  BY <1>1 DEF svars
<1>2. CASE ServerStep
  BY <1>2 DEF ServerStep, IsDirectory, IndexExists, NoIndex, ListDirectory, QuestionThrows, Exists,
     IsRegular, Open, OpenFails, OpenPipe, Read, EndOfFile, Measured
<1>3. CASE Replace \/ \E name \in {"path", "index"} : Rewrite(name)
  BY <1>3 DEF Replace, Rewrite, ChangeTo
<1>4. CASE ReadPipe \/ EndOfPipe
  BY <1>4 DEF ReadPipe, EndOfPipe, Measured
<1> QED
  BY <1>1, <1>2, <1>3, <1>4 DEF StaticNext

\* Content-Length is the length of the body on every path through the code,
\* whatever happens to the files.
THEOREM LengthsAreTrue == StaticSpec => []LengthIsTrue
<1>1. StaticInit => LengthIsTrue
  BY DEF StaticInit, LengthIsTrue
<1>2. LengthIsTrue /\ [StaticNext]_svars => LengthIsTrue'
  BY DoneByAnswer, AnswerIs DEF LengthIsTrue
<1> QED
  BY <1>1, <1>2, PTL DEF StaticSpec

-----------------------------------------------------------------------------
(***************************************************************************)
(* QuietReply: what the answers so far have told of files that do not      *)
(* change, question by question.                                           *)
(***************************************************************************)
Quiet == Len(seen) = 1 /\ "fault" \notin events

IsDir == fs.path.kind = "directory"
Chosen == IF IsDir THEN "index" ELSE "path"

QuietInv ==
  Quiet =>
    /\ pc = "is_directory" => file = "path"
    /\ pc = "index_exists" => IsDir
    /\ pc = "list" => IsDir /\ fs.index.kind = "absent" /\ request.slash
    /\ pc \in {"exists", "is_regular", "open", "read"} =>
         file = Chosen /\ (IsDir => fs.index.kind # "absent")
    /\ pc \in {"is_regular", "open", "read"} => fs[file].kind # "absent"
    /\ pc = "open" => fs[file].kind \in {"file", "locked"}
    /\ pc # "pipe"
    /\ pc = "read" => /\ fs[file].kind = "file"
                      /\ stream.blocks = fs[file].blocks
                      /\ reply.content = SubSeq(stream.blocks, 1, stream.next - 1)
                      /\ stream.next <= Len(stream.blocks) + 1

QInv == SInv /\ QuietInv /\ QuietReply

LEMMA AbsentIsAbsent == \A node \in Node : node = Absent <=> node.kind = "absent"
  BY DEF Node, Absent

LEMMA AnswerIsReply ==
  ASSUME NEW status, NEW content, Answer(status, content)
  PROVE  reply' = Headless(Reply(status, content), request)
  BY DEF Answer

LEMMA QInvStep == QInv /\ [StaticNext]_svars => QInv'
<1> SUFFICES ASSUME QInv, [StaticNext]_svars PROVE QuietInv' /\ QuietReply'
  BY SInvStep DEF QInv
<1> USE DEF QInv, SInv
<1>0. /\ fs \in FileSystem /\ fs.path \in Node /\ fs.index \in Node /\ file \in {"path", "index"}
      /\ fs[file] \in Node /\ (fs.index = Absent <=> fs.index.kind = "absent")
      /\ seen \in Seq(FileSystem) /\ Len(seen) \in Nat
  BY FileNodes, AbsentIsAbsent DEF StaticTypeOK, FileSystem
<1>1. CASE UNCHANGED svars
  BY <1>1 DEF svars, QuietInv, QuietReply, Quiet, IsDir, Chosen
<1>2. CASE IsDirectory
  BY <1>0, <1>2 DEF IsDirectory, At, Goto, QuietInv, QuietReply, Quiet, IsDir, Chosen, StaticTypeOK, StreamInv
<1>3. CASE IndexExists
  BY <1>3 DEF IndexExists, At, Goto, QuietInv, QuietReply, Quiet, IsDir, Chosen
<1>4. CASE NoIndex
  <2>1. CASE request.slash
    BY <1>4, <2>1 DEF NoIndex, At, Goto, QuietInv, QuietReply, Quiet, IsDir, Chosen
  <2>2. CASE ~request.slash
    BY <1>0, <1>4, <2>2, AnswerIsReply
       DEF NoIndex, At, Goto, Finish, QuietInv, QuietReply, Quiet, IsDir, Chosen, Expected
  <2> QED
    BY <2>1, <2>2
<1>5. CASE ListDirectory
  BY <1>0, <1>5, AnswerIsReply
     DEF ListDirectory, At, Goto, Finish, QuietInv, QuietReply, Quiet, IsDir, Chosen, Expected
<1>6. CASE QuestionThrows
  BY <1>6 DEF QuestionThrows, At, Goto, QuietInv, QuietReply, Quiet
<1>7. CASE Exists
  BY <1>0, <1>7, AnswerIsReply
     DEF Exists, At, Goto, Finish, QuietInv, QuietReply, Quiet, IsDir, Chosen, Expected
<1>8. CASE IsRegular
  <2>1. fs[file].kind \in {"file", "absent", "directory", "locked", "socket", "pipe"}
    BY <1>0 DEF Node
  <2> QED
    BY <1>0, <1>8, <2>1, AnswerIsReply
       DEF IsRegular, At, Goto, Finish, QuietInv, QuietReply, Quiet, IsDir, Chosen, Expected
<1>9. CASE Open
  <2>1. /\ pc = "open" /\ pc' = "read" /\ UNCHANGED <<fs, request, seen, file, reply, events>>
        /\ fs[file].kind \in {"file", "directory"}
        /\ stream' = [blocks |-> fs[file].blocks, next |-> 1, linked |-> TRUE]
    BY <1>9 DEF Open, At, Goto
  <2>2. fs[file].blocks \in Seq(Block)
    BY <1>0, NodeBlocks
  <2>3. SubSeq(fs[file].blocks, 1, 0) = <<>>
    BY <2>2
  <2>4. reply.content = <<>>
    BY <2>1 DEF StreamInv, Reply
  <2>5. stream'.blocks = fs[file].blocks /\ stream'.next = 1 /\ stream'.next - 1 = 0
    BY <2>1
  <2> QED
    BY <2>1, <2>2, <2>3, <2>4, <2>5 DEF QuietInv, QuietReply, Quiet, IsDir, Chosen
<1>15. CASE OpenFails
  BY <1>0, <1>15, AnswerIsReply
     DEF OpenFails, At, Goto, Finish, QuietInv, QuietReply, Quiet, IsDir, Chosen, Expected
<1>16. CASE OpenPipe \/ ReadPipe \/ EndOfPipe
  <2>1. ~Quiet /\ ~Quiet'
    BY <1>16 DEF OpenPipe, ReadPipe, EndOfPipe, At, QuietInv, Quiet
  <2> QED
    BY <2>1 DEF QuietInv, QuietReply, Quiet
<1>10. CASE Read
  <2>1. /\ pc = "read" /\ pc' = "read" /\ UNCHANGED <<fs, request, seen, file, events>>
        /\ stream.next \in DOMAIN stream.blocks
        /\ stream' = [stream EXCEPT !.next = @ + 1]
        /\ reply' = [reply EXCEPT !.content = Append(@, stream.blocks[stream.next])]
    BY <1>10 DEF Read, ReadBlock, At, Goto
  <2> QED
    BY <2>1, OneMore DEF QuietInv, QuietReply, Quiet, IsDir, Chosen, StaticTypeOK, StreamInv
<1>11. CASE EndOfFile
  <2>1. /\ pc = "read" /\ pc' = "done" /\ UNCHANGED <<fs, request, seen, file, stream>>
        /\ Answer("ok", reply.content)
        /\ "fault" \notin events' => "fault" \notin events /\ stream.next \notin DOMAIN stream.blocks
    BY <1>11 DEF EndOfFile, Measured, At, Goto
  <2>2. ASSUME Quiet' PROVE reply' = Expected(fs, request)
    <3>1. /\ Quiet /\ stream.next \notin DOMAIN stream.blocks
          /\ reply.content = SubSeq(stream.blocks, 1, stream.next - 1)
          /\ stream.next <= Len(stream.blocks) + 1
      BY <2>1, <2>2 DEF Quiet, QuietInv
    <3>2. reply.content = fs[file].blocks
      BY <2>1, <3>1, Whole DEF StaticTypeOK, QuietInv
    <3>3. file = Chosen /\ (IsDir => fs.index.kind # "absent") /\ fs[file].kind = "file"
      BY <2>1, <3>1 DEF QuietInv
    <3> QED
      BY <1>0, <2>1, <3>2, <3>3, AnswerIsReply DEF Expected, Chosen, IsDir
  <2> QED
    BY <2>1, <2>2 DEF QuietInv, QuietReply, Quiet
<1>12. ASSUME NEW f \in FileSystem, ChangeTo(f) PROVE QuietInv' /\ QuietReply'
  BY <1>12, ChangeIsSeen DEF QuietInv, QuietReply, Quiet, StaticTypeOK
<1>13. CASE Replace
  BY <1>12, <1>13 DEF Replace
<1>14. ASSUME NEW name \in {"path", "index"}, Rewrite(name) PROVE QuietInv' /\ QuietReply'
  <2>1. PICK blocks \in Blocks : ChangeTo([fs EXCEPT ![name].blocks = blocks])
    BY <1>14 DEF Rewrite
  <2>2. [fs EXCEPT ![name].blocks = blocks] \in FileSystem
    BY <1>0, <1>14, RewrittenFiles DEF Rewrite
  <2> QED
    BY <1>12, <2>1, <2>2
<1> QED
  BY <1>1, <1>2, <1>3, <1>4, <1>5, <1>6, <1>7, <1>8, <1>9, <1>10, <1>11, <1>13, <1>14, <1>15, <1>16
     DEF StaticNext, ServerStep

\* Files that do not change are served as they are: the reply is the one the files
\* and the request call for, with the same headers for HEAD.
THEOREM QuietRepliesAreExpected == StaticSpec => []QuietReply
<1>1. StaticInit => QInv
  BY SInvInit DEF StaticInit, QInv, QuietInv, QuietReply
<1>2. QInv => QuietReply
  BY DEF QInv
<1> QED
  BY <1>1, <1>2, QInvStep, PTL DEF StaticSpec

=============================================================================
