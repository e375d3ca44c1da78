--------------------------- MODULE ConnectionProofs ----------------------------
(***************************************************************************)
(* A connection, for any bytes a client sends, any resources and any       *)
(* handlers, is one of HttpServer: the parser and the router decide which  *)
(* of the outcomes of the read handler it takes, and nothing else.  And    *)
(* what a client means by its request is what the parser hands over and    *)
(* what the reply is to, however the bytes are cut by the reads.           *)
(***************************************************************************)
EXTENDS Client, SequenceLemmas

\* reply_ is there from the moment the read handler decides on it.
ReplyInv ==
  /\ phase \in {"reading", "parsing", "read_failed", "abandoned"} => reply = NoReply
  /\ phase \in {"writing", "written", "write_failed", "finished"} => reply # NoReply

LEMMA DescribedIsThere ==
  ASSUME NEW content, NEW type
  PROVE  Described(content, type) # <<>>
  BY DEF Described

\* No reply is taken for none: each has headers.
LEMMA RepliesHaveHeaders ==
  ASSUME NEW rep, rep.headers # <<>>
  PROVE  rep # NoReply
  BY DEF NoReply

LEMMA StockHasHeaders ==
  ASSUME NEW status
  PROVE  StockReply(status).headers # <<>>
  BY DescribedIsThere DEF StockReply

LEMMA FilesHaveHeaders ==
  ASSUME NEW method, NEW place, NEW name
  PROVE  StaticAnswer(method, place, name).headers # <<>>
<1>1. /\ StockReply("not_found").headers # <<>>
      /\ \A status : [StockReply(status) EXCEPT !.content = <<>>].headers # <<>>
  BY DescribedIsThere DEF StockReply
<1>2. \A n : /\ FileReply(n).headers # <<>>
            /\ [FileReply(n) EXCEPT !.content = <<>>].headers # <<>>
  BY DescribedIsThere DEF FileReply
<1>3. ListingReply.headers # <<>> /\ [ListingReply EXCEPT !.content = <<>>].headers # <<>>
  BY DescribedIsThere DEF ListingReply
<1>4. \A uri : /\ RedirectReply(uri).headers # <<>>
              /\ [RedirectReply(uri) EXCEPT !.content = <<>>].headers # <<>>
  <2> SUFFICES ASSUME NEW uri
               PROVE  /\ RedirectReply(uri).headers # <<>>
                      /\ [RedirectReply(uri) EXCEPT !.content = <<>>].headers # <<>>
    OBVIOUS
  <2>. DEFINE stock == StockReply("moved_permanently").headers
              moved == Append(stock, Header("Location", uri \o <<"/">>))
  <2>1. stock = Described(StockBody("moved_permanently"), "text/html")
    BY DEF StockReply
  <2>2. moved # <<>>
    BY <2>1 DEF Described, Header
  <2>3. RedirectReply(uri).headers = moved /\ [RedirectReply(uri) EXCEPT !.content = <<>>].headers = moved
    BY DEF RedirectReply, StockReply
  <2>. QED
    BY <2>2, <2>3
<1>5. StaticReply(place, name).headers # <<>> /\ [StaticReply(place, name) EXCEPT !.content = <<>>].headers # <<>>
  BY <1>1, <1>2, <1>3, <1>4 DEF StaticReply
<1>6. CASE method = <<"HEAD">>
  BY <1>5, <1>6 DEF StaticAnswer
<1>7. CASE method # <<"HEAD">>
  <2>1. [StaticReply(place, name) EXCEPT !.content = StaticReply(place, name).content].headers = StaticReply(place, name).headers
    BY DEF StaticReply, StockReply, FileReply, ListingReply, RedirectReply
  <2>. QED
    BY <1>5, <1>7, <2>1 DEF StaticAnswer
<1>. QED
  BY <1>6, <1>7

\* What the read handler does when it has a reply.
Answers ==
  /\ phase = "parsing" /\ phase' = "writing"
  /\ result \in {"good", "bad"}
  /\ reply' # NoReply
  /\ UNCHANGED <<unread, parser, wire>>

LEMMA RepliesAreAnswers ==
  ASSUME AnswerBad \/ RefuseUri \/ NotFound \/ ServeFile \/ CallHandler
  PROVE  Answers
<1>1. ASSUME NEW rep, rep.headers # <<>>, result \in {"good", "bad"}, Write(rep) PROVE Answers
  BY <1>1, RepliesHaveHeaders DEF Answers, Write
<1>2. CASE AnswerBad
  BY <1>1, <1>2, StockHasHeaders DEF AnswerBad
<1>3. CASE RefuseUri
  BY <1>1, <1>3, StockHasHeaders DEF RefuseUri
<1>4. CASE NotFound
  BY <1>1, <1>4, StockHasHeaders DEF NotFound
<1>5. CASE ServeFile
  <2>1. result = "good"
    BY <1>5 DEF ServeFile
  <2>. DEFINE sent(s) == StaticAnswer(request.method, request.uri, s[2].file)
  <2>2. PICK s \in Served(request.method, request.uri) : Write(sent(s))
    BY <1>5 DEF ServeFile
  <2>3. sent(s).headers # <<>>
    BY FilesHaveHeaders
  <2>. HIDE DEF sent
  <2>. QED
    BY <1>1, <2>1, <2>2, <2>3
<1>6. CASE CallHandler
  <2>1. \A handler, given : Replied(handler, given).headers # <<>>
    BY DescribedIsThere DEF Replied
  <2>. QED
    BY <1>1, <1>6, <2>1 DEF CallHandler
<1>. QED
  BY <1>2, <1>3, <1>4, <1>5, <1>6

-----------------------------------------------------------------------------
LEMMA ConnectionInitInv ==
  ASSUME NEW sent, ConnectionInit(sent)
  PROVE  ReplyInv
  BY DEF ConnectionInit, ReplyInv

LEMMA ConnectionStepInv == ReplyInv /\ [ConnectionNext]_cvars => ReplyInv'
<1> SUFFICES ASSUME ReplyInv, [ConnectionNext]_cvars PROVE ReplyInv'
  OBVIOUS
<1>1. CASE UNCHANGED cvars
  BY <1>1 DEF cvars, ReplyInv, NoReply
<1>2. CASE ReadCompletes \/ ReadBreaks \/ WriteCompletes \/ WriteBreaks
  BY <1>2 DEF ReadCompletes, ReadBreaks, WriteCompletes, WriteBreaks, ReplyInv, NoReply
<1>3. CASE ParseByte \/ ReadOn \/ HandlerThrows
  BY <1>3 DEF ParseByte, ReadOn, HandlerThrows, ReplyInv, NoReply
<1>4. CASE AnswerBad \/ RefuseUri \/ NotFound \/ ServeFile \/ CallHandler
  <2>1. Answers
    BY <1>4, RepliesAreAnswers
  <2>. QED
    BY <2>1 DEF Answers, ReplyInv, NoReply
<1>5. CASE WriteDone \/ WriteFails \/ ReadFails
  BY <1>5 DEF WriteDone, WriteFails, ReadFails, Stop, ReplyInv, NoReply
<1>. QED
  BY <1>1, <1>2, <1>3, <1>4, <1>5 DEF ConnectionNext, Progress, Breaks, ReadHandler

-----------------------------------------------------------------------------
(***************************************************************************)
(* The refinement, by the operation that is under way.                     *)
(***************************************************************************)
\* What the reactor does.
LEMMA CompletionsImplement ==
  ASSUME ReplyInv, ReadCompletes \/ ReadBreaks \/ WriteCompletes \/ WriteBreaks
  PROVE  H!Next
<1>. DEFINE read  == [conn |-> Me, op |-> "read", ec |-> "pending"]
            write == [conn |-> Me, op |-> "write", ec |-> "pending"]
<1>1. UNCHANGED <<result, reply>>
  BY DEF ReadCompletes, ReadBreaks, WriteCompletes, WriteBreaks, parser
<1>2. CASE ReadCompletes \/ ReadBreaks
  <2>1. phase = "reading" /\ phase' \in {"parsing", "read_failed"}
    BY <1>2 DEF ReadCompletes, ReadBreaks
  <2>2. H!Complete(read)
    BY <1>1, <2>1 DEF H!Complete, H!acceptor, H!history, Operation
  <2>. QED
    BY <2>1, <2>2 DEF H!Next, H!Kernel, Operation
<1>3. CASE WriteCompletes \/ WriteBreaks
  <2>1. phase = "writing" /\ phase' \in {"written", "write_failed"}
    BY <1>3 DEF WriteCompletes, WriteBreaks
  <2>2. H!Complete(write)
    BY <1>1, <2>1 DEF H!Complete, H!acceptor, H!history, Operation
  <2>. QED
    BY <2>1, <2>2 DEF H!Next, H!Kernel, Operation
<1>. QED
  BY <1>2, <1>3

\* The read handler, on a buffer that has arrived.
LEMMA ReadHandlerImplements ==
  ASSUME ReplyInv, ReadHandler
  PROVE  [H!Next]_(H!vars)
<1>. DEFINE o == [conn |-> Me, op |-> "read", ec |-> "success"]
<1>1. CASE ParseByte
  <2>1. phase = "parsing" /\ UNCHANGED <<phase, reply>> /\ reply = NoReply
    BY <1>1 DEF ParseByte, ReplyInv
  <2>. QED
    BY <2>1 DEF H!vars, Operation, NoReply
<1>2. CASE ReadOn
  <2>1. phase = "parsing" /\ phase' = "reading" /\ UNCHANGED <<result, reply>>
    BY <1>2 DEF ReadOn, parser
  <2>2. H!ReadMore(o)
    BY <2>1 DEF H!ReadMore, H!Continue, H!FirstCodes, H!acceptor, H!history, Operation
  <2>. QED
    BY <2>1, <2>2 DEF H!Next, H!Handler, H!ConnectionHandler, Operation
<1>3. CASE Answers
  <2>1. /\ phase = "parsing" /\ phase' = "writing" /\ result' = result
        /\ result \in {"good", "bad"} /\ reply = NoReply /\ reply' # NoReply
    BY <1>3 DEF Answers, ReplyInv, parser
  <2>2. CASE result = "bad"
    <3>1. H!ReadBad(o)
      BY <2>1, <2>2 DEF H!ReadBad, H!Continue, H!FirstCodes, H!acceptor, H!history, Operation, NoReply
    <3>. QED
      BY <2>1, <3>1 DEF H!Next, H!Handler, H!ConnectionHandler, Operation
  <2>3. CASE result = "good"
    <3>1. H!ReadGood(o)
      BY <2>1, <2>3 DEF H!ReadGood, H!Continue, H!FirstCodes, H!acceptor, H!history, Operation, NoReply
    <3>. QED
      BY <2>1, <3>1 DEF H!Next, H!Handler, H!ConnectionHandler, Operation
  <2>. QED
    BY <2>1, <2>2, <2>3
<1>4. CASE HandlerThrows
  <2>1. phase = "parsing" /\ phase' = "abandoned" /\ UNCHANGED <<result, reply>>
    BY <1>4 DEF HandlerThrows, parser
  <2>2. H!ReadGoodThrows(o)
    BY <2>1 DEF H!ReadGoodThrows, H!acceptor, H!history, Operation
  <2>. QED
    BY <2>1, <2>2 DEF H!Next, H!ThrowingHandler, Operation
<1>. QED
  BY <1>1, <1>2, <1>3, <1>4, RepliesAreAnswers DEF ReadHandler

\* The handlers that let the connection go.
LEMMA StopsImplement ==
  ASSUME ReplyInv, WriteDone \/ WriteFails \/ ReadFails
  PROVE  H!Next
<1>1. UNCHANGED <<result, reply>>
  BY DEF WriteDone, WriteFails, ReadFails, Stop, parser
<1>2. CASE WriteDone
  <2>. DEFINE o == [conn |-> Me, op |-> "write", ec |-> "success"]
  <2>1. phase = "written" /\ phase' = "finished"
    BY <1>2 DEF WriteDone, Stop
  <2>2. H!WriteDone(o)
    BY <1>1, <2>1 DEF H!WriteDone, H!Stop, H!ShutDown, H!Closed, H!Cancelled, H!acceptor, H!history, Operation
  <2>. QED
    BY <2>1, <2>2 DEF H!Next, H!Handler, H!ConnectionHandler, Operation
<1>3. CASE WriteFails
  <2>. DEFINE o == [conn |-> Me, op |-> "write", ec |-> "error"]
  <2>1. phase = "write_failed" /\ phase' = "dropped"
    BY <1>3 DEF WriteFails, Stop
  <2>2. H!WriteFails(o)
    BY <1>1, <2>1 DEF H!WriteFails, H!Stop, H!Closed, H!Cancelled, H!acceptor, H!history, Operation
  <2>. QED
    BY <2>1, <2>2 DEF H!Next, H!Handler, H!ConnectionHandler, Operation
<1>4. CASE ReadFails
  <2>. DEFINE o == [conn |-> Me, op |-> "read", ec |-> "error"]
  <2>1. phase = "read_failed" /\ phase' = "dropped"
    BY <1>4 DEF ReadFails, Stop
  <2>2. H!ReadFails(o)
    BY <1>1, <2>1 DEF H!ReadFails, H!Stop, H!Closed, H!Cancelled, H!acceptor, H!history, Operation
  <2>. QED
    BY <2>1, <2>2 DEF H!Next, H!Handler, H!ConnectionHandler, Operation
<1>. QED
  BY <1>2, <1>3, <1>4

LEMMA ConnectionStepImplements == ReplyInv /\ [ConnectionNext]_cvars => [H!Next]_(H!vars)
<1>1. ReplyInv /\ UNCHANGED cvars => UNCHANGED H!vars
  BY DEF cvars, parser, H!vars
<1>. QED
  BY <1>1, CompletionsImplement, ReadHandlerImplements, StopsImplement DEF ConnectionNext, Progress, Breaks

\* Whatever a client sends and whatever the resources are, each step of its connection
\* is a step HttpServer has for a connection, or is inside its read handler.
THEOREM ConnectionImplementsHandlers == ConnectionSpec => ImplementsHandlers
<1>1. (\E sent \in Seq(Char) : ConnectionInit(sent)) => ReplyInv
  BY ConnectionInitInv
<1>. QED
  BY <1>1, ConnectionStepInv, ConnectionStepImplements, PTL DEF ConnectionSpec, ImplementsHandlers

-----------------------------------------------------------------------------
(***************************************************************************)
(* A request on its way through a connection, whatever pieces it is read   *)
(* in: what the parser has consumed, what it has still to look at and what *)
(* has not been read are the bytes the client sends.                       *)
(***************************************************************************)
PP == INSTANCE RequestParserProofs

\* A request as far as the byte that decides it, that byte, what the parser makes of
\* it and where, and what follows.
Opening(r) ==
  CASE r.shape = "full"    -> PP!Upto(r.layout)
    [] r.shape = "simple"  -> PP!UriLine(r.layout)
    [] r.shape = "garbled" -> PP!UriLine(r.layout) \o <<"SP", "H", "T">>

Decider(r) == CASE r.shape = "full" -> "LF" [] r.shape = "simple" -> "CR" [] r.shape = "garbled" -> "P"

Verdict(r) == IF r.shape = "full" THEN "good" ELSE "bad"

Goal(r) ==
  IF r.shape = "full" THEN PP!End(r.layout)
  ELSE CHOOSE E : PP!Settles(Opening(r), E, Decider(r), "bad")

Remainder(r) ==
  CASE r.shape = "full" -> <<>> [] r.shape = "simple" -> <<"LF">> [] r.shape = "garbled" -> <<"CR", "LF", "CR", "LF">>

Decided(r) == Append(Opening(r), Decider(r))
Sent(r) == Render(r) \o r.more

\* The parser of the proofs is the one of the connection.
LEMMA SameBytes ==
  /\ P!Digit = PP!Digit /\ P!Token = PP!Token /\ P!Lws = PP!Lws /\ P!UriByte = PP!UriByte
  /\ P!ValueByte = PP!ValueByte /\ P!Text = PP!Text /\ \A f : P!Range(f) = PP!Range(f)
BY DEF P!Range, PP!Range, P!Digit, PP!Digit, P!Token, PP!Token, P!Lws, PP!Lws, P!UriByte, PP!UriByte, P!ValueByte, PP!ValueByte,
       P!Ctl, PP!Ctl, P!Tspecial, PP!Tspecial, P!NonAscii, PP!NonAscii, P!Text, PP!Text

\* What is well-formed there is well-formed here.
LEMMA SameLayouts ==
  ASSUME NEW r, P!WellFormed(r)
  PROVE  r \in PP!Layout /\ PP!WellFormed(r)
<1>1. P!Layout = PP!Layout
  BY SameBytes DEF P!Layout, PP!Layout, P!LaidHeader, PP!LaidHeader, P!Folded, PP!Folded
<1>2. \A fold : P!WellFolded(fold) <=> PP!WellFolded(fold)
  BY SameBytes DEF P!WellFolded, PP!WellFolded
<1>3. \A h : P!WellLaid(h) <=> PP!WellLaid(h)
  BY SameBytes, <1>2 DEF P!WellLaid, PP!WellLaid
<1>. QED
  BY SameBytes, <1>1, <1>3 DEF P!WellFormed, PP!WellFormed, P!IsNumeral, PP!IsNumeral

\* It is the same text.
LEMMA SameTexts ==
  /\ \A s : P!FlattenSeq(s) = PP!FlattenSeq(s)
  /\ \A r : P!Laid(r) = PP!Laid(r)
  /\ \A h : P!Value(h) = PP!Value(h)
<1>1. \A s : P!FlattenSeq(s) = PP!FlattenSeq(s)
  BY DEF P!FlattenSeq, PP!FlattenSeq
<1>2. \A h : P!FieldLines(h) = PP!FieldLines(h)
  <2>1. \A fold : P!Continuation(fold) = PP!Continuation(fold)
    BY DEF P!Continuation, PP!Continuation
  <2>. QED
    BY <1>1, <2>1 DEF P!FieldLines, PP!FieldLines
<1>3. \A r : P!Laid(r) = PP!Laid(r)
  <2>1. \A r : P!RequestLine(r, r.major, r.minor) = PP!RequestLine(r, r.major, r.minor)
    BY DEF P!RequestLine, PP!RequestLine
  <2>. QED
    BY <1>1, <1>2, <2>1 DEF P!Laid, PP!Laid
<1>4. \A h : P!Value(h) = PP!Value(h)
  BY <1>1 DEF P!Value, PP!Value
<1>. QED
  BY <1>1, <1>3, <1>4

\* It means the same.
LEMMA SameMeaning ==
  ASSUME NEW r, NEW q, PP!Means(r, q)
  PROVE  P!Means(r, q)
<1>1. \A d : P!Number(d) = PP!Number(d)
  <2>1. \A ch : P!Figure(ch) = PP!Figure(ch)
    BY DEF P!Figure, PP!Figure, P!Numerals, PP!Numerals
  <2>. QED
    BY <2>1 DEF P!Number, PP!Number
<1>2. \A n, d : P!Counts(n, d) <=> PP!Counts(n, d)
  BY <1>1 DEF P!Counts, PP!Counts
<1>. QED
  BY <1>2, SameTexts DEF P!Means, PP!Means

\* A byte is taken in the same way.
LEMMA SameParser ==
  ASSUME NEW ch, P!Consume(ch)
  PROVE  PP!Consume(ch)
<1>1. P!Branches = PP!Branches /\ P!FoldBranch = PP!FoldBranch
  BY SameBytes DEF P!Branches, PP!Branches, P!FoldBranch, PP!FoldBranch
<1>2. P!Taking(ch) = PP!Taking(ch)
  BY <1>1 DEF P!Taking, PP!Taking
<1>3. P!Completes(ch) <=> PP!Completes(ch)
  BY DEF P!Completes, PP!Completes
<1>4. \A f : P!Counted(f, ch) = PP!Counted(f, ch)
  <2>1. P!Figure(ch) = PP!Figure(ch)
    BY DEF P!Figure, PP!Figure, P!Numerals, PP!Numerals
  <2>2. \A n : P!Shifted(n, ch) = PP!Shifted(n, ch)
    BY <2>1 DEF P!Shifted, PP!Shifted, P!IsInt, PP!IsInt
  <2>. QED
    BY <2>2 DEF P!Counted, PP!Counted
<1>5. \A f, n : P!Collected(f, ch, n) = PP!Collected(f, ch, n)
  BY DEF P!Collected, PP!Collected
<1>6. P!Advance(ch) => PP!Advance(ch)
  BY <1>2, <1>4, <1>5 DEF P!Advance, PP!Advance
<1>7. (P!Finish(ch) => PP!Finish(ch)) /\ (P!Reject(ch) => PP!Reject(ch))
  BY <1>2, <1>3 DEF P!Finish, PP!Finish, P!Reject, PP!Reject
<1>. QED
  BY <1>6, <1>7 DEF P!Consume, PP!Consume

\* What the client means is what its bytes say to the parser, up to that byte.
LEMMA RequestSettles ==
  ASSUME NEW r \in Requests
  PROVE  PP!Settles(Opening(r), Goal(r), Decider(r), Verdict(r))
<1>1. IntMax \in Nat /\ AfterOverflow \subseteq Int
  BY ClientAssumption
<1>2. r.shape \in {"full", "simple", "garbled"} /\ P!WellFormed(r.layout)
  BY ClientAssumption
<1>3. r.layout \in PP!Layout /\ PP!WellFormed(r.layout)
  BY <1>2, SameLayouts
<1>4. CASE r.shape = "full"
  <2>1. PP!Settles(PP!Upto(r.layout), PP!End(r.layout), "LF", "good")
    BY <1>1, <1>3, PP!WellFormedSettles
  <2>. QED
    BY <1>4, <2>1 DEF Opening, Goal, Decider, Verdict
<1>5. CASE r.shape = "simple"
  <2>1. \E E : PP!Settles(PP!UriLine(r.layout), E, "CR", "bad")
    BY <1>1, <1>3, PP!SimpleIsRefused
  <2>. QED
    BY <1>5, <2>1 DEF Opening, Goal, Decider, Verdict
<1>6. CASE r.shape = "garbled"
  <2>1. \E E : PP!Settles(PP!UriLine(r.layout) \o <<"SP", "H", "T">>, E, "P", "bad")
    BY <1>1, <1>3, PP!GarbledIsRefused
  <2>. QED
    BY <1>6, <2>1 DEF Opening, Goal, Decider, Verdict
<1>. QED
  BY <1>2, <1>4, <1>5, <1>6

\* Four bytes, one after the other.
LEMMA FourIs == Append(<<"SP", "H", "T">>, "P") = <<"SP", "H", "T", "P">>
<1>. DEFINE B == {"SP", "H", "T", "P"}
            x == Append(<<"SP", "H", "T">>, "P")
            y == <<"SP", "H", "T", "P">>
<1>1. /\ x \in Seq(B) /\ Len(x) = 4 /\ x[1] = "SP" /\ x[2] = "H" /\ x[3] = "T" /\ x[4] = "P"
      /\ y \in Seq(B) /\ Len(y) = 4 /\ y[1] = "SP" /\ y[2] = "H" /\ y[3] = "T" /\ y[4] = "P"
  OBVIOUS
<1>. HIDE DEF x, y
<1>2. \A k \in 1..4 : k = 1 \/ k = 2 \/ k = 3 \/ k = 4
  OBVIOUS
<1>3. \A k \in 1..4 : x[k] = y[k]
  BY <1>1, <1>2
<1>4. x = y
  BY <1>1, <1>3, SeqEqual
<1>. QED
  BY <1>4 DEF x, y

\* Sequences one after the other.
Joins(B) ==
  /\ \A a, b \in Seq(B) : a \o b \in Seq(B) /\ Len(a \o b) = Len(a) + Len(b)
  /\ \A a, b, c \in Seq(B) : (a \o b) \o c = a \o (b \o c)
  /\ \A a \in Seq(B) : a \o <<>> = a

LEMMA BytesJoin ==
  ASSUME NEW B
  PROVE  Joins(B)
BY DEF Joins

\* Its bytes go on after that byte.
LEMMA RequestIsSent ==
  ASSUME NEW r \in Requests
  PROVE  /\ Sent(r) \in Seq(Char) /\ Decided(r) \in Seq(PP!Byte)
         /\ \E rest \in Seq(PP!Byte) : Sent(r) = Decided(r) \o rest
<1>. DEFINE B == PP!Byte
            o == Opening(r)
            d == Decider(r)
<1>1. /\ r.shape \in {"full", "simple", "garbled"} /\ P!WellFormed(r.layout)
      /\ Render(r) \in Seq(Char) /\ r.more \in Seq(Char) /\ IntMax \in Nat /\ AfterOverflow \subseteq Int
  BY ClientAssumption
<1>2. r.layout \in PP!Layout /\ PP!WellFormed(r.layout)
  BY <1>1, SameLayouts
<1>3. PP!Settles(o, Goal(r), d, Verdict(r))
  BY RequestSettles
<1>4. o \in Seq(B) /\ d \in B
  BY <1>3 DEF PP!Settles
<1>5. Char \subseteq B /\ "CR" \in B /\ "LF" \in B /\ "P" \in B
  BY DEF PP!Byte
<1>6. Seq(Char) \subseteq Seq(B)
  BY <1>5, SeqMonotone
<1>7. Sent(r) \in Seq(Char) /\ r.more \in Seq(B)
  BY <1>1, <1>6 DEF Sent
<1>8. <<"LF">> \in Seq(B) /\ <<"CR", "LF", "CR", "LF">> \in Seq(B)
  BY <1>5
<1>9. Remainder(r) \in Seq(B)
  BY <1>1, <1>8 DEF Remainder
<1>10. Append(o, d) = o \o <<d>> /\ Append(o, d) \in Seq(B) /\ <<d>> \in Seq(B)
  BY <1>4, PP!AppendSingle, <1>1
<1>11. Render(r) = Append(o, d) \o Remainder(r)
  <2>1. CASE r.shape = "full"
    <3>1. PP!Laid(r.layout) = Append(PP!Upto(r.layout), "LF")
      BY <1>1, <1>2, PP!LaidIs
    <3>2. Render(r) = P!Laid(r.layout) /\ Append(o, d) = Append(PP!Upto(r.layout), "LF") /\ Remainder(r) = <<>>
      BY <2>1 DEF Render, Opening, Decider, Remainder
    <3>3. Append(o, d) \o <<>> = Append(o, d)
      BY <1>10
    <3>. QED
      BY <3>1, <3>2, <3>3, SameTexts
  <2>2. CASE r.shape = "simple"
    <3>1. o = (r.layout.method \o <<"SP">>) \o r.layout.uri /\ d = "CR" /\ Remainder(r) = <<"LF">>
      BY <2>2 DEF Opening, Decider, Remainder, PP!UriLine
    <3>2. Render(r) = o \o <<"CR", "LF">>
      BY <2>2, <3>1 DEF Render
    <3>3. Append(<<"CR">>, "LF") = <<"CR", "LF">>
      BY <1>5, PairAppend
    <3>4. Append(o \o <<"CR">>, "LF") = o \o Append(<<"CR">>, "LF")
      BY <1>1, <1>4, <1>5, <1>10, <3>1, PP!AppendConcat
    <3>5. Append(Append(o, "CR"), "LF") = Append(o, "CR") \o <<"LF">>
      BY <1>1, <1>5, <1>10, <3>1, PP!AppendSingle
    <3>. QED
      BY <1>10, <3>1, <3>2, <3>3, <3>4, <3>5
  <2>3. CASE r.shape = "garbled"
    <3>. DEFINE u == PP!UriLine(r.layout)
    <3>1. o = u \o <<"SP", "H", "T">> /\ d = "P" /\ Remainder(r) = <<"CR", "LF", "CR", "LF">>
      BY <2>3 DEF Opening, Decider, Remainder
    <3>2. u = (r.layout.method \o <<"SP">>) \o r.layout.uri
      BY DEF PP!UriLine
    <3>3. Render(r) = (u \o <<"SP", "H", "T", "P">>) \o <<"CR", "LF", "CR", "LF">>
      BY <2>3, <3>2 DEF Render
    <3>4. u \in Seq(B) /\ <<"SP", "H", "T">> \in Seq(B)
      <4>1. u \in Seq(B)
        BY <1>1, <1>2, PP!LeadsUriLine
      <4>2. <<"SP", "H", "T">> \in Seq(B)
        BY DEF PP!Byte
      <4>. QED
        BY <4>1, <4>2
    <3>5. Append(u \o <<"SP", "H", "T">>, "P") = u \o Append(<<"SP", "H", "T">>, "P")
      BY <1>1, <1>5, <3>4, PP!AppendConcat
    <3>6. Append(<<"SP", "H", "T">>, "P") = <<"SP", "H", "T", "P">>
      BY FourIs
    <3>. QED
      BY <3>1, <3>3, <3>5, <3>6
  <2>. QED
    BY <1>1, <2>1, <2>2, <2>3
<1>. DEFINE t == Append(o, d)
            e == Remainder(r)
            m == r.more
<1>. HIDE DEF B, o, d, t, e, m
<1>12. t \in Seq(B) /\ e \in Seq(B) /\ m \in Seq(B) /\ Sent(r) = (t \o e) \o m
  BY <1>7, <1>9, <1>10, <1>11 DEF Sent, t, e, m
<1>13. e \o m \in Seq(B) /\ (t \o e) \o m = t \o (e \o m)
  BY <1>12, BytesJoin DEF Joins
<1>14. t = Decided(r)
  BY DEF Decided, t, o, d
<1>. QED
  BY <1>7, <1>12, <1>13, <1>14 DEF B

-----------------------------------------------------------------------------
\* Where the bytes of a request are, and that no byte after the deciding one is
\* consumed.
Stream(r) ==
  /\ unread \in Seq(Char) /\ buffer \in Seq(Char)
  /\ phase \in {"reading", "parsing"} => (consumed \o buffer) \o unread = Sent(r)
  /\ phase = "reading" => buffer = <<>> /\ result = "indeterminate"
  /\ IsPrefix(consumed, Decided(r))

\* The parser is on the way of the request, or has decided.
Parsed(r) ==
  /\ PP!ParserTypeOK /\ PP!HeaderIsThere
  /\ PP!Followed(Opening(r), Goal(r), Decider(r), Verdict(r))

\* What has been consumed is a text.
LEMMA ParserTypes ==
  ASSUME PP!ParserTypeOK
  PROVE  consumed \in Seq(Char) /\ consumed \in Seq(PP!Byte)
<1>1. consumed \in Seq(Char)
  BY DEF PP!ParserTypeOK, PP!Text
<1>2. Char \subseteq PP!Byte
  BY DEF PP!Byte
<1>. QED
  BY <1>1, <1>2, SeqMonotone

\* What has become of a request by now.
LEMMA VerdictNow ==
  ASSUME NEW r \in Requests, Parsed(r), IsPrefix(consumed, Decided(r))
  PROVE  IF consumed = Decided(r) THEN result = Verdict(r) /\ <<state, request>> \in Goal(r)
         ELSE result = "indeterminate"
<1>1. PP!Settles(Opening(r), Goal(r), Decider(r), Verdict(r))
  BY RequestSettles
<1>2. IntMax \in Nat /\ AfterOverflow \subseteq Int
  BY ClientAssumption
<1>3. PP!Settled(Opening(r), Goal(r), Decider(r), Verdict(r))
  BY <1>1, <1>2, PP!FollowedNow DEF Parsed
<1>4. PP!IsPrefix(consumed, Append(Opening(r), Decider(r)))
  BY DEF Decided, PP!IsPrefix, IsPrefix
<1>. QED
  BY <1>3, <1>4 DEF PP!Settled, Decided

\* The next byte of a text, as long as that is not all there.
LEMMA NextByte ==
  ASSUME NEW B, NEW s \in Seq(B), NEW ch \in B, NEW t \in Seq(B), NEW u \in Seq(B), NEW rest \in Seq(B),
         IsPrefix(s, u), s # u, Append(s, ch) \o t = u \o rest
  PROVE  IsPrefix(Append(s, ch), u)
<1>. DEFINE n == Len(s)
            x == Append(s, ch)
            m == n + 1
<1>1. n \in Nat /\ Len(u) \in Nat /\ x \in Seq(B) /\ Len(x) = m /\ m \in Nat
  OBVIOUS
<1>2. n < Len(u)
  <2>1. n <= Len(u) /\ SubSeq(s, 1, n) = SubSeq(u, 1, n)
    BY DEF IsPrefix
  <2>2. n = Len(u) => s = u
    BY <2>1, PrefixWhole
  <2>. QED
    BY <1>1, <2>1, <2>2
<1>. HIDE DEF x
<1>3. \A k \in 1..m : (x \o t)[k] = x[k]
  BY <1>1
<1>4. \A k \in 1..Len(u) : (u \o rest)[k] = u[k]
  OBVIOUS
<1>5. m <= Len(u)
  BY <1>1, <1>2
<1>6. \A k \in 1..m : x[k] = u[k]
  BY <1>1, <1>3, <1>4, <1>5 DEF x
<1>7. SubSeq(x, 1, m) = x
  BY <1>1, PrefixWhole
<1>8. SubSeq(u, 1, m) \in Seq(B) /\ Len(SubSeq(u, 1, m)) = m /\ \A k \in 1..m : SubSeq(u, 1, m)[k] = u[k]
  BY <1>1, <1>5
<1>9. x = SubSeq(u, 1, m)
  BY <1>1, <1>6, <1>8, SeqEqual
<1>10. IsPrefix(x, u)
  BY <1>1, <1>5, <1>7, <1>9 DEF IsPrefix
<1>. QED
  BY <1>10 DEF x

\* A byte goes from the buffer to the parser.
TakesOne(B, c, b, u) ==
  LET taken == Append(c, Head(b))
  IN  /\ Head(b) \in B /\ Tail(b) \in Seq(B) /\ taken \in Seq(B)
      /\ (c \o b) \o u = (taken \o Tail(b)) \o u
      /\ (c \o b) \o u = taken \o (Tail(b) \o u)

LEMMA Takes ==
  ASSUME NEW B, NEW c \in Seq(B), NEW b \in Seq(B), NEW u \in Seq(B), b # <<>>
  PROVE  TakesOne(B, c, b, u)
<1>1. Head(b) \in B /\ Tail(b) \in Seq(B) /\ b = <<Head(b)>> \o Tail(b) /\ <<Head(b)>> \in Seq(B)
  OBVIOUS
<1>2. Append(c, Head(b)) = c \o <<Head(b)>> /\ Append(c, Head(b)) \in Seq(B)
  BY <1>1
<1>. DEFINE h == <<Head(b)>>
            t == Tail(b)
            a == c \o h
<1>3. h \in Seq(B) /\ t \in Seq(B) /\ Joins(B)
  BY <1>1, BytesJoin
<1>. HIDE DEF h, t, a
<1>4. c \o (h \o t) = (c \o h) \o t /\ c \o h \in Seq(B)
  BY <1>3 DEF Joins
<1>5. (a \o t) \o u = a \o (t \o u)
  BY <1>3, <1>4 DEF Joins, a
<1>6. b = h \o t /\ Append(c, Head(b)) = a
  BY <1>1, <1>2 DEF h, t, a
<1>7. (c \o b) \o u = (a \o t) \o u
  BY <1>4, <1>6 DEF a
<1>. QED
  BY <1>1, <1>2, <1>5, <1>6, <1>7 DEF TakesOne, t

\* Nothing has been read when the client starts.
LEMMA JourneyStarts ==
  ASSUME NEW r \in Requests, ConnectionInit(Sent(r))
  PROVE  Stream(r) /\ Parsed(r)
<1>1. IntMax \in Nat /\ AfterOverflow \subseteq Int
  BY ClientAssumption
<1>2. PP!ParserInit
  BY DEF ConnectionInit, P!ParserInit, PP!ParserInit
<1>3. PP!ParserTypeOK /\ PP!HeaderIsThere
  BY <1>1, <1>2, PP!ShapeInit
<1>4. PP!Followed(Opening(r), Goal(r), Decider(r), Verdict(r))
  BY <1>1, <1>2, RequestSettles, PP!RouteStarts
<1>5. consumed = <<>> /\ buffer = <<>> /\ unread = Sent(r) /\ result = "indeterminate"
  BY DEF ConnectionInit, P!ParserInit
<1>6. Sent(r) \in Seq(Char) /\ Decided(r) \in Seq(PP!Byte)
  BY RequestIsSent
<1>7. (<<>> \o <<>>) \o Sent(r) = Sent(r) /\ <<>> \in Seq(Char)
  BY <1>6
<1>8. IsPrefix(<<>>, Decided(r))
  BY <1>6 DEF IsPrefix
<1>. QED
  BY <1>3, <1>4, <1>5, <1>6, <1>7, <1>8 DEF Stream, Parsed

\* parse() looks at one more byte.
LEMMA JourneyParses ==
  ASSUME NEW r \in Requests, Stream(r), Parsed(r), ParseByte
  PROVE  Stream(r)' /\ Parsed(r)'
<1>. DEFINE B == PP!Byte
            h == Head(buffer)
<1>1. /\ phase = "parsing" /\ phase' = phase /\ buffer # <<>> /\ P!Consume(h) /\ buffer' = Tail(buffer)
      /\ unread' = unread
  BY DEF ParseByte
<1>2. PP!Consume(h) /\ IntMax \in Nat /\ AfterOverflow \subseteq Int
  BY <1>1, SameParser, ClientAssumption
<1>3. buffer \in Seq(Char) /\ unread \in Seq(Char) /\ (consumed \o buffer) \o unread = Sent(r) /\ IsPrefix(consumed, Decided(r))
  BY <1>1 DEF Stream
<1>4. consumed \in Seq(Char) /\ consumed \in Seq(B)
  BY ParserTypes DEF Parsed
<1>5. Char \subseteq B
  BY DEF PP!Byte
<1>6. Seq(Char) \subseteq Seq(B)
  BY <1>5, SeqMonotone
<1>7. result = "indeterminate" /\ consumed' = Append(consumed, h)
  BY <1>2 DEF PP!Consume
<1>8. TakesOne(Char, consumed, buffer, unread)
  BY <1>1, <1>3, <1>4, Takes
<1>8a. h \in Char /\ Tail(buffer) \in Seq(Char)
  BY <1>8 DEF TakesOne
<1>9. Parsed(r)'
  <2>1. PP!ParserNext
    BY <1>2, <1>8a DEF PP!ParserNext
  <2>2. PP!ParserTypeOK' /\ PP!HeaderIsThere'
    BY <1>2, <2>1, PP!ShapeStep DEF Parsed
  <2>3. PP!Followed(Opening(r), Goal(r), Decider(r), Verdict(r))'
    BY <1>2, <2>1, RequestSettles, PP!FollowedStep DEF Parsed
  <2>. QED
    BY <2>2, <2>3 DEF Parsed
<1>10. consumed # Decided(r)
  <2>1. Verdict(r) # "indeterminate"
    BY DEF Verdict
  <2>. QED
    BY <1>3, <1>7, <2>1, VerdictNow
<1>11. /\ (consumed \o buffer) \o unread = (Append(consumed, h) \o Tail(buffer)) \o unread
       /\ (consumed \o buffer) \o unread = Append(consumed, h) \o (Tail(buffer) \o unread)
  BY <1>8 DEF TakesOne
<1>12. IsPrefix(Append(consumed, h), Decided(r))
  <2>1. PICK rest \in Seq(B) : Sent(r) = Decided(r) \o rest
    BY RequestIsSent
  <2>2. Decided(r) \in Seq(B)
    BY RequestIsSent
  <2>3. Tail(buffer) \o unread \in Seq(B)
    <3>1. Tail(buffer) \in Seq(B) /\ unread \in Seq(B)
      BY <1>3, <1>6, <1>8a
    <3>2. Joins(B)
      BY BytesJoin
    <3>. QED
      BY <3>1, <3>2 DEF Joins
  <2>4. h \in B
    BY <1>5, <1>8a
  <2>5. Append(consumed, h) \o (Tail(buffer) \o unread) = Decided(r) \o rest
    BY <1>3, <1>11, <2>1
  <2>. HIDE DEF h, B
  <2>. QED
    BY <1>3, <1>4, <1>10, <2>2, <2>3, <2>4, <2>5, NextByte
<1>13. Stream(r)'
  BY <1>1, <1>3, <1>7, <1>8a, <1>11, <1>12 DEF Stream
<1>. QED
  BY <1>9, <1>13

\* What is read and what is left are what was there, after anything.
LEMMA CutInTwo ==
  ASSUME NEW B, NEW u \in Seq(B), NEW n \in 1..Len(u)
  PROVE  /\ SubSeq(u, 1, n) \in Seq(B) /\ SubSeq(u, n + 1, Len(u)) \in Seq(B)
         /\ SubSeq(u, 1, n) \o SubSeq(u, n + 1, Len(u)) = u
<1>. DEFINE a == SubSeq(u, 1, n)
            b == SubSeq(u, n + 1, Len(u))
<1>1. /\ n \in Nat /\ n <= Len(u) /\ Len(u) \in Nat
      /\ a \in Seq(B) /\ Len(a) = n /\ \A k \in 1..n : a[k] = u[k]
      /\ b \in Seq(B) /\ Len(b) = Len(u) - n /\ \A k \in 1..(Len(u) - n) : b[k] = u[n + k]
  OBVIOUS
<1>. HIDE DEF a, b
<1>2. a \o b \in Seq(B) /\ Len(a \o b) = Len(u)
  BY <1>1, BytesJoin DEF Joins
<1>3. ASSUME NEW k \in 1..Len(u) PROVE (a \o b)[k] = u[k]
  <2>1. CASE k <= n
    BY <1>1, <2>1
  <2>2. CASE k > n
    <3>1. k - n \in 1..(Len(u) - n) /\ n + (k - n) = k
      BY <1>1, <2>2
    <3>2. (a \o b)[k] = b[k - n]
      BY <1>1, <2>2
    <3>. QED
      BY <1>1, <3>1, <3>2
  <2>. QED
    BY <1>1, <2>1, <2>2
<1>4. a \o b = u
  BY <1>2, <1>3, SeqEqual
<1>. QED
  BY <1>1, <1>4 DEF a, b

LEMMA JoinCut ==
  ASSUME NEW B, NEW c \in Seq(B), NEW u \in Seq(B), NEW n \in 1..Len(u)
  PROVE  (c \o SubSeq(u, 1, n)) \o SubSeq(u, n + 1, Len(u)) = c \o u
<1>. DEFINE a == SubSeq(u, 1, n)
            b == SubSeq(u, n + 1, Len(u))
<1>1. a \in Seq(B) /\ b \in Seq(B) /\ a \o b = u /\ Joins(B)
  BY CutInTwo, BytesJoin
<1>. HIDE DEF a, b
<1>2. (c \o a) \o b = c \o (a \o b)
  BY <1>1 DEF Joins
<1>. QED
  BY <1>1, <1>2 DEF a, b

LEMMA JoinNothing ==
  ASSUME NEW B, NEW c \in Seq(B)
  PROVE  c \o <<>> = c
OBVIOUS

\* Nothing else does: a read delivers bytes in their order, and the parser waits.
LEMMA JourneyWaits ==
  ASSUME NEW r \in Requests, Stream(r), Parsed(r), UNCHANGED parser,
         \/ ReadCompletes
         \/ ReadOn
         \/ UNCHANGED <<unread, buffer, phase>>
         \/ unread' = unread /\ buffer' \in {buffer, <<>>} /\ phase' \notin {"reading", "parsing"}
  PROVE  Stream(r)' /\ Parsed(r)'
<1>1. UNCHANGED <<state, request, result, consumed>>
  BY DEF parser
<1>2. Parsed(r)'
  <2>1. [PP!ParserNext]_(PP!pvars) /\ IntMax \in Nat /\ AfterOverflow \subseteq Int
    BY <1>1, ClientAssumption DEF PP!pvars
  <2>2. PP!ParserTypeOK' /\ PP!HeaderIsThere'
    BY <2>1, PP!ShapeStep DEF Parsed
  <2>3. PP!Followed(Opening(r), Goal(r), Decider(r), Verdict(r))'
    BY <2>1, RequestSettles, PP!FollowedStep DEF Parsed
  <2>. QED
    BY <2>2, <2>3 DEF Parsed
<1>3. unread \in Seq(Char) /\ buffer \in Seq(Char) /\ consumed \in Seq(Char)
  BY ParserTypes DEF Stream, Parsed
<1>4. CASE ReadCompletes
  <2>1. phase = "reading" /\ phase' = "parsing"
    BY <1>4 DEF ReadCompletes
  <2>2. PICK n \in 1..Len(unread) : buffer' = SubSeq(unread, 1, n) /\ unread' = SubSeq(unread, n + 1, Len(unread))
    BY <1>4 DEF ReadCompletes
  <2>3. buffer = <<>> /\ (consumed \o buffer) \o unread = Sent(r) /\ IsPrefix(consumed, Decided(r))
    BY <2>1 DEF Stream
  <2>4. buffer' \in Seq(Char) /\ unread' \in Seq(Char) /\ buffer' \o unread' = unread
    BY <1>3, <2>2, CutInTwo
  <2>5. (consumed \o SubSeq(unread, 1, n)) \o SubSeq(unread, n + 1, Len(unread)) = consumed \o unread
    BY <1>3, JoinCut
  <2>6. (consumed \o buffer') \o unread' = Sent(r)
    BY <1>3, <2>2, <2>3, <2>5, JoinNothing
  <2>. QED
    BY <1>1, <1>2, <2>1, <2>3, <2>4, <2>6 DEF Stream
<1>5. CASE ReadOn
  <2>1. /\ phase = "parsing" /\ phase' = "reading" /\ buffer = <<>> /\ result = "indeterminate"
        /\ UNCHANGED <<unread, buffer>>
    BY <1>5 DEF ReadOn
  <2>. QED
    BY <1>1, <1>2, <2>1 DEF Stream
<1>6. CASE UNCHANGED <<unread, buffer, phase>>
  BY <1>1, <1>2, <1>6 DEF Stream
<1>7. CASE unread' = unread /\ buffer' \in {buffer, <<>>} /\ phase' \notin {"reading", "parsing"}
  <2>1. unread' \in Seq(Char) /\ buffer' \in Seq(Char)
    <3>1. <<>> \in Seq(Char)
      OBVIOUS
    <3>. QED
      BY <1>3, <1>7, <3>1
  <2>2. IsPrefix(consumed, Decided(r))
    BY DEF Stream
  <2>. QED
    BY <1>1, <1>2, <1>7, <2>1, <2>2 DEF Stream
<1>. QED
  BY <1>4, <1>5, <1>6, <1>7

\* What the parser makes of the request of the client.
Understood(r) ==
  /\ r.shape = "full" =>
       /\ result # "bad"
       /\ result = "good" => consumed = Render(r) /\ P!Means(r.layout, request)
  /\ r.shape # "full" => result # "good"

LEMMA JourneyUnderstood ==
  ASSUME NEW r \in Requests, Stream(r), Parsed(r)
  PROVE  Understood(r)
<1>1. IF consumed = Decided(r) THEN result = Verdict(r) /\ <<state, request>> \in Goal(r) ELSE result = "indeterminate"
  BY VerdictNow DEF Stream
<1>2. CASE r.shape = "full"
  <2>1. /\ P!WellFormed(r.layout) /\ IntMax \in Nat /\ AfterOverflow \subseteq Int
        /\ r.layout \in PP!Layout /\ PP!WellFormed(r.layout)
    BY ClientAssumption, SameLayouts
  <2>2. Decided(r) = Render(r)
    <3>1. PP!Laid(r.layout) = Append(PP!Upto(r.layout), "LF")
      BY <2>1, PP!LaidIs
    <3>. QED
      BY <1>2, <3>1, SameTexts DEF Decided, Opening, Decider, Render
  <2>3. ASSUME <<state, request>> \in Goal(r) PROVE P!Means(r.layout, request)
    <3>1. request \in PP!Meaning(r.layout)
      BY <1>2, <2>3 DEF Goal, PP!End
    <3>2. PP!Means(r.layout, request)
      BY <2>1, <3>1, PP!MeaningMeans
    <3>. QED
      BY <3>2, SameMeaning
  <2>. QED
    BY <1>1, <1>2, <2>2, <2>3 DEF Understood, Verdict
<1>3. CASE r.shape # "full"
  BY <1>1, <1>3 DEF Understood, Verdict
<1>. QED
  BY <1>2, <1>3

-----------------------------------------------------------------------------
\* What has gone out, and what it is part of.
Delivered(r) ==
  /\ phase \in Phases
  /\ phase \in {"reading", "parsing", "read_failed", "writing", "abandoned"} => wire = <<>>
  /\ phase \in {"writing", "written", "write_failed", "finished"} => reply \in Due(r)
  /\ phase = "abandoned" => NoReply \in Due(r)
  /\ phase \in {"written", "finished"} => wire = Wire(reply)
  /\ phase = "write_failed" => Part(reply)
  /\ phase = "dropped" => wire = <<>> \/ (reply \in Due(r) /\ Part(reply))

\* The reply to a request is one that is due for it.
LEMMA RepliesAreDue ==
  ASSUME NEW r \in Requests, Understood(r)
  PROVE  /\ AnswerBad \/ RefuseUri \/ NotFound \/ ServeFile \/ CallHandler => reply' \in Due(r)
         /\ HandlerThrows => NoReply \in Due(r)
<1>1. AnswerBad => reply' \in Due(r)
  BY DEF AnswerBad, Write, Understood, Due
<1>2. ASSUME result = "good" PROVE Due(r) = Fates(request.method, request.uri)
  <2>1. r.shape = "full" /\ P!Means(r.layout, request)
    BY <1>2 DEF Understood
  <2>2. request.method = r.layout.method /\ request.uri = r.layout.uri
    BY <2>1 DEF P!Means
  <2>. QED
    BY <2>1, <2>2 DEF Due
<1>. DEFINE m == request.method
            u == request.uri
<1>3. RefuseUri => reply' \in Due(r)
  <2> SUFFICES ASSUME RefuseUri PROVE reply' \in Due(r)
    OBVIOUS
  <2>1. result = "good" /\ Paths(u) = {} /\ reply' = StockReply("bad_request")
    BY DEF RefuseUri, Write
  <2>. QED
    BY <1>2, <2>1 DEF Fates
<1>4. NotFound => reply' \in Due(r)
  <2> SUFFICES ASSUME NotFound PROVE reply' \in Due(r)
    OBVIOUS
  <2>1. result = "good" /\ Unmatched(m, u) # {} /\ reply' = StockReply("not_found")
    BY DEF NotFound, Write
  <2>. QED
    BY <1>2, <2>1 DEF Fates
<1>5. ASSUME NEW s \in Served(m, u), result = "good" PROVE Fate(m, u, s) \in Due(r)
  BY <1>2, <1>5 DEF Fates
<1>6. ServeFile => reply' \in Due(r)
  <2> SUFFICES ASSUME ServeFile PROVE reply' \in Due(r)
    OBVIOUS
  <2>1. result = "good"
    BY DEF ServeFile
  <2>2. PICK s \in Served(m, u) : s[1].kind = "static" /\ Write(StaticAnswer(m, u, s[2].file))
    BY DEF ServeFile
  <2>3. reply' = Fate(m, u, s)
    BY <2>2 DEF Write, Fate
  <2>. QED
    BY <1>5, <2>1, <2>3
<1>7. CallHandler => reply' \in Due(r)
  <2> SUFFICES ASSUME CallHandler PROVE reply' \in Due(r)
    OBVIOUS
  <2>1. result = "good"
    BY DEF CallHandler
  <2>2. PICK s \in Served(m, u) : /\ s[1].kind = "dynamic" /\ ~UserHandler[s[1].id].throws
                                   /\ Write(Replied(UserHandler[s[1].id], s[2]))
    BY DEF CallHandler
  <2>3. reply' = Fate(m, u, s)
    BY <2>2 DEF Write, Fate
  <2>. QED
    BY <1>5, <2>1, <2>3
<1>8. HandlerThrows => NoReply \in Due(r)
  <2> SUFFICES ASSUME HandlerThrows PROVE NoReply \in Due(r)
    OBVIOUS
  <2>1. result = "good"
    BY DEF HandlerThrows
  <2>2. PICK s \in Served(m, u) : s[1].kind = "dynamic" /\ UserHandler[s[1].id].throws
    BY DEF HandlerThrows
  <2>3. NoReply = Fate(m, u, s)
    BY <2>2 DEF Fate
  <2>. QED
    BY <1>5, <2>1, <2>3
<1>. QED
  BY <1>1, <1>3, <1>4, <1>6, <1>7, <1>8

\* A step of the connection delivers no more than it should.
LEMMA DeliveredStep ==
  ASSUME NEW r \in Requests, Understood(r), Delivered(r), ConnectionNext
  PROVE  Delivered(r)'
<1>1. CASE ReadCompletes \/ ReadBreaks \/ ParseByte \/ ReadOn \/ ReadFails
  BY <1>1 DEF ReadCompletes, ReadBreaks, ParseByte, ReadOn, ReadFails, Stop, Delivered, Phases
<1>2. CASE AnswerBad \/ RefuseUri \/ NotFound \/ ServeFile \/ CallHandler
  <2>1. phase = "parsing" /\ phase' = "writing" /\ wire' = wire
    BY <1>2, RepliesAreAnswers DEF Answers
  <2>2. reply' \in Due(r)
    BY <1>2, RepliesAreDue
  <2>. QED
    BY <2>1, <2>2 DEF Delivered, Phases
<1>3. CASE HandlerThrows
  <2>1. phase = "parsing" /\ phase' = "abandoned" /\ wire' = wire
    BY <1>3 DEF HandlerThrows
  <2>2. NoReply \in Due(r)
    BY <1>3, RepliesAreDue
  <2>. QED
    BY <2>1, <2>2 DEF Delivered, Phases
<1>4. CASE WriteCompletes
  <2>1. phase = "writing" /\ phase' = "written" /\ wire' = Wire(reply) /\ reply' = reply
    BY <1>4 DEF WriteCompletes
  <2>. QED
    BY <2>1 DEF Delivered, Phases
<1>5. CASE WriteBreaks
  <2>1. /\ phase = "writing" /\ phase' = "write_failed" /\ reply' = reply
        /\ \E n \in 0..(Len(Wire(reply)) - 1) : wire' = SubSeq(Wire(reply), 1, n)
    BY <1>5 DEF WriteBreaks
  <2>2. Part(reply)'
    BY <2>1 DEF Part
  <2>. QED
    BY <2>1, <2>2 DEF Delivered, Phases
<1>6. CASE WriteDone \/ WriteFails
  <2>1. \/ phase = "written" /\ phase' = "finished" /\ reply' = reply /\ wire' = wire
        \/ phase = "write_failed" /\ phase' = "dropped" /\ reply' = reply /\ wire' = wire
    BY <1>6 DEF WriteDone, WriteFails, Stop
  <2>2. Part(reply) => Part(reply)'
    BY <2>1 DEF Part
  <2>. QED
    BY <2>1, <2>2 DEF Delivered, Phases
<1>. QED
  BY <1>1, <1>2, <1>3, <1>4, <1>5, <1>6 DEF ConnectionNext, Progress, Breaks, ReadHandler

\* So it is for the request of the client, all the way.
ClientInv ==
  /\ intended \in Requests
  /\ ReplyInv
  /\ \A r \in Requests : intended = r => Stream(r) /\ Parsed(r) /\ Delivered(r)

\* At first nothing has happened.
LEMMA ClientInitInv == ClientInit => ClientInv
<1> SUFFICES ASSUME ClientInit PROVE ClientInv
  OBVIOUS
<1>1. intended \in Requests /\ ConnectionInit(Sent(intended))
  BY DEF ClientInit, Sent
<1>2. ReplyInv
  BY <1>1, ConnectionInitInv
<1>3. ASSUME NEW r \in Requests, intended = r PROVE Stream(r) /\ Parsed(r) /\ Delivered(r)
  <2>1. ConnectionInit(Sent(r))
    BY <1>1, <1>3
  <2>2. phase = "reading" /\ wire = <<>>
    BY <2>1 DEF ConnectionInit
  <2>. QED
    BY <2>1, <2>2, JourneyStarts DEF Delivered, Phases
<1>. QED
  BY <1>1, <1>2, <1>3 DEF ClientInv

\* Every step takes the request on, or leaves it where it is.
LEMMA ClientStepInv == ClientInv /\ [ClientNext]_<<cvars, intended>> => ClientInv'
<1> SUFFICES ASSUME ClientInv, [ClientNext]_<<cvars, intended>> PROVE ClientInv'
  OBVIOUS
<1>1. intended' = intended /\ [ConnectionNext]_cvars
  BY DEF ClientNext
<1>2. ReplyInv'
  BY <1>1, ConnectionStepInv DEF ClientInv
<1>3. ASSUME NEW r \in Requests, intended' = r PROVE Stream(r)' /\ Parsed(r)' /\ Delivered(r)'
  <2>1. Stream(r) /\ Parsed(r) /\ Delivered(r)
    BY <1>1, <1>3 DEF ClientInv
  <2>2. Understood(r)
    BY <2>1, JourneyUnderstood
  <2>3. CASE UNCHANGED cvars
    <3>1. UNCHANGED <<unread, buffer, phase>> /\ UNCHANGED parser /\ UNCHANGED <<phase, reply, wire>>
      BY <2>3 DEF cvars
    <3>2. Delivered(r)'
      BY <2>1, <3>1 DEF Delivered, Part
    <3>. QED
      BY <2>1, <3>1, <3>2, JourneyWaits
  <2>4. CASE ConnectionNext
    <3>1. Delivered(r)'
      BY <2>1, <2>2, <2>4, DeliveredStep
    <3>2. CASE ParseByte
      BY <2>1, <3>1, <3>2, JourneyParses
    <3>3. CASE ReadCompletes \/ ReadOn
      <4>1. UNCHANGED parser
        BY <3>3 DEF ReadCompletes, ReadOn
      <4>. QED
        BY <2>1, <3>1, <3>3, <4>1, JourneyWaits
    <3>4. CASE AnswerBad \/ RefuseUri \/ NotFound \/ ServeFile \/ CallHandler
      <4>1. UNCHANGED parser /\ unread' = unread /\ phase' = "writing"
        BY <3>4, RepliesAreAnswers DEF Answers
      <4>2. buffer' = <<>>
        BY <3>4 DEF AnswerBad, RefuseUri, NotFound, ServeFile, CallHandler, Write
      <4>. QED
        BY <2>1, <3>1, <4>1, <4>2, JourneyWaits
    <3>5. CASE HandlerThrows \/ ReadBreaks \/ WriteCompletes \/ WriteBreaks \/ WriteDone \/ WriteFails \/ ReadFails
      <4>1. UNCHANGED parser /\ unread' = unread /\ buffer' \in {buffer, <<>>} /\ phase' \notin {"reading", "parsing"}
        BY <3>5 DEF HandlerThrows, ReadBreaks, WriteCompletes, WriteBreaks, WriteDone, WriteFails, ReadFails, Stop
      <4>. QED
        BY <2>1, <3>1, <4>1, JourneyWaits
    <3>. QED
      BY <2>4, <3>2, <3>3, <3>4, <3>5 DEF ConnectionNext, Progress, Breaks, ReadHandler
  <2>. QED
    BY <1>1, <2>3, <2>4
<1>. QED
  BY <1>1, <1>2, <1>3 DEF ClientInv

\* The bytes of the client are where they should be, the parser is on the way of its
\* request or has decided, and no more is delivered than what is due.
THEOREM ClientInvariant == ClientSpec => []ClientInv
  BY ClientInitInv, ClientStepInv, PTL DEF ClientSpec

\* Whatever pieces a well-formed request is read in and whatever comes after it, it is
\* not refused, not taken before its last byte, and handed over as it was meant.
THEOREM RequestsAreUnderstood == ClientSpec => []WellFormedAccepted
<1>1. ClientInv => WellFormedAccepted
  <2> SUFFICES ASSUME ClientInv PROVE WellFormedAccepted
    OBVIOUS
  <2>1. PICK r \in Requests : intended = r
    BY DEF ClientInv
  <2>2. Understood(r)
    BY <2>1, JourneyUnderstood DEF ClientInv
  <2>. QED
    BY <2>1, <2>2 DEF WellFormedAccepted, Understood
<1>. QED
  BY <1>1, ClientInvariant, PTL

\* When clients know what the resources make of their requests, the one reply that goes
\* out is that; no step of the connection, of the parser or of the reply changes it.
THEOREM RepliesAreExpected ==
  ASSUME Foreseen
  PROVE  ClientSpec => []ReplyIsExpected
<1>1. ClientInv => ReplyIsExpected
  <2> SUFFICES ASSUME ClientInv PROVE ReplyIsExpected
    OBVIOUS
  <2>1. PICK r \in Requests : intended = r
    BY DEF ClientInv
  <2>2. Delivered(r) /\ ReplyInv /\ Due(r) \subseteq {r.fate}
    BY <2>1 DEF ClientInv, Foreseen
  <2>3. CASE phase \in {"written", "finished"}
    BY <2>1, <2>2, <2>3 DEF Delivered, ReplyInv, ReplyIsExpected
  <2>4. CASE phase = "abandoned"
    BY <2>1, <2>2, <2>4 DEF Delivered, ReplyInv, ReplyIsExpected
  <2>5. CASE phase \in {"write_failed", "dropped"}
    <3>1. Part(r.fate)
      BY <2>2, <2>5 DEF Delivered, Part
    <3>. QED
      BY <2>1, <2>5, <3>1 DEF ReplyIsExpected
  <2>6. CASE phase \notin {"written", "finished", "abandoned", "write_failed", "dropped"}
    BY <2>2, <2>6 DEF Delivered, Phases, ReplyIsExpected
  <2>. QED
    BY <2>3, <2>4, <2>5, <2>6
<1>. QED
  BY <1>1, ClientInvariant, PTL

\* A client of one request is one of the clients of Connection: what is proved for any
\* of them is so for it, and each of its steps is one of HttpServer.
THEOREM ClientImplementsHandlers == ClientSpec => ConnectionSpec /\ ImplementsHandlers
<1>1. ClientInit => \E sent \in Seq(Char) : ConnectionInit(sent)
  <2> SUFFICES ASSUME ClientInit PROVE \E sent \in Seq(Char) : ConnectionInit(sent)
    OBVIOUS
  <2>1. intended \in Requests /\ ConnectionInit(Sent(intended))
    BY DEF ClientInit, Sent
  <2>2. Sent(intended) \in Seq(Char)
    BY <2>1, RequestIsSent
  <2>. QED
    BY <2>1, <2>2
<1>2. [ClientNext]_<<cvars, intended>> => [ConnectionNext]_cvars
  BY DEF ClientNext
<1>3. ClientSpec => ConnectionSpec
  BY <1>1, <1>2, PTL DEF ClientSpec, ConnectionSpec
<1>. QED
  BY <1>3, ConnectionImplementsHandlers

===============================================================================
