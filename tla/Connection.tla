------------------------------ MODULE Connection ------------------------------
(***************************************************************************)
(* One connection from bytes to bytes: what HttpServer has as the outcomes *)
(* of a read handler is here the parser, the router and the user's         *)
(* resources put together, over the bytes a client sends.  Reads deliver   *)
(* them in pieces; the reply goes out; either side may fail at any time.   *)
(***************************************************************************)
EXTENDS DynamicContent

CONSTANTS
  Char,        \* the bytes of a client, see RequestParser; a word is one byte
  IntMax, AfterOverflow,  \* bounds, see RequestParser
  BufferSize,  \* bound: the size of buffer_
  Resources,   \* path_router::resources
  UserHandler, \* the handler of each dynamic resource, by its id
  Directories, \* the directories below the document root of the static resources,
  Files        \* and the files, with their types: they stay, see StaticContent

VARIABLES
  unread,   \* sent by the client, not read yet
  buffer,   \* the part of buffer_ that parse() has still to look at
  state, request, result, consumed,  \* of the parser
  phase,    \* the operation under way, or what became of it
  reply,    \* reply_
  wire      \* what the client has received

parser == <<state, request, result, consumed>>
cvars == <<unread, buffer, parser, phase, reply, wire>>

P == INSTANCE RequestParser
R == INSTANCE PathRouter WITH
       Method <- DOMAIN Resources, Location <- {}, Uri <- {}, MaxRoutes <- 0,
       resources <- Resources, added <- {}, served <- <<>>

Phases == {"reading", "parsing", "read_failed", "writing", "written", "write_failed",
           "finished", "dropped", "abandoned"}

NoReply == [status |-> "none", headers |-> <<>>, content |-> <<>>]

ConnectionInit(sent) ==
  /\ unread = sent /\ buffer = <<>>
  /\ P!ParserInit
  /\ phase = "reading"
  /\ reply = NoReply
  /\ wire = <<>>

-----------------------------------------------------------------------------
\* async_read_some delivers some of what is there.
ReadCompletes ==
  /\ phase = "reading" /\ phase' = "parsing"
  /\ \E n \in 1..Len(unread) : /\ n <= BufferSize
                               /\ buffer' = SubSeq(unread, 1, n)
                               /\ unread' = SubSeq(unread, n + 1, Len(unread))
  /\ UNCHANGED <<parser, reply, wire>>

\* The client closes its end or the network fails.
ReadBreaks ==
  /\ phase = "reading" /\ phase' = "read_failed"
  /\ UNCHANGED <<unread, buffer, parser, reply, wire>>

\* The read handler: parse() first.
ParseByte ==
  /\ phase = "parsing" /\ buffer # <<>>
  /\ P!Consume(Head(buffer))
  /\ buffer' = Tail(buffer)
  /\ UNCHANGED <<unread, phase, reply, wire>>

\* Mutant of ReadOn: every read starts a new request.
ReadOnAfresh ==
  /\ phase = "parsing" /\ phase' = "reading"
  /\ buffer = <<>> /\ result = "indeterminate"
  /\ state' = "method_start"
  /\ UNCHANGED <<unread, buffer, request, result, consumed, reply, wire>>

\* indeterminate: do_read() again.
ReadOn ==
  /\ phase = "parsing" /\ phase' = "reading"
  /\ buffer = <<>> /\ result = "indeterminate"
  /\ UNCHANGED <<unread, buffer, parser, reply, wire>>

\* The handler is done with the buffer, parsed to its end or not, and starts to
\* write a reply.
Write(rep) ==
  /\ phase = "parsing" /\ phase' = "writing"
  /\ reply' = rep
  /\ buffer' = <<>>
  /\ UNCHANGED <<unread, parser, wire>>

\* Mutant of AnswerBad: reads on although it has a reply.
AnswerBadReadsOn ==
  /\ phase = "parsing" /\ phase' = "reading"
  /\ result = "bad"
  /\ reply' = StockReply("bad_request")
  /\ buffer' = <<>>
  /\ UNCHANGED <<unread, parser, wire>>

AnswerBad == result = "bad" /\ Write(StockReply("bad_request"))

(***************************************************************************)
(* good: handle_request(), which here is a path_router.                    *)
(***************************************************************************)
Method(name) == IF Len(name) = 1 THEN R!Handled(name[1]) ELSE "other"
Handlers(method) == IF Method(method) \in DOMAIN Resources THEN Resources[Method(method)] ELSE <<>>
Paths(uri) == {path \in R!UrlDecode(uri) : R!Acceptable(path)}

RefuseUri == result = "good" /\ Paths(request.uri) = {} /\ Write(StockReply("bad_request"))

\* The paths no resource is for.
Unmatched(method, uri) == {path \in Paths(uri) : R!First(Handlers(method), path) = {}}

NotFound ==
  /\ result = "good"
  /\ Unmatched(request.method, request.uri) # {}
  /\ Write(StockReply("not_found"))

\* The resource that serves, with what it is given.
Served(method, uri) ==
  LET handlers == Handlers(method)
  IN  UNION {UNION {{<<handlers[k], given>> : given \in R!Given(handlers[k], path)} :
                      k \in R!First(handlers, path)} : path \in Paths(uri)}

\* static_content::serve_if_match, where doc_root / name is for the file system the
\* same with slashes at its end, as long as it is a directory.
Bare(name) == Reverse(R!Relative(Reverse(name)))
Below(directory, name) == IF directory = <<>> THEN name ELSE directory \o <<"/">> \o name
IndexOf(directory) == Below(directory, <<"index.html">>)

FileReply(name) ==
  [status  |-> "ok",
   headers |-> Described(Files[name].content, Files[name].type),
   content |-> Files[name].content]

ListingReply == [status |-> "ok", headers |-> Described(<<"listing">>, "text/html"), content |-> <<"listing">>]

\* The uri as the client sent it, still encoded.
RedirectReply(uri) ==
  [StockReply("moved_permanently") EXCEPT !.headers = Append(@, Header("Location", uri \o <<"/">>))]

StaticReply(uri, name) ==
  CASE Bare(name) \in Directories /\ IndexOf(Bare(name)) \in DOMAIN Files -> FileReply(IndexOf(Bare(name)))
    [] Bare(name) \in Directories /\ IndexOf(Bare(name)) \notin DOMAIN Files ->
         IF Last(uri) = "/" THEN ListingReply ELSE RedirectReply(uri)
    [] name \in DOMAIN Files -> FileReply(name)
    [] OTHER -> StockReply("not_found")

\* HEAD gets the headers only.
StaticAnswer(method, uri, name) ==
  [StaticReply(uri, name) EXCEPT !.content = IF method = <<"HEAD">> THEN <<>> ELSE @]

ServeFile ==
  /\ result = "good"
  /\ \E s \in Served(request.method, request.uri) :
       s[1].kind = "static" /\ Write(StaticAnswer(request.method, request.uri, s[2].file))

CallHandler ==
  /\ result = "good"
  /\ \E s \in Served(request.method, request.uri) :
       /\ s[1].kind = "dynamic" /\ ~UserHandler[s[1].id].throws
       /\ Write(Replied(UserHandler[s[1].id], s[2]))

HandlerThrows ==
  /\ phase = "parsing" /\ phase' = "abandoned"
  /\ result = "good"
  /\ \E s \in Served(request.method, request.uri) : s[1].kind = "dynamic" /\ UserHandler[s[1].id].throws
  /\ buffer' = <<>>
  /\ UNCHANGED <<unread, parser, reply, wire>>

-----------------------------------------------------------------------------
WriteCompletes ==
  /\ phase = "writing" /\ phase' = "written"
  /\ wire' = Wire(reply)
  /\ UNCHANGED <<unread, buffer, parser, reply>>

\* Some of the reply may have got through.
WriteBreaks ==
  /\ phase = "writing" /\ phase' = "write_failed"
  /\ \E n \in 0..(Len(Wire(reply)) - 1) : wire' = SubSeq(Wire(reply), 1, n)
  /\ UNCHANGED <<unread, buffer, parser, reply>>

\* The handlers that end with connection_manager_.stop().
Stop(from, to) ==
  /\ phase = from /\ phase' = to
  /\ UNCHANGED <<unread, buffer, parser, reply, wire>>

WriteDone == Stop("written", "finished")
WriteFails == Stop("write_failed", "dropped")
ReadFails == Stop("read_failed", "dropped")

-----------------------------------------------------------------------------
ReadHandler ==
  /\ phase = "parsing"
  /\ ParseByte \/ ReadOn \/ AnswerBad \/ RefuseUri \/ NotFound \/ ServeFile \/ CallHandler \/ HandlerThrows

Breaks == ReadBreaks \/ WriteBreaks

\* What goes on by itself: the bytes sent arrive, handlers run.
Progress ==
  \/ ReadCompletes \/ WriteCompletes
  \/ ReadHandler \/ WriteDone \/ WriteFails \/ ReadFails

ConnectionNext == Progress \/ Breaks

\* A connection of any client.
ConnectionSpec ==
  (\E sent \in Seq(Char) : ConnectionInit(sent)) /\ [][ConnectionNext]_cvars

-----------------------------------------------------------------------------
(***************************************************************************)
(* The connection is one of HttpServer: the bytes, the parser and the      *)
(* router are what is behind the outcomes of its read handler.             *)
(***************************************************************************)
Me == "me"
Operation(op, ec) == {[conn |-> Me, op |-> op, ec |-> ec]}

H == INSTANCE HttpServer WITH
       Conn <- {Me}, Tls <- FALSE, Faults <- {"handle_request"},
       server <- "listening", accept <- "waiting",
       connections <- IF phase \in {"finished", "dropped"} THEN {} ELSE {Me},
       ops <- CASE phase = "reading"      -> Operation("read", "pending")
                [] phase = "parsing"      -> Operation("read", "success")
                [] phase = "read_failed"  -> Operation("read", "error")
                [] phase = "writing"      -> Operation("write", "pending")
                [] phase = "written"      -> Operation("write", "success")
                [] phase = "write_failed" -> Operation("write", "error")
                [] OTHER                  -> {},
       socket <- [c \in {Me} |-> IF phase \in {"finished", "dropped"} THEN phase ELSE "open"],
       reply <- [c \in {Me} |-> CASE reply = NoReply -> "none" [] result = "bad" -> "bad_request" [] OTHER -> "handled"],
       abandoned <- IF phase = "abandoned" THEN {Me} ELSE {},
       dangling <- FALSE

\* Whatever the bytes, each step is one that HttpServer takes for this connection,
\* or happens inside its read handler.
ImplementsHandlers == [][H!Next]_(H!vars)

=============================================================================
