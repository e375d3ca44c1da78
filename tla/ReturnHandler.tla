----------------------------- MODULE ReturnHandler -----------------------------
(***************************************************************************)
(* The handler f16 gives a server whose entry in the configuration has a   *)
(* "return" section: a stock reply with the headers of the section, where  *)
(* $host and $request_uri stand for what the client asked for.             *)
(*                                                                         *)
(* A text is a sequence of atoms: the two variables, ":", a line break and *)
(* words.                                                                  *)
(***************************************************************************)
EXTENDS Reply

CONSTANTS
  Chosen,     \* the statuses of return sections
  Entry,      \* the entries their "headers" may have
  Host,       \* the values of the headers of requests
  Uri,        \* the uris of requests
  MaxHeaders  \* bound: entries of a section, and headers of a request

\* The parser lets no line break into a text of the client (FieldsAreClean); nothing
\* keeps the configuration from having one.
ASSUME HandlerAssumption ==
  /\ Chosen \subseteq Status
  /\ Entry \subseteq Seq(STRING \X Seq(STRING))
  /\ Host \subseteq Seq(STRING \ {"CRLF"})
  /\ Uri \subseteq Seq(STRING \ {"CRLF"})
  /\ MaxHeaders \in Nat
  /\ \A length \in 0..2 : ToString(length) \in STRING \ {"CRLF"}

\* An entry is a JSON object, as the sequence of its pairs in the order of items().
\* A value that is no string is NotText.
NotText == <<"a number">>

VARIABLES
  section,  \* the status and the headers of the return section
  request,  \* the method, the uri and the headers of the request
  next,     \* the entry of the section the loop is at
  res,      \* the reply
  outcome   \* "running", "returned", or "thrown" when a value is no string

hvars == <<section, request, next, res, outcome>>

\* The names a client may give a header, and what tolower makes of them.
Lowered == [Host |-> "host", HOST |-> "host", Accept |-> "accept"]

HandlerInit ==
  /\ section \in [status : Chosen, headers : SeqOf(Entry, MaxHeaders)]
  /\ request \in [method : {"GET", "HEAD"}, uri : Uri,
                  headers : SeqOf([name : DOMAIN Lowered, value : Host], MaxHeaders)]
  /\ next = 1
  /\ res = StockReply(section.status)
  /\ outcome = "running"

-----------------------------------------------------------------------------
\* http_request::get_header: the first header of the name, whatever its case.
GetHeader(name) ==
  LET k == SelectInSeq(request.headers, LAMBDA h : Lowered[h.name] = name)
  IN  IF k = 0 THEN <<>> ELSE request.headers[k].value

\* Mutant of Bare: the port stays.
BareWithPort(host) == host

\* The host without its port: everything from the first ':' is erased.
Bare(host) ==
  LET k == SelectInSeq(host, LAMBDA atom : atom = ":")
  IN  IF k = 0 THEN host ELSE SubSeq(host, 1, k - 1)

\* The first occurrence of the variable only, in the text as it is by then.
Replaced(text, variable, by) == ReplaceFirstSubSeq(by, <<variable>>, text)

\* The loop over items(): the last pair counts.
Name(entry)  == IF entry = <<>> THEN "" ELSE Last(entry)[1]
Value(entry) == IF entry = <<>> THEN <<>> ELSE Last(entry)[2]

IsText(entry) == \A k \in DOMAIN entry : entry[k][2] # NotText
NeedsHost(entry) == Contains(Value(entry), "$host")

MissingHost == <<"Missing 'Host' header", "in the request">>

Looping == outcome = "running" /\ next <= Len(section.headers) /\ UNCHANGED <<section, request>>
This == section.headers[next]

EntryThrows ==
  /\ Looping /\ ~IsText(This)
  /\ outcome' = "thrown"
  /\ UNCHANGED <<next, res>>

\* Mutant of BadReply: the headers stay those of the stock reply.
BadReplyStock == [StockReply("bad_request") EXCEPT !.content = MissingHost]

BadReply == [status |-> "bad_request", headers |-> Described(MissingHost, "text/plain"), content |-> MissingHost]

\* Mutant of HostMissing: the loop goes on.
HostMissingGoesOn ==
  /\ Looping /\ IsText(This) /\ NeedsHost(This) /\ GetHeader("host") = <<>>
  /\ res' = BadReply
  /\ next' = next + 1
  /\ UNCHANGED outcome

HostMissing ==
  /\ Looping /\ IsText(This) /\ NeedsHost(This) /\ GetHeader("host") = <<>>
  /\ res' = BadReply
  /\ outcome' = "returned"
  /\ UNCHANGED next

PushHeader ==
  /\ Looping /\ IsText(This) /\ (NeedsHost(This) => GetHeader("host") # <<>>)
  /\ LET hosted == Replaced(Value(This), "$host", Bare(GetHeader("host")))
         value  == Replaced(hosted, "$request_uri", request.uri)
     IN  res' = [res EXCEPT !.headers = Append(@, Header(Name(This), value))]
  /\ next' = next + 1
  /\ UNCHANGED outcome

Return ==
  /\ outcome = "running" /\ next > Len(section.headers)
  /\ outcome' = "returned"
  /\ UNCHANGED <<section, request, next, res>>

HandlerNext == EntryThrows \/ HostMissing \/ PushHeader \/ Return

HandlerSpec == HandlerInit /\ [][HandlerNext]_hvars

-----------------------------------------------------------------------------
(***************************************************************************)
(* Properties.                                                             *)
(***************************************************************************)
Variables == {"$host", "$request_uri"}
Plain(text) == Range(text) \cap Variables = {}

\* The first Host header of the request, or nothing.
HostSent ==
  LET hosts == {k \in DOMAIN request.headers : request.headers[k].name \in {"Host", "HOST"}}
  IN  IF hosts = {} THEN <<>>
      ELSE request.headers[CHOOSE k \in hosts : \A j \in hosts : k <= j].value

\* The longest start of the host with no ':'.
HostName ==
  LET n == CHOOSE k \in 0..Len(HostSent) :
             /\ ":" \notin Range(SubSeq(HostSent, 1, k))
             /\ k < Len(HostSent) => HostSent[k + 1] = ":"
  IN  SubSeq(HostSent, 1, n)

Filled(text) ==
  FlattenSeq([k \in DOMAIN text |-> CASE text[k] = "$host" -> HostName
                                     [] text[k] = "$request_uri" -> request.uri
                                     [] OTHER -> <<text[k]>>])

\* Some header of the section needs the host of a request that does not have it.
HostIsMissed ==
  HostSent = <<>> /\ \E k \in DOMAIN section.headers : NeedsHost(section.headers[k])

\* A request that lacks the host some header needs gets the 400 of the handler, as
\* it is, whichever header that is and whatever follows it; no other request does.
MissingHostIsBad ==
  outcome = "returned" =>
    IF HostIsMissed
    THEN /\ res.status = "bad_request"
         /\ res.headers = Described(res.content, "text/plain")
         /\ res.content = MissingHost
    ELSE res.content # MissingHost

\* Only the first occurrence of a variable is replaced.
NamesOnce(text) == \A j, k \in DOMAIN text : text[j] = text[k] /\ text[j] \in Variables => j = k

\* Otherwise the reply is the stock one with the headers of the section, in order,
\* each variable standing for the host without its port, or for the uri.  The texts
\* of the client must not name the variables themselves, and a value names each of
\* them once at most.
HeadersAreFilled ==
  /\ outcome = "returned" /\ ~HostIsMissed
  /\ Plain(HostSent) /\ Plain(request.uri)
  /\ \A k \in DOMAIN section.headers : NamesOnce(Value(section.headers[k]))
  =>
    res = [StockReply(section.status) EXCEPT !.headers =
             @ \o [k \in DOMAIN section.headers |->
                     Header(Name(section.headers[k]), Filled(Value(section.headers[k])))]]

\* No line break in what the configuration says of the header.
Unbroken(entry) == Name(entry) # "CRLF" /\ "CRLF" \notin Range(Value(entry))

\* On the wire the body starts after the first empty line, and is as long as the
\* first Content-Length says, whichever way the handler ended and whatever the client
\* sent; unless the configuration itself breaks a line.
Framed ==
  outcome = "returned" /\ (\A k \in DOMAIN section.headers : Unbroken(section.headers[k])) =>
    LET wire  == Wire(res)
        blank == CHOOSE k \in DOMAIN wire :
                   /\ wire[k] = "CRLF" /\ wire[k + 1] = "CRLF"
                   /\ \A j \in 1..(k - 1) : ~(wire[j] = "CRLF" /\ wire[j + 1] = "CRLF")
        body  == SubSeq(wire, blank + 2, Len(wire))
    IN  /\ SubSeq(wire, 2, 4) = <<"Content-Length", ": ", ToString(Len(body))>>
        /\ body = res.content

\* The body of a stock reply is the page of its status: reply.cpp has a
\* page for each.
StockBodyIsOfStatus ==
  outcome = "returned" /\ ~HostIsMissed /\ section.status # "ok" => res.content = <<section.status>>

\* A reply to HEAD has no body: README.md names the HEAD of RFC 7231.
HeadHasNoBody == outcome = "returned" /\ request.method = "HEAD" => res.content = <<>>

=============================================================================
