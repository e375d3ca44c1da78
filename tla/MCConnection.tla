----------------------------- MODULE MCConnection -----------------------------
(* Client with the requests of a program like examples/rest.cpp: each is     *)
(* meant first, as a call of a handler, a file or a refusal, and what is to  *)
(* come of it is told from that; then it is written down, in every way.      *)
EXTENDS Client

CONSTANTS
  MaxHeaders,  \* bound: headers of a request
  MaxValue,    \* bound: characters of a parameter of the path
  Simple       \* whether clients may send the Simple-Request of RFC 1945, which
               \* has neither version nor headers

Chars == {"GET", "HEAD", "POST", "P", "H", "T", "/", "0", "1", ".", "SP", "HT", "CR", "LF", ":",
          "a", "b", "x", "k", "s", "d", "?", "=", "&", "%", "+", "2", "5", "B"}

\* An overflow that wraps around gives any sign.
Wrapped == {-5, 3}

(***************************************************************************)
(* The resources, as a program like examples/rest.cpp has them.            *)
(***************************************************************************)
\* os << json << req.resource("x"); os << req.query("k") << xml;
Detail == HandlerOf("response_stream",
  <<<<Insertion("content_type", "application/json"), Insertion("resource", <<"x">>)>>,
    <<Insertion("query", <<"k">>), Insertion("content_type", "application/xml")>>>>, FALSE)

\* os << bad_request << json << "a"; os << plain << req.query("x");
Refusal == HandlerOf("response_stream",
  <<<<Insertion("status", "bad_request"), Insertion("content_type", "application/json"), Insertion("text", <<"a">>)>>,
    <<Insertion("content_type", "text/plain"), Insertion("query", <<"x">>)>>>>, FALSE)

\* A handler that takes a std::ostream&: os << "b" << bad_request;
Untyped == HandlerOf("ostream",
  <<<<Insertion("text", <<"b">>), Insertion("status", "bad_request")>>>>, FALSE)

\* os << json << "a"; throw ...
Failing == HandlerOf("response_stream",
  <<<<Insertion("content_type", "application/json"), Insertion("text", <<"a">>)>>>>, TRUE)

UserHandlers == <<Detail, Refusal, Untyped, Failing>>

Dynamic(location, id) == [location |-> location, kind |-> "dynamic", id |-> id]

RestResources == [method \in {"GET", "POST"} |->
  IF method = "GET"
  THEN <<Dynamic(<<"/", "a", "/", ":", "x">>, 1),
         [location |-> <<"/", "s">>, kind |-> "static", id |-> 5],
         Dynamic(<<"/", "a">>, 2)>>
  ELSE <<Dynamic(<<"/", ":", "x">>, 4), Dynamic(<<"/">>, 3)>>]

\* The files below the document root: "d" has an index, "x" and the root have none.
Folders == {<<>>, <<"d">>, <<"x">>}
Page(text, type) == [content |-> text, type |-> type]
Documents ==
     <<"b">> :> Page(<<"1", "2">>, "text/plain")
  @@ <<"+">> :> Page(<<"1">>, "text/plain")
  @@ <<"x", "/", "b">> :> Page(<<>>, "text/plain")
  @@ <<"d", "/", "index.html">> :> Page(<<"0", "1", "2">>, "text/html")

-----------------------------------------------------------------------------
(***************************************************************************)
(* What is meant: a fate, and the uris that ask for it.                    *)
(***************************************************************************)
Escapes(c) ==
  CASE c = "SP" -> {<<"+">>, <<"%", "2", "0">>}
    [] c = "%"  -> {<<"%", "2", "5">>}
    [] c = "+"  -> {<<"%", "2", "B">>}
    [] OTHER    -> {<<c>>}

\* The ways to write a text of at most two characters in a uri.
InUri(text) ==
  CASE Len(text) = 0 -> {<<>>}
    [] Len(text) = 1 -> Escapes(text[1])
    [] Len(text) = 2 -> {e \o f : e \in Escapes(text[1]), f \in Escapes(text[2])}

\* Parameters of the path are not empty, and hold no delimiter.
Values == {v \in SeqOf({"b", "SP", "%", "+"}, MaxValue) : v # <<>>}

Call(id, x, k) ==
  [id |-> id,
   given |-> [resources |-> x, querystring |-> k]]

\* A query: the pairs as they are written, and what "k" is in the end.
QueriesOfK ==
  {<<<<>>, <<>>>>}
  \cup UNION {{<<<<"?", "k", "=">> \o w, <<"k">> :> v>> : w \in InUri(v)} : v \in {<<>>, <<"b">>, <<"%">>}}
  \cup {<<<<"?", "k", "=", "a", "&", "x", "&", "k", "=", "b">>, (<<"k">> :> <<"b">>) @@ (<<"x">> :> <<>>)>>}

DetailTargets ==
  UNION {UNION {{[method |-> "GET", uri |-> <<"/", "a", "/">> \o w \o q[1],
                  call |-> Call(1, <<"x">> :> v, q[2])] :
                    w \in InUri(v)} : v \in Values} : q \in QueriesOfK}

OtherTargets == {
  [method |-> "GET",  uri |-> <<"/", "a">>, call |-> Call(2, <<>>, <<>>)],
  [method |-> "HEAD", uri |-> <<"/", "a", "/", "?", "x", "=", "b">>, call |-> Call(2, <<>>, <<"x">> :> <<"b">>)],
  [method |-> "POST", uri |-> <<"/">>, call |-> Call(3, <<>>, <<>>)],
  [method |-> "POST", uri |-> <<"/", "a">>, call |-> Call(4, <<"x">> :> <<"a">>, <<>>)]}

\* No resource, or no path at all.
LostTargets == {
  [method |-> "GET",  uri |-> <<"/", "b">>, status |-> "not_found"],
  [method |-> "P",    uri |-> <<"/", "a">>, status |-> "not_found"],
  [method |-> "GET",  uri |-> <<"a">>, status |-> "bad_request"],
  [method |-> "GET",  uri |-> <<>>, status |-> "bad_request"],
  [method |-> "GET",  uri |-> <<"/", "%", "2", "x">>, status |-> "bad_request"],
  [method |-> "GET",  uri |-> <<"/", ".", ".", "/", "a">>, status |-> "bad_request"]}

\* What a static resource at "/s" makes of an uri: the reply, and its body.
Sent(status, length, type, body) ==
  [status |-> status, headers |-> <<Header("Content-Length", <<length>>), Header("Content-Type", <<type>>)>>,
   content |-> body]
Moved(uri) ==
  [status |-> "moved_permanently",
   headers |-> <<Header("Content-Length", <<"1">>), Header("Content-Type", <<"text/html">>), Header("Location", uri)>>,
   content |-> <<"moved_permanently">>]
Get(uri, rep) == [method |-> "GET", uri |-> uri, reply |-> rep]

StaticTargets == {
  Get(<<"/", "s", "/", "b">>, Sent("ok", "2", "text/plain", <<"1", "2">>)),
  [method |-> "HEAD", uri |-> <<"/", "s", "/", "/", "b">>, reply |-> Sent("ok", "2", "text/plain", <<>>)],
  Get(<<"/", "s", "/", "%", "2", "B">>, Sent("ok", "1", "text/plain", <<"1">>)),
  Get(<<"/", "s", "/", "x", "/", "b">>, Sent("ok", "0", "text/plain", <<>>)),
  Get(<<"/", "s", "/", "d">>, Sent("ok", "3", "text/html", <<"0", "1", "2">>)),
  [method |-> "HEAD", uri |-> <<"/", "s", "/", "d", "/">>, reply |-> Sent("ok", "3", "text/html", <<>>)],
  Get(<<"/", "s">>, Moved(<<"/", "s", "/">>)),
  Get(<<"/", "s", "/", "x">>, Moved(<<"/", "s", "/", "x", "/">>)),
  Get(<<"/", "s", "/">>, Sent("ok", "1", "text/html", <<"listing">>)),
  Get(<<"/", "s", "/", "x", "/">>, Sent("ok", "1", "text/html", <<"listing">>))}

\* A space is not a plus; a file is no directory; a query is part of the name; a
\* static resource is one of GET.
NoFileTargets ==
  [method : {"GET"}, status : {"not_found"},
   uri : {<<"/", "s", "/", "+">>, <<"/", "s", "/", "b", "/">>, <<"/", "s", "/", "b", "?", "x">>}]
  \cup {[method |-> "POST", status |-> "not_found", uri |-> <<"/", "s", "/", "b">>],
        [method |-> "GET", status |-> "bad_request", uri |-> <<"/", "s", "/", "x", "/", ".", ".", "/", "b">>]}

Targets == DetailTargets \cup OtherTargets \cup LostTargets \cup StaticTargets \cup NoFileTargets
OneTarget == [method |-> "GET", uri |-> <<"/", "a">>, call |-> Call(2, <<>>, <<>>)]

\* What comes of a request nobody can read.
Refused == [method |-> "GET", uri |-> <<"/", "a">>, status |-> "bad_request"]

(***************************************************************************)
(* How it is written: the digits of a number; a header's value as the        *)
(* lines it is folded into, each continuation with its white space.        *)
(***************************************************************************)
Versions == {<<"1">>, <<"0", "1">>, <<"1", "0">>, <<"2", "0", "0">>}
Folds == {<<>>} \cup {<<[lws |-> l, text |-> t]>> : l \in {<<"SP">>, <<"HT", "SP">>}, t \in {<<>>, <<"T", ":">>}}
SentHeader == [name : {<<"H">>, <<"P", "1">>}, first : {<<>>, <<"1", "SP">>}, folds : Folds]
OneVersion == <<"1">>

Full(targets, majors, minors, headers, more) ==
  [target : targets, major : majors, minor : minors, headers : headers, more : more, shape : {"full"}]

\* Every layout of one request, and every request in one layout, with something
\* after it or nothing: the client may send another request without waiting.
Intended ==
  Full({OneTarget}, Versions, {OneVersion}, BoundedSeq(SentHeader, MaxHeaders), {<<>>})
  \cup Full({OneTarget}, {OneVersion}, Versions, BoundedSeq(SentHeader, 1), {<<>>})
  \cup Full(Targets, {OneVersion}, {<<"0">>}, {<<>>}, {<<>>, <<"POST", "SP">>})
  \cup [target : {Refused}, more : {<<>>, <<"POST">>}, shape : {"garbled"}]
  \cup (IF Simple THEN [target : {OneTarget}, more : {<<>>}, shape : {"simple"}] ELSE {})

-----------------------------------------------------------------------------
(***************************************************************************)
(* The reply to what is meant, told without going through the stream.      *)
(***************************************************************************)
\* The insertions of a handler, with their places.
Places(handler) == {<<s, i>> \in (1..Len(handler.statements)) \X (1..3) : i <= Len(handler.statements[s])}
At(handler, p) == handler.statements[p[1]][p[2]]

\* A manipulator works when only manipulators are before it in its statement.
Works(handler, p) ==
  /\ handler.param = "response_stream"
  /\ \A i \in 1..p[2] : At(handler, <<p[1], i>>).kind \in Manipulators

Later(p, q) == p[1] > q[1] \/ (p[1] = q[1] /\ p[2] > q[2])

LastOf(handler, kind, default) ==
  LET places == {p \in Places(handler) : At(handler, p).kind = kind /\ Works(handler, p)}
  IN  IF places = {} THEN default
      ELSE At(handler, CHOOSE p \in places : \A q \in places : ~Later(q, p)).arg

Value(params, key) == IF key \in DOMAIN params THEN params[key] ELSE <<>>

Body(handler, given) ==
  LET piece(p) == LET ins == At(handler, p)
                  IN  CASE ins.kind = "text" -> ins.arg
                        [] ins.kind = "resource" -> Value(given.resources, ins.arg)
                        [] ins.kind = "query" -> Value(given.querystring, ins.arg)
                        [] OTHER -> IF Works(handler, p) THEN <<>> ELSE <<"1">>
  IN  FlattenSeq([s \in DOMAIN handler.statements |->
        FlattenSeq([i \in DOMAIN handler.statements[s] |-> piece(<<s, i>>)])])

Expected(target) ==
  IF "status" \in DOMAIN target THEN StockReply(target.status)
  ELSE IF "reply" \in DOMAIN target THEN target.reply
  ELSE LET handler == UserHandler[target.call.id]
           content == Body(handler, target.call.given)
       IN  [status |-> LastOf(handler, "status", "ok"),
            headers |-> <<Header("Content-Length", <<ToString(Len(content))>>),
                          Header("Content-Type", <<LastOf(handler, "content_type", "text/plain")>>)>>,
            content |-> content]

Fails(target) == "call" \in DOMAIN target /\ UserHandler[target.call.id].throws

\* The requests, as Client has them; a method is one byte here.  One that is not full
\* has neither version nor headers, whatever its layout says.
AsRequest(r) ==
  LET full == r.shape = "full"
  IN  [shape  |-> r.shape,
       layout |-> [method |-> <<r.target.method>>, uri |-> r.target.uri,
                   major |-> IF full THEN r.major ELSE OneVersion, minor |-> IF full THEN r.minor ELSE OneVersion,
                   headers |-> IF full THEN r.headers ELSE <<>>],
       more   |-> r.more,
       fate   |-> IF r.shape # "full" THEN StockReply("bad_request")
                  ELSE IF Fails(r.target) THEN NoReply ELSE Expected(r.target)]

AllRequests == {AsRequest(r) : r \in Intended}

-----------------------------------------------------------------------------
\* README.md names RFC 1945, whose servers recognise the requests without a version:
\* GET, a space, the uri, and the end of the line.
SimpleRequestAccepted == intended.shape = "simple" => result # "bad"

=============================================================================
