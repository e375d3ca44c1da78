---------------------------- MODULE DynamicContent ----------------------------
(***************************************************************************)
(* dynamic_content: the reply of a resource whose handler is the user's.   *)
(* The handler writes to a response_stream; a handler is known here by the *)
(* statements it executes, each a chain of insertions                      *)
(*     os << f16::json << "text" << req.resource("x") << ...               *)
(* and by whether it throws in the end.                                    *)
(***************************************************************************)
EXTENDS Reply

(***************************************************************************)
(* An insertion is a text, a parameter of the request, or a manipulator:   *)
(* json, xml and plain set the content type, ok and bad_request the status.*)
(* A handler may take the stream as the std::ostream it is.                *)
(***************************************************************************)
Manipulators == {"content_type", "status"}
Insertion(kind, arg) == [kind |-> kind, arg |-> arg]
HandlerOf(param, statements, throws) == [param |-> param, statements |-> statements, throws |-> throws]

\* request::resource and request::query
Parameter(params, key) == IF key \in DOMAIN params THEN params[key] ELSE <<>>

\* response_stream, as it is given to the handler.
NewStream == [content |-> <<>>, content_type |-> "text/plain", status |-> "ok"]

\* What std::ostream makes of an insertion: a manipulator, being a function, is
\* printed as a bool.
Printed(ins, given) ==
  CASE ins.kind = "text"     -> ins.arg
    [] ins.kind = "resource" -> Parameter(given.resources, ins.arg)
    [] ins.kind = "query"    -> Parameter(given.querystring, ins.arg)
    [] OTHER                 -> <<"1">>

\* Mutant of Insert: manipulators work at any place.
InsertAnywhere(at, ins, given) ==
  IF ins.kind \in Manipulators THEN [at EXCEPT !.stream[ins.kind] = ins.arg]
  ELSE [at EXCEPT !.stream.content = @ \o Printed(ins, given), !.type = "ostream"]

\* One "<<": a manipulator applies to a response_stream only, and any other
\* insertion returns a std::ostream.
Insert(at, ins, given) ==
  IF ins.kind \in Manipulators /\ at.type = "response_stream"
  THEN [at EXCEPT !.stream[ins.kind] = ins.arg]
  ELSE [at EXCEPT !.stream.content = @ \o Printed(ins, given), !.type = "ostream"]

\* The stream when the handler returns.
Written(handler, given) ==
  LET statement(stream, insertions) ==
        FoldLeft(LAMBDA at, ins : Insert(at, ins, given),
                 [stream |-> stream, type |-> handler.param], insertions).stream
  IN  FoldLeft(statement, NewStream, handler.statements)

\* The reply it becomes: assigned after the handler, so not at all if that throws.
Replied(handler, given) ==
  LET stream == Written(handler, given)
  IN  [status  |-> stream.status,
       headers |-> Described(stream.content, stream.content_type),
       content |-> stream.content]

=============================================================================
