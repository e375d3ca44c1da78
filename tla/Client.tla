--------------------------------- MODULE Client ---------------------------------
(***************************************************************************)
(* A connection whose client sends one request, and then what it likes.    *)
(* The client knows what it means: a layout for the parser, whose method   *)
(* and uri say what the resources are to make of it, and what that is.     *)
(***************************************************************************)
EXTENDS Connection

CONSTANT
  Requests  \* what clients send: a shape and a layout, what they send after it, and
            \* its fate, the reply that is due or NoReply when its handler throws

\* Of a simple or a garbled request only the method and the uri are sent.
Render(r) ==
  LET head == r.layout.method \o <<"SP">> \o r.layout.uri
  IN  CASE r.shape = "full"    -> P!Laid(r.layout)
        [] r.shape = "simple"  -> head \o <<"CR", "LF">>
        [] r.shape = "garbled" -> head \o <<"SP", "H", "T", "P">> \o <<"CR", "LF", "CR", "LF">>

ASSUME ClientAssumption ==
  /\ IntMax \in Nat /\ AfterOverflow \subseteq Int
  /\ \A r \in Requests : /\ r.shape \in {"full", "simple", "garbled"}
                         /\ P!WellFormed(r.layout)
                         /\ Render(r) \in Seq(Char) /\ r.more \in Seq(Char)

VARIABLE intended  \* the request the client sends

ClientInit == intended \in Requests /\ ConnectionInit(Render(intended) \o intended.more)

ClientNext == ConnectionNext /\ UNCHANGED intended

ClientSpec == ClientInit /\ [][ClientNext]_<<cvars, intended>>

\* The client sends its request to the end, and the thread runs.
LiveClientSpec == ClientSpec /\ WF_<<cvars, intended>>(Progress /\ UNCHANGED intended)

-----------------------------------------------------------------------------
(***************************************************************************)
(* What the resources make of a method and a uri, without any connection.  *)
(***************************************************************************)
Fate(method, uri, s) ==
  IF s[1].kind = "static" THEN StaticAnswer(method, uri, s[2].file)
  ELSE IF UserHandler[s[1].id].throws THEN NoReply
  ELSE Replied(UserHandler[s[1].id], s[2])

Fates(method, uri) ==
  (IF Paths(uri) = {} THEN {StockReply("bad_request")} ELSE {})
  \cup (IF Unmatched(method, uri) = {} THEN {} ELSE {StockReply("not_found")})
  \cup {Fate(method, uri, s) : s \in Served(method, uri)}

\* Nothing that is no request comes as far as the resources.
Due(r) == IF r.shape = "full" THEN Fates(r.layout.method, r.layout.uri) ELSE {StockReply("bad_request")}

\* Clients know what the resources make of their requests.
Foreseen == \A r \in Requests : Due(r) \subseteq {r.fate}

-----------------------------------------------------------------------------
Broken == phase \in {"read_failed", "write_failed", "dropped"}

\* What is on the wire when the connection breaks is the start of the reply, and not
\* all of it.
Part(rep) == wire = <<>> \/ \E n \in 0..(Len(Wire(rep)) - 1) : wire = SubSeq(Wire(rep), 1, n)

\* The client gets the reply to the request it meant, whatever pieces its bytes
\* are read in and whatever comes after them, and gets it once; when the handler
\* throws it gets nothing.
ReplyIsExpected ==
  CASE phase \in {"written", "finished"}    -> wire = Wire(intended.fate) /\ intended.fate # NoReply
    [] phase = "abandoned"                  -> wire = <<>> /\ intended.fate = NoReply /\ reply = NoReply
    [] phase \in {"write_failed", "dropped"} -> Part(intended.fate)
    [] OTHER                                -> wire = <<>>

\* No well-formed request is refused, and none is taken before its last byte, when
\* the request handed over is the one the client meant.
WellFormedAccepted ==
  intended.shape = "full" =>
    /\ result # "bad"
    /\ result = "good" => consumed = Render(intended) /\ P!Means(intended.layout, request)

\* Every request, well-formed or garbled, comes to its end, with a reply or with the
\* exception of its handler, unless the connection breaks: neither the parser nor
\* the connection waits for more.
WellFormedAnswered == <>(phase \in {"finished", "abandoned"} \/ Broken)

=============================================================================
