--------------------------------- MODULE Reply ---------------------------------
(***************************************************************************)
(* reply: the statuses a reply may have, the stock replies, and the order  *)
(* in which a reply goes to the network.  A text is a sequence of atoms;   *)
(* the body of a stock reply is one atom, the status it speaks of.         *)
(***************************************************************************)
EXTENDS Naturals, Sequences, SequencesExt

Status == {
  "ok", "created", "accepted", "no_content", "multiple_choices", "moved_permanently",
  "moved_temporarily", "not_modified", "bad_request", "unauthorized", "forbidden",
  "not_found", "internal_server_error", "not_implemented", "bad_gateway",
  "service_unavailable", "gateway_timeout", "http_version_not_supported"}

\* stock_replies::to_string: the last two statuses have no case of their own.
StockBody(status) ==
  CASE status = "ok" -> <<>>
    [] status \in {"gateway_timeout", "http_version_not_supported"} -> <<"internal_server_error">>
    [] OTHER -> <<status>>

Header(name, value) == [name |-> name, value |-> value]

\* What every reply with a body of its own starts with.
Described(content, type) ==
  <<Header("Content-Length", <<ToString(Len(content))>>), Header("Content-Type", <<type>>)>>

StockReply(status) ==
  [status  |-> status,
   headers |-> Described(StockBody(status), "text/html"),
   content |-> StockBody(status)]

\* to_buffers
Wire(rep) ==
  <<rep.status>>
  \o FlattenSeq([k \in DOMAIN rep.headers |->
       <<rep.headers[k].name, ": ">> \o rep.headers[k].value \o <<"CRLF">>])
  \o <<"CRLF">> \o rep.content

=============================================================================
