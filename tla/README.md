# f16 in TLA+

f16 is an HTTP/HTTPS server: a C++17 library on top of asio (`src/lib`) and an
executable that serves static files and redirects from a configuration
(`src/server`). This directory holds its specification: modules that model the
code, instances that TLC checks, and proofs that TLAPS checks.

    tlc -config https_faults.cfg MCHttpServer      # one run
    tlapm HttpServerProofs.tla                     # one module of proofs

## 1. The system

Everything runs on one `asio::io_context` that one thread drives, so a completion
handler is never interrupted. What interleaves is the order of the handlers of
different connections, what the kernel reports between two of them, the signal,
and what other programs do to the files.

| component | state | operations | hard part |
|---|---|---|---|
| `http_server` | `acceptor_`, and the members below | `listen`, `do_accept`, destructor | the accept chain must survive errors; handlers queued when the server goes |
| `https_server` | `ssl_context_` | constructor, `create_connection` | the constructor throws on a file it cannot use |
| `connection_manager` | `connections_` | `start`, `stop`, `stop_all` | it owns every live connection |
| `base_connection`, `plain_connection`, `ssl_connection` | `socket_`, `buffer_`, `request_`, `reply_` | `start`, `do_handshake`, `do_read`, `do_write`, `stop` | a chain of handlers that must neither break nor fork |
| `request_parser` | `state_`, the request | `parse`, `consume`, `reset` | input cut anywhere; folded headers |
| `path_router` | `resources` | `add`, `operator()` | order of resources; the decoded path |
| `dynamic_content`, `request`, `response_stream` | the user's handler, the stream it writes to | `serve_if_match`, the manipulators | parameters of path and query; handlers that throw; what a manipulator applies to |
| `static_content` | `doc_root` | `serve_if_match`, `serve_file`, `list_directory` | the files change under it |
| `url_decode`, `split_string`, `match_pattern` | none | pure | boundaries |
| `reply` | status, headers, content | `stock_reply`, `to_buffers`, `status_from_string` | `Content-Length`, one page per status |
| `mime_types` | a table | `extension_to_type` | |
| f16 `main()` | the servers, the io_context, the signals | set-up, the loop around `run()`, unwinding | exceptions, signals, order of destruction, several servers |
| the "return" handler of `main.cpp` | the section of the configuration | one lambda | variables; the missing host |

How they meet: the accept handler creates a connection and gives it to the
manager; the connection reads, feeds the parser, and calls the request handler
(a `std::function`: a `path_router`, the "return" lambda or a user's) when it says
*good*; the handler fills `reply_`; the connection writes it and stops through the
manager. `main()` owns the servers and, before them, the io_context.

## 2. The modules

| module | models | lines of it that matter |
|---|---|---|
| `HttpServer` | acceptor, manager, connections, operations, destruction | `http_server.cpp`, `connection_manager.cpp`, `base_connection.hpp`, `ssl_connection.cpp` |
| `Exchange` | what a server promises a client; `HttpServer` implements it | (abstract) |
| `F16Main` | `main()` around an `HttpServer`: signal, exceptions, unwinding, fairness | `main.cpp` |
| `F16Servers` | a configuration of several servers, from reading it to the exit code | `main.cpp`, `https_server.cpp`, `request_handler.cpp` |
| `RequestParser` | the automaton, byte by byte | `request_parser.cpp`, `.hpp` |
| `Url`, `Pattern` | `url_decode`; `split_string`, `match_pattern` | `url.cpp`, `string.hpp` |
| `PathRouter` | `add` and `operator()`, with what resources are given | `path_router.*`, `dynamic_content.cpp`, `static_content.cpp` |
| `DynamicContent` | the reply of a user's handler | `dynamic_content.*`, `request.hpp` |
| `Connection` | one connection from bytes to bytes: parser, router and handlers together; implements `HttpServer` | `base_connection.hpp`, and through the others |
| `Client` | a connection whose client sends one request and knows what it means by it | `base_connection.hpp`, and through the others |
| `StaticContent` | one static request against files that change | `static_content.cpp` |
| `Reply`, `ReturnHandler` | stock replies and the wire; the handler of a "return" section | `reply.*`, `main.cpp` |
| `MC*` | instances for TLC, reference definitions and generators of inputs | |
| `*Proofs` | theorems about the module they extend | |
| `Listing` | the members of a set of numbers, by rank | (reference definitions) |
| `SequenceLemmas` | induction and recursion on a measure; `FlattenSeq`, the first place of a value, the members of a set in their order | (library) |

**HttpServer.** A step is a whole completion handler, with the calls it makes: the
handler of a write that succeeded is `WriteDone`, which is `shutdown`, the erasure
from the manager and the `close` of the socket, in one step, with the
cancellation of whatever is pending on that socket. An operation is a record in
`ops` (its connection, its kind, its completion code, or "pending"); `Complete` is
the reactor giving it a code, after which its handler is queued. A closed socket
aborts the operations that are pending and leaves alone those that already have
their code: that is why a handler may run on a connection that has been stopped.
`accept` is the accept operation: waiting, failed, aborted, or completed with the
socket of a connection. The parser and the request handler appear by their
outcome (`ReadMore`, `ReadBad`, `ReadGood`, `ReadGoodThrows`). The constant
`Faults` says which calls throw: the factory of the connection, the request handler.
The server may be destroyed between any two handlers, while the io_context goes
on running, as the interface of the library allows; a handler that then uses a
member of the server sets `dangling`, and the model stops there, since what
follows is undefined.

**F16Main** EXTENDS it and restricts it: kernel and handlers act only inside
`run()`, the server is destroyed only when `main()` unwinds. Its `signal` and
`main` are the signal set and the program counter of `main()`. Anything else on
the io_context may throw as well (`OtherThrows`).

**F16Servers** instantiates `F16Main` twice over one `main` and one `signal`. The
configuration is chosen in the initial state, each entry with at most one
`Defect`; `ReadEntry`, `CreateServer`, `SetHandler` and `ListenAndKeep` are the body of the loop of
`build_advanced_server`, and `BuildThrows` is its exception at any of them. A server
without a section has an empty `std::function`: its handler only throws (`Answers`).
`Implements` says that to each server this is the `main()` of `F16Main`.

**Exchange** has no acceptors, handlers or sockets: a connection is taken, its
answer decided, then delivered, or it is lost. The refinement mapping (`Phase` and
`Answer` in `HttpServer`) reads the phase off the socket and `reply_`.

**RequestParser.** `Branches` has one row for each branch of `consume()` that does
not return *bad*; a byte no row takes is rejected. A byte is the class of
characters it stands for. Header folding is a row of its own (`FoldBranch`),
there only once a header is. The version
numbers are ints of a given width, and what they hold after an overflow is any of
`AfterOverflow`. `Denotes` says without the automaton which request a text is: with the folds taken
out, wherever they are (`Unfolded`, by places), the text is the request written down on lines of its own
(`Written`), and the version numbers are those of the digits unless they overflow (`Counts`). `GoodIsFaithful` compares that with
what the automaton has collected; as the fields are clean, a text denotes one request at most. `Laid` goes the other way: a `Layout` is a request as clients write it, the digits of its version
and the lines each value is folded into; `WellFormed` says which of them RFC 1945 has, `Means` what such a one
means, and `Accepts` what the parser is to make of its text, byte by byte.

**Url, Pattern.** `UrlDecode` and `MatchPattern` are recursive functions that return
a set: one result, or none when the code returns false. Both have references that work on the
whole text instead of going through it: `Character` and `CharacterPlaces` in `PathRouter` say where the
characters of a uri are and what each spells, `BySegments` what a location takes from a path, segment by
segment: `match_pattern` knows no segments, it goes from one character to the next.

**PathRouter.** `resources` is the sorted vector of each method. `Sorting` is any
arrangement by decreasing length, for `std::sort` is not stable. Routing ends in
`BadRequest`, `NotFound` or `Serve`; what the resource is given (a file name, or the
parameters) is part of the step.

**DynamicContent.** A handler is the list of the statements it executes, each a
chain of insertions, and whether it throws at the end. `Insert` knows two types of
stream: a manipulator works on a `response_stream`, and every other insertion
returns a `std::ostream`, which prints a manipulator as a bool.

**Connection.** The bytes of a client arrive in pieces of any size; `ParseByte` is the
`consume` of `RequestParser`, and on *good* the operators of `PathRouter` and `DynamicContent`
give the reply, or the files of a static resource do (`StaticReply`): these stay as they
are, what happens when they change is `StaticContent`. Either side may break. `ImplementsHandlers` maps it to `HttpServer` with one
connection: what is an outcome there is explained here.

**Client** EXTENDS it with what the client means: a request of `Requests` has a shape (a full request,
or one that no parser of this kind reads), a layout, what the client sends after it, and its fate, the
reply that is due, or `NoReply` when its handler throws. `Fates` says what the resources make of a
method and a uri when there is no connection in between. `MCConnection` has the requests of the runs:
it chooses what is meant first (`Intended`: a call of a handler, a file, a refusal), has its own account of the
reply to that (`Expected`), and writes each in every layout.

**StaticContent.** Each question to the file system is a step, because other
programs act in between (`Replace`, `Rewrite`). A file is a sequence of the blocks
the 512-byte buffer takes. An open file stays what it was when its name is given
to another, and changes when it is written over in place. A question may throw
(`QuestionThrows`); reading may fail halfway, which the code does not tell from
the end (`EndOfFile`). `is_regular_file()` refuses what is no file, but it is asked before the file is
opened: by then the name may belong to a directory, which opens and reads as empty (`Open`), to a
socket, which does not open (`OpenFails`), or to a named pipe or a device (`OpenPipe`). From there on
the thread goes on only when another program writes into the pipe or closes it (`ReadPipe`, `EndOfPipe`).

**ReturnHandler.** The loop over the headers of the section, an entry at a time,
with the early return for a missing `Host` and the exception for a value that is
no string.

## 3. The runs

| run | question | bounds |
|---|---|---|
| `https_faults` | life cycle of TLS connections, every fault, destruction at any time | 3 connections, symmetric |
| `f16_main` | the executable exits when signalled, cleanly; a client that makes progress is served whatever another one does | 2 connections, 1 of them stalling |
| `f16_servers` | what two servers in one process mean to each other, and what a defective entry means to the rest | 1 connection each, 2 ports, 6 defects |
| `f16_destructor` | *violation*: the destructor does not wait for what it cancels | 2 connections |
| `parser_bytes` | any text: clean fields, nothing lost or invented | each state takes one byte more than it needs (names one); a request line and 2 more, which follow one request line only |
| `connection` | a request, written in any way and read in any pieces, gets the reply it should | 2 headers, 1 fold each; a buffer of 2 bytes; 4 handlers, 4 files |
| `simple_request` | *violation*: a request line without a version is refused | 1 request |
| `router` | who serves, and with what, for every order of additions; `url_decode` is exact, `match_pattern` is what it says | 3 resources, 2 tokens after the first slash; uris of 6 characters; patterns of 3 segments, paths of 7 characters |
| `static_content` | the reply while files change | files of 2 blocks, 2 blocks from a pipe, 2 changes |
| `return_handler` | the handler of a "return" section | 2 entries, 2 headers |
| `return_stock` | *violation*: the pages of 504 and 505 are never used | 1 entry |
| `return_head` | *violation*: HEAD gets a body | 1 entry |

Why the bounds are enough. *Connections*: they meet only in the acceptor, in the
manager and in the destructor; three are one in the acceptor, one managed and one
that is on its way out, and the theorems cover any number. *Parser*: a state
either leaves after a byte or repeats; one repetition tells the two apart, and
two lines after the first are a header with its fold, or two headers. The width of
an int is scaled down to the digits of the texts (`IntMax` is 58 or 64, so that the
second or third digit overflows). *Servers*: two meet only in `main()`; one client of
either is enough for a handler to throw or wait. *Reads*: a buffer of two bytes
cuts a request at every place and fills with the end of one and the start of the next. *Url and patterns*: six characters hold two
escapes, whole or cut; three segments have a parameter first, in the middle, last
and twice. *Router*: of three resources two have the same location, or lengths in
every order. *Files*: two changes make a file vanish and come back, or two
versions of it mix; two blocks are what mixing takes. *Return*: two entries put
the missing host first or last; two headers make one hide the other.

All runs have `CHECK_DEADLOCK FALSE`, because all of them do come to an end: a
request is answered, a text is consumed, `main()` has exited, or every one of the
bounded connections is over.

### Properties

- *Ownership* (`OwnsLiveConnections`, `NoConnectionForgotten`, `AbortedIsUnmanaged`):
  an open socket is managed or still with the acceptor; a managed connection has
  an operation that will come back to it; the handlers that ignore
  `operation_aborted` never ignore it for a managed connection.
- *The chain* (`OneOperation`, `ReplyStable`, `NoReplyCutShort`, `KeepsAccepting`).
- *All of these at once*, with the type invariant and what makes them inductive (`Inv`).
- *Refinement* (`ImplementsExchange`).
- *Life and death of the program* (`NoUseAfterDestroy`, `CleanExit`,
  `ExitsWhenSignalled`, `EveryConnectionEnds`, `EveryClientTaken`).
- *Several servers* (`AllOrNothing`, `TakenWhenComplete`, `ExitCode`, `Implements`,
  `ExitsWithServers`, `SecondServes`).
- *Parsing* (`HeaderIsThere`, `FieldsAreClean`, `GoodIsFaithful`, `WellFormedAccepted`).
- *From bytes to bytes* (`ReplyIsExpected`, `WellFormedAnswered`, `ImplementsHandlers`).
- *Routing* (`DecodeIsExact`, `MatchIsBySegments`, `MostSpecific`, `Contained`,
  `HandlerSeesRequest`; `RouterInv` is the type invariant).
- *Replies* (`QuietReply`, `LengthIsTrue`, `WholeVersion`, `RequestEnds`,
  `MissingHostIsBad`, `HeadersAreFilled`, `Framed`). `RequestEnds` does not say that every static
  request ends: it says that a request which does not end is at a pipe or device that took the name between
  `is_regular_file()` and the opening, and stays there, as long as others change the files finitely often.

### Fairness

`ThreadFairness` (`F16Main`): the main thread goes on (`WF` on `Control`), and the
scheduler of asio takes handlers in FIFO order, so one that is queued runs unless
`run()` is stopped. It is strong fairness, because an exception takes `main()` out
of `run()` for a moment and disables every handler. `ExitsWhenSignalled` needs no
more: clients may stall. `ClientFairness` is what the code cannot
provide, having no timeout: operations complete, requests end, the kernel does
not fail to accept for ever. It is asked of the clients in `Prompt` only, strongly,
for a step of the kernel that is open to a client is interrupted by exceptions of
the others. `EveryConnectionEnds` and `EveryClientTaken` are about those clients, next to
one that stalls at any point, whose requests make handlers throw. `EveryClientTaken` excepts a
server whose `create_connection` threw: the accept chain is broken for good
(`KeepsAccepting` says when). `F16Servers` has the same fairness, of the one thread
and of the handlers of either server. In `StaticContent` the server takes
its next step (`WF` on `ServerStep`: a question to the file system, and a read from a file, returns);
other programs need not, so a read from a pipe may never return (`ReadPipe` and `EndOfPipe` have no fairness).
In `Client` the client sends its request to the end and the thread runs
(`WF` on `Progress`); connections may break.

### Disagreements

- `http_server.hpp` says the destructor exits once all operations have finished.
  It does not wait (`f16_destructor`). In the executable it is harmless, since
  nothing is dispatched any more: `NoUseAfterDestroy` and `CleanExit` hold and are
  proved. A program that destroys a server and runs the io_context on is not safe.
- `README.md` says HTTP/1.0 (RFC 1945) is supported; the parser refuses the requests without
  a version that RFC has (`simple_request`).
- `reply.cpp` has pages for 504 and 505 that `to_string` never returns
  (`return_stock`).
- `README.md` names the HEAD of RFC 7231; only static content leaves the body out
  (`return_head`; dynamic content, `dynamic_content.cpp:34-44`, and the 404 and 400 of the router do the same).

## 4. The proofs

TLAPS checks these for every value of the constants: any set of connections,
TLS or not, any faults; two servers of any configuration; any alphabet of the parser
and any width of its ints; any bytes of a client, requests, resources and handlers behind a
connection; any locations, uris and number of resources; files of any size and any number of changes to them;
any "return" section and any request, with any number of headers.

| theorem | module | says |
|---|---|---|
| `TypeCorrect`, `Invariance` | `HttpServerProofs` | the type invariant, the inductive invariant |
| `LiveConnectionsAreOwned`, `NoneIsForgotten`, `OperationsAreSingle`, `AbortedAreUnmanaged`, `AcceptingGoesOn` | `HttpServerProofs` | the safety invariants of `https_faults` |
| `RepliesAreStable`, `RepliesAreNotCutShort` | `HttpServerProofs` | the two action properties |
| `Refinement` | `HttpServerProofs` | `Spec => E!Spec`, initial state and every step |
| `MainRefines` | `HttpServerProofs` | the executable is an `HttpServer`: all of the above carries over |
| `MainTypeCorrect`, `ServerOutlivesHandlers`, `ExitIsClean` | `HttpServerProofs` | types; no handler runs against a destroyed server; nothing is left at exit |
| `ServersImplement` | `F16ServersProofs` | with several servers each one is an `F16Main`: its theorems carry over |
| `AllServersOrNone`, `NoneTakenEarly`, `ExitCodeIsTrue` | `F16ServersProofs` | the safety properties of `f16_servers` |
| `ParserTypeCorrect`, `HeaderAlwaysThere`, `FieldsAlwaysClean`, `GoodIsAlwaysFaithful` | `RequestParserProofs` | the states of `consume`, `headers.back()`, the fields of the request, and that it is the one the text denotes |
| `WellFormedIsAccepted` | `RequestParserProofs` | every well-formed request, in any layout, is taken at its last byte and not before, as what it means |
| `ConnectionImplementsHandlers` | `ConnectionProofs` | a `Connection` takes only the steps `HttpServer` has for one |
| `RequestsAreUnderstood` | `ConnectionProofs` | `WellFormedAccepted`: so it is behind any reads, whatever the client sends next |
| `RepliesAreExpected` | `ConnectionProofs` | `ReplyIsExpected`: the wire gets the reply the resources have for the request that was meant, once |
| `ClientInvariant`, `ClientImplementsHandlers` | `ConnectionProofs` | the inductive invariant; a client of one request is a client of `Connection` |
| `RoutesAreSorted`, `RoutingIsMostSpecific`, `FilesAreContained`, `HandlersSeeRequest`, `DecodingIsExact`, `MatchingIsBySegments` | `PathRouterProofs` | the properties of `router` |
| `MissingHost400`, `HeadersFilled`, `RepliesFramed` | `ReturnHandlerProofs` | the three safety properties of `return_handler` |
| `VersionsAreWhole`, `LengthsAreTrue`, `QuietRepliesAreExpected` | `StaticContentProofs` | the three safety properties of `static_content` |

*HttpServer.* No safety invariant is inductive alone. That a managed
connection has an operation says nothing of two operations; that there is only
one says nothing of whose socket it is. `Inv` adds `AcceptorInv` (when there is an
accept operation, when the manager is empty), `OwnershipInv` (the connection of
every operation is managed while the server lives, and is never the one in the
acceptor's hands; managed means open) and `ExchangeInv` (a write is under way
exactly for connections that have a reply; a finished socket has no operation). One lemma per
action shows that it preserves `Inv`. The action properties and the refinement
follow from `Inv` and one step.

*F16Main.* `MainInv` relates `main` to `server`: the server is destroyed only after the loop. With it each step of `main()` is a
step of `HttpServer` or none, so `MainSpec => Spec`.

*F16Servers.* The refinement needs no invariant: a step of one server is a stutter of the
other, or the exception that `F16Main` has as `OtherThrows`. The safety properties follow from
`ServersInv`: `BuildInv` counts the ports against the entries that are done and has a
listening server for each; `TakenInv` keeps the sockets of the first server closed until the last
entry is done; `CodeInv` relates the exit code to where `main()` is.

*Connection.* The mapping is in `Connection` (`H`): the completion codes are read off `phase`, and
what the handlers do with the bytes is inside the read handler. A reply is mapped to
*none* until the handler decides, so `ReplyInv` says that `reply_` is empty while reading and
parsing; that none taken later is mistaken for it rests on every reply having headers.
`ClientInv` is what `RequestsAreUnderstood` and `RepliesAreExpected` follow from. `Stream`: what the parser has consumed, the buffer and
the unread bytes are in this order what the client sends, and no byte after the one that decides the request is
consumed. `Parsed`: the parser is on the way of the request that is meant, or has decided it (`Followed` of
`RequestParserProofs`). `Delivered`: what has gone out is a part of a reply that is due. Without `Stream` the
parser could be on the way of another text; without `Parsed` nothing relates the request it hands over
to the one that was meant. That a reply is due (`Due`) comes from the request handed over having the method and the uri that
were meant (`RepliesAreDue`). `RepliesAreExpected` has the hypothesis `Foreseen`, that the fate of each request is what the
resources make of it: what a handler or a tree of files computes is their own affair, and the theorem is about what is between them and the client. For the
requests of `MCConnection`, whose fates are told without these operators, `Foreseen` is what the run shows: it reaches
every reply that is due, and finds it to be the fate.

*RequestParser.* `Rows` and `Targets` state once what each row of the table does; the
first three theorems need, beyond the type invariant, that a header is there in the
states that write to one, and that the last one has a name.
`GoodIsAlwaysFaithful` has the invariant `FaithInv`: while a text is being read, it is, unfolded, the part of `Written`
that the state has come to (`Held`). It has two halves. `Unfolding` relates the bytes taken to the unfolded
text: a byte is kept unless a fold takes it (`TakesByte`, `TakesFold`), and the byte that opens
a fold takes back the line break before it (`OpensFold`), which until then was the end of a header.
`Told` says, for each state, how the unfolded text divides into the fields; there is one lemma for each group of rows
of the table (`MethodRow` to `ValueEnds`), and the row of the fold takes the end of the line back (`FoldOpens`).
That a number is the one of its digits is `CountsMore`: if the last digit does not overflow, none before it did.
`WellFormedIsAccepted` goes from the request to the text. A configuration is a state and a request; `Leads(C, text, D)` says that
from all of the configurations in C the parser takes every byte of the text, and is in D then, whatever an
overflow leaves. Such texts follow each other (`LeadsOn`), so there is one lemma for each part of a request: `LeadsMethod`,
`LeadsUri`, `LeadsMajor`, `LeadsName`, `LeadsFold`, up to all of it but its last byte (`LeadsUpto`). Parts that repeat, the bytes of
a field, the folds of a value and the headers, go by induction on how many there are. A text `Settles` what comes of it if
it leads somewhere and one byte more decides; `Followed` is the invariant that ties
this to a behaviour: while the bytes consumed begin the text, the parser is where the text leads. The same is used for the requests
that are refused (`SimpleIsRefused`, `GarbledIsRefused`).

*PathRouter.* `RoutesInv` adds to `RouterInv` that the ids count the additions, so that a
new resource is none of those before. `std::sort` is any bijection of the indices that
sorts (`SortingKeeps`). That the first handler that matches exists when any does is the
least element of the indices that match (`FirstMatches`, from the well-foundedness of `<` on
the naturals); being first in a sorted vector, its location is the longest. `FilesAreContained`
needs that what is cut off a path has `..` only where the path has it
(`CutKeepsOutDots`), and that `relative_path()` takes every leading slash (`RelativeIsBare`).
`HandlersSeeRequest` reasons about three recursive functions. `url_decode`, `match_pattern` and the split of
the query are each read as one turn of the loop at a place (`DecodesFrom`, `MatchFrom`, `QueryFrom`), over what the
function is at later places; `UrlDecodeDef`, `MatchPatternDef` and `QueryParametersDef` say that the function
exists and is that. `Restores` is the claim by induction for a match from two places on: the
parameters it has taken are no more than the pattern names there, and when they are as many, filling
them in gives back the rest of the path but for a slash. `Tells` is the claim for a query: the
names are those of the pieces from a cut on, the values those of the last of each name.
`DecodingIsExact` compares `url_decode` with the list of the places where a character begins, which no
loop finds: `Exact` is the claim from one place on, `UnitIsCharacter` that a turn of the loop takes exactly one of
these places, `ListsMore` that the least of a set comes first in the list of it.
`MatchingIsBySegments` follows `match_pattern` with the segments of the rest of the location and of the
rest of the path (`Meant`), by induction on what is left of the location. There is one lemma for each way to go on: a slash is a
segment more on both (`AgreesFollowing`), another character is a character more in the first of both
(`AgreesMore`), a parameter takes the first of the path (`AgreesTaking`); one for each place where the two differ, and
one for the end. That a parameter is read up to the next slash and a segment ends there is all that the two have in
common.

*StaticContent.* `StreamInv` says that what has been read is the beginning of the open
file, and that this file had the name at some moment of the request: replacing
a name leaves the open file alone, which `VersionsAreWhole` rests on.
`QuietInv` says what the answers so far have told (at `open` the path is a
file, at `list` a directory without an index); it holds while nothing changes,
and `QuietRepliesAreExpected` follows from it. `LengthsAreTrue` needs
neither: one function measures the body on every path.

*ReturnHandler.* `HandlerInv` says what the loop has done when it is at an entry: the reply is
the stock one with the headers of the entries before, each filled in from the request (`Served`),
and none of these entries lacked its host; when the handler has returned, either all
entries are in, or the reply is `BadReply` and some entry asked for a host that is not there. The
first two theorems compare that with the reference (`HostSent`, the first header that is called
host, chosen by its place instead of looked up). `RepliesFramed` walks the reply on the
wire: `to_buffers` is a concatenation of blocks (`FlattenConcat` says at which index each
begins), no block of a header is empty, so the first empty line is the one before the body.

*SequenceLemmas.* `FlattenSeq` and `SeqOf` come with recursive definitions, and the induction
theorems of the library take a predicate as a parameter. `Induction` and `InductionTo` say the
same of a set of naturals, from the well-foundedness of `<` (`LeastNatural`): a set that has 0 and,
with each number, the next, has them all. `MeasureInduction` is the same for a set whose elements have a
measure, such as the places left in two texts, and `Recursion` says that a definition whose value at a
point depends on points of smaller measure only has a solution: TLA+ defines a recursive
function as a choice among the solutions, which says nothing until there is one.

The assumptions are those named in the modules (`ServerAssumption`:
`Tls` is a Boolean, `Faults` names calls that exist, connections are not called
like states of the acceptor; `MainAssumption`: the clients that make progress are
connections; `ParserAssumption`: the greatest int is a natural, an overflow leaves some int; `ClientAssumption`: the same, and clients send
bytes, well-formed requests or the two shapes that are refused; `RouterAssumption`: GET is a method,
locations and uris are sequences of characters; `StaticAssumption`:
the bounds are naturals; `HandlerAssumption`: statuses exist, no host or uri of a client has a
line break, which is `FieldsAreClean` of the parser, and a printed length is a text without one).
TLC evaluates each in the runs of its module.

Only model-checked: every liveness property (TLAPS has no liveness under fairness
here), `WellFormedAnswered` among them; and that the fates `MCConnection` foretells are what handlers, files and
routes compute (`Expected` against `Fates`), which is about its particular resources.

## 5. Not modelled

- What TLS settings mean to OpenSSL, the `protocols` of a configuration included (they
  are handed over as flags, to a context for TLS 1.3); `mime_types`; the command line
  and its errors; how JSON is parsed.
- Signals during the set-up: the handler is not installed, and they end the process.
- `close()` throwing, and exceptions that are not `std::exception`.
- Several threads in `run()`: the library does not support them.
- Memory running out on a long request.
- A file that another program appends to as fast as it is read, without end: the loop of `serve_file()`
  goes on with it, and `MaxBlocks` and `MaxChanges` leave that out. Like a read from a pipe that never returns
  (which `StaticContent` has), it holds up the one thread, and so every connection of every server and the exit:
  `HttpServer`, `F16Main` and `F16Servers` take it that a request handler returns or throws.
- Request bodies: nothing reads them. What TCP does to the end of a reply when
  unread input remains at `close()` is the kernel's.
- The text of directory listings; numbers read from parameters.

## 6. Plan

Done: the core (`HttpServer`, `Exchange`, `F16Main`), the parser, routing, static content and
replies; then the composition of one connection from bytes to bytes (`Connection`), files included, and of several servers in one
process (`F16Servers`), the width of the version numbers, dynamic content; the proofs
of section 4.

Left open, *compose*: a `Connection` for each connection of `HttpServer`.
