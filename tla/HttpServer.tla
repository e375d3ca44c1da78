------------------------------ MODULE HttpServer ------------------------------
(***************************************************************************)
(* The life of the connections of one f16 server: http_server (acceptor,   *)
(* accept chain, destructor), connection_manager (the set that owns the    *)
(* connections) and base_connection with its two subclasses (the chain     *)
(* handshake -> reads -> write -> close of completion handlers).           *)
(*                                                                         *)
(* Everything runs on one io_context driven by one thread, so a step is    *)
(* one whole completion handler, from its first line to its return (or to  *)
(* the exception that leaves it).  What interleaves is the order of the    *)
(* handlers of different connections, what the kernel reports between      *)
(* them, and the moment the program destroys the server.                   *)
(*                                                                         *)
(* The parser and the request handler appear only by their outcome: a read *)
(* is good, bad or indeterminate, and handling a request may throw.        *)
(*                                                                         *)
(* The owner of the server may destroy it between any two handlers and go  *)
(* on running the io_context, which the interface allows; F16Main          *)
(* restricts this module to what the f16 executable does.                  *)
(***************************************************************************)

CONSTANTS
  Conn,    \* the connections clients may open, each at most once
  Tls,     \* TRUE for https_server/ssl_connection, FALSE for http_server
  Faults   \* which calls made by completion handlers may throw

\* The calls whose exceptions leave a completion handler: the factory of the
\* connection object, and the user's request handler (or the router).
Throwing == {"create_connection", "handle_request"}

\* States of the async_accept operation other than "completed with socket c".
AcceptStates == {"none", "waiting", "error", "aborted"}

ASSUME ServerAssumption ==
  /\ Tls \in BOOLEAN
  /\ Faults \subseteq Throwing
  /\ Conn \cap AcceptStates = {}

VARIABLES
  server,       \* "idle" before listen(), "listening", then "destroyed"
  accept,       \* the async_accept operation; c once it completed with c's socket
  connections,  \* connection_manager::connections_
  ops,          \* asynchronous operations whose handler has not run yet
  socket,       \* the socket of each connection, as the process holds it
  reply,        \* base_connection::reply_
  abandoned,    \* history: connections whose handler was left by an exception
  dangling      \* a handler used a member of the destroyed server

vars == <<server, accept, connections, ops, socket, reply, abandoned, dangling>>
acceptor == <<server, accept>>
history == <<abandoned, dangling>>

(***************************************************************************)
(* Asynchronous operations.  An operation is "pending" in the reactor, and *)
(* its handler is queued once it has a completion code.                    *)
(***************************************************************************)
OpKinds == {"handshake", "read", "write"}
Codes == {"pending", "success", "error", "aborted"}
Operation == [conn : Conn, op : OpKinds, ec : Codes]

\* A closed socket is "finished" when it was shut down after the whole reply
\* was written, and "dropped" otherwise.
SocketStates == {"none", "backlog", "open", "finished", "dropped"}
Replies == {"none", "handled", "bad_request"}

TypeOK ==
  /\ server \in {"idle", "listening", "destroyed"}
  /\ accept \in AcceptStates \cup Conn
  /\ connections \subseteq Conn
  /\ ops \subseteq Operation
  /\ socket \in [Conn -> SocketStates]
  /\ reply \in [Conn -> Replies]
  /\ abandoned \subseteq Conn
  /\ dangling \in BOOLEAN

Init ==
  /\ server = "idle"
  /\ accept = "none"
  /\ connections = {}
  /\ ops = {}
  /\ socket = [c \in Conn |-> "none"]
  /\ reply = [c \in Conn |-> "none"]
  /\ abandoned = {}
  /\ dangling = FALSE

\* The code an operation has when it is initiated.  On a closed socket it fails
\* at once, except that a TLS read may find bytes decrypted before.
FirstCodes(c, kind) ==
  IF socket[c] = "open" THEN {"pending"}
  ELSE {"error"} \cup (IF Tls /\ kind = "read" THEN {"success"} ELSE {})

\* What closing the sockets of S leaves of the operations in O: those still
\* pending are aborted, a completion already queued keeps its code.
Cancelled(O, S) ==
  {[o EXCEPT !.ec = IF o.conn \in S /\ @ = "pending" THEN "aborted" ELSE @] : o \in O}

\* socket.close()
Closed(s) == IF s = "open" THEN "dropped" ELSE s

\* socket.shutdown(shutdown_both), errors ignored, ahead of socket.close()
ShutDown(s) == IF s = "open" THEN "finished" ELSE s

-----------------------------------------------------------------------------
(***************************************************************************)
(* The acceptor.                                                           *)
(***************************************************************************)
Listen ==
  /\ server = "idle"
  /\ server' = "listening"
  /\ accept' = "waiting"
  /\ UNCHANGED <<connections, ops, socket, reply, history>>

\* The kernel completes the handshake of a client with the listening port.
ClientConnects(c) ==
  /\ server = "listening"
  /\ socket[c] = "none"
  /\ socket' = [socket EXCEPT ![c] = "backlog"]
  /\ UNCHANGED <<acceptor, connections, ops, reply, history>>

AcceptCompletes(c) ==
  /\ accept = "waiting"
  /\ socket[c] = "backlog"
  /\ accept' = c
  /\ socket' = [socket EXCEPT ![c] = "open"]
  /\ UNCHANGED <<server, connections, ops, reply, history>>

AcceptFails ==
  /\ accept = "waiting"
  /\ accept' = "error"
  /\ UNCHANGED <<server, connections, ops, socket, reply, history>>

\* connection_manager::start: own the connection and start its first operation.
Start(c) ==
  /\ connections' = connections \cup {c}
  /\ \E kind \in {IF Tls THEN "handshake" ELSE "read"} : \E ec \in FirstCodes(c, kind) :
       ops' = ops \cup {[conn |-> c, op |-> kind, ec |-> ec]}

\* The accept handler: create the connection, start it, accept again.
AcceptHandler(c) ==
  /\ server = "listening"
  /\ accept = c
  /\ Start(c)
  /\ accept' = "waiting"
  /\ UNCHANGED <<server, socket, reply, history>>

\* create_connection throws: the socket goes with the unwound handler, and
\* do_accept() is not reached.
AcceptHandlerThrows(c) ==
  /\ "create_connection" \in Faults
  /\ server = "listening"
  /\ accept = c
  /\ accept' = "none"
  /\ socket' = [socket EXCEPT ![c] = Closed(@)]
  /\ UNCHANGED <<server, connections, ops, reply, history>>

\* Mutant of AcceptErrorHandler: an error ends the accept chain.
AcceptErrorReturns ==
  /\ server = "listening"
  /\ accept = "error"
  /\ accept' = "none"
  /\ UNCHANGED <<server, connections, ops, socket, reply, history>>

AcceptErrorHandler ==
  /\ server = "listening"
  /\ accept = "error"
  /\ accept' = "waiting"
  /\ UNCHANGED <<server, connections, ops, socket, reply, history>>

\* The accept handler run after the server's destruction reads acceptor_.
AcceptHandlerDangles ==
  /\ server = "destroyed"
  /\ accept # "none"
  /\ dangling' = TRUE
  /\ UNCHANGED <<acceptor, connections, ops, socket, reply, abandoned>>

-----------------------------------------------------------------------------
(***************************************************************************)
(* The operations of a connection: the reactor completes them, then their  *)
(* handler runs.                                                           *)
(***************************************************************************)
Complete(o) ==
  /\ o.ec = "pending"
  /\ \E ec \in {"success", "error"} : ops' = (ops \ {o}) \cup {[o EXCEPT !.ec = ec]}
  /\ UNCHANGED <<acceptor, connections, socket, reply, history>>

\* The handler of o ends with do_read() or do_write().
Continue(o, kind) ==
  /\ \E ec \in FirstCodes(o.conn, kind) :
       ops' = (ops \ {o}) \cup {[conn |-> o.conn, op |-> kind, ec |-> ec]}
  /\ UNCHANGED <<acceptor, connections, socket, history>>

\* Mutant of Stop: erased from the manager, not closed.
StopWithoutClose(o, s) ==
  /\ server # "destroyed"
  /\ connections' = connections \ {o.conn}
  /\ ops' = ops \ {o}
  /\ UNCHANGED <<acceptor, socket, reply, history>>

\* The handler of o ends with connection_manager_.stop(self), the socket being
\* in state s by then.
Stop(o, s) ==
  /\ server # "destroyed"
  /\ connections' = connections \ {o.conn}
  /\ socket' = [socket EXCEPT ![o.conn] = Closed(s)]
  /\ ops' = Cancelled(ops \ {o}, {o.conn})
  /\ UNCHANGED <<acceptor, reply, history>>

HandshakeDone(o) ==
  /\ o.op = "handshake" /\ o.ec = "success"
  /\ Continue(o, "read")
  /\ UNCHANGED reply

\* Unlike the other handlers, this one does not except operation_aborted.
HandshakeFails(o) ==
  /\ o.op = "handshake" /\ o.ec \in {"error", "aborted"}
  /\ Stop(o, socket[o.conn])

\* Mutant of ReadMore: no do_read() after an incomplete request.
ReadMoreForgotten(o) ==
  /\ o.op = "read" /\ o.ec = "success"
  /\ ops' = ops \ {o}
  /\ UNCHANGED <<acceptor, connections, socket, reply, history>>

\* The parser wants more input.
ReadMore(o) ==
  /\ o.op = "read" /\ o.ec = "success"
  /\ Continue(o, "read")
  /\ UNCHANGED reply

\* Mutant of ReadGood: the write starts with the reply of nobody.
ReadGoodUnanswered(o) ==
  /\ o.op = "read" /\ o.ec = "success"
  /\ server # "destroyed"
  /\ Continue(o, "write")
  /\ UNCHANGED reply

\* The parser has a whole request: the handler fills reply_, the write starts.
ReadGood(o) ==
  /\ o.op = "read" /\ o.ec = "success"
  /\ server # "destroyed"
  /\ reply' = [reply EXCEPT ![o.conn] = "handled"]
  /\ Continue(o, "write")

\* The request handler throws: nothing is written or started any more.
ReadGoodThrows(o) ==
  /\ "handle_request" \in Faults
  /\ o.op = "read" /\ o.ec = "success"
  /\ server # "destroyed"
  /\ ops' = ops \ {o}
  /\ abandoned' = abandoned \cup {o.conn}
  /\ UNCHANGED <<acceptor, connections, socket, reply, dangling>>

\* Mutant of ReadBad: after do_write() it goes on to do_read().
ReadBadFallsThrough(o) ==
  /\ o.op = "read" /\ o.ec = "success"
  /\ reply' = [reply EXCEPT ![o.conn] = "bad_request"]
  /\ \E ec \in FirstCodes(o.conn, "read") :
       ops' = (ops \ {o}) \cup {[conn |-> o.conn, op |-> kind, ec |-> ec] : kind \in {"read", "write"}}
  /\ UNCHANGED <<acceptor, connections, socket, history>>

ReadBad(o) ==
  /\ o.op = "read" /\ o.ec = "success"
  /\ reply' = [reply EXCEPT ![o.conn] = "bad_request"]
  /\ Continue(o, "write")

\* Mutant of ReadFails: closes gracefully a connection that got no reply.
ReadFailsGracefully(o) ==
  /\ o.op = "read" /\ o.ec = "error"
  /\ Stop(o, ShutDown(socket[o.conn]))

ReadFails(o) ==
  /\ o.op = "read" /\ o.ec = "error"
  /\ Stop(o, socket[o.conn])

\* Mutant of WriteDone: no shutdown() before the socket is closed.
WriteDoneAbruptly(o) ==
  /\ o.op = "write" /\ o.ec = "success"
  /\ Stop(o, socket[o.conn])

WriteDone(o) ==
  /\ o.op = "write" /\ o.ec = "success"
  /\ Stop(o, ShutDown(socket[o.conn]))

WriteFails(o) ==
  /\ o.op = "write" /\ o.ec = "error"
  /\ Stop(o, socket[o.conn])

\* operation_aborted: the read and write handlers do nothing.
HandlerAborted(o) ==
  /\ o.op \in {"read", "write"} /\ o.ec = "aborted"
  /\ ops' = ops \ {o}
  /\ UNCHANGED <<acceptor, connections, socket, reply, history>>

\* The handlers that reach connection_manager_ or request_handler_, both members
\* of the server, when the server is gone.  A successful read does so if it
\* completes a request.
HandlerDangles(o) ==
  /\ server = "destroyed"
  /\ o.ec \in {"success", "error"} \/ (o.op = "handshake" /\ o.ec = "aborted")
  /\ ~(o.op = "handshake" /\ o.ec = "success")
  /\ dangling' = TRUE
  /\ UNCHANGED <<acceptor, connections, ops, socket, reply, abandoned>>

-----------------------------------------------------------------------------
(***************************************************************************)
(* The end.  ~http_server closes the acceptor and, through                 *)
(* ~connection_manager, stops every managed connection; ~io_context drops  *)
(* the handlers that have not run, with the sockets they hold.             *)
(***************************************************************************)
\* Mutant of DestroyServer: stop_all() does not clear connections_.
DestroyServerKeeping ==
  /\ server # "destroyed"
  /\ server' = "destroyed"
  /\ accept' = IF accept = "waiting" THEN "aborted" ELSE accept
  /\ socket' = [c \in Conn |-> CASE c \in connections -> Closed(socket[c])
                                 [] socket[c] = "backlog" -> "dropped"
                                 [] OTHER -> socket[c]]
  /\ ops' = Cancelled(ops, connections)
  /\ UNCHANGED <<connections, reply, history>>

DestroyServer ==
  /\ server # "destroyed"
  /\ server' = "destroyed"
  /\ accept' = IF accept = "waiting" THEN "aborted" ELSE accept
  /\ socket' = [c \in Conn |-> CASE c \in connections -> Closed(socket[c])
                                 [] socket[c] = "backlog" -> "dropped"
                                 [] OTHER -> socket[c]]
  /\ ops' = Cancelled(ops, connections)
  /\ connections' = {}
  /\ UNCHANGED <<reply, history>>

DestroyContext ==
  /\ server = "destroyed"
  /\ ops' = {}
  /\ accept' = "none"
  /\ socket' = [c \in Conn |-> IF accept = c THEN Closed(socket[c]) ELSE socket[c]]
  /\ UNCHANGED <<server, connections, reply, history>>

-----------------------------------------------------------------------------
\* What the kernel does on its own.
Kernel ==
  \/ AcceptFails
  \/ \E c \in Conn : ClientConnects(c) \/ AcceptCompletes(c)
  \/ \E o \in ops : Complete(o)

\* The handlers run() executes: those that return, and those an exception leaves.
AcceptingHandler == AcceptErrorHandler \/ AcceptHandlerDangles \/ \E c \in Conn : AcceptHandler(c)

ConnectionHandler(o) ==
  \/ HandshakeDone(o) \/ HandshakeFails(o)
  \/ ReadMore(o) \/ ReadGood(o) \/ ReadBad(o) \/ ReadFails(o)
  \/ WriteDone(o) \/ WriteFails(o)
  \/ HandlerAborted(o) \/ HandlerDangles(o)

Handler == AcceptingHandler \/ \E o \in ops : ConnectionHandler(o)

ThrowingHandler == (\E c \in Conn : AcceptHandlerThrows(c)) \/ (\E o \in ops : ReadGoodThrows(o))

\* A use of the destroyed server is undefined: the model ends there.
Next ==
  /\ ~dangling
  /\ Listen \/ Kernel \/ Handler \/ ThrowingHandler \/ DestroyServer \/ DestroyContext

Spec == Init /\ [][Next]_vars

-----------------------------------------------------------------------------
(***************************************************************************)
(* Safety.                                                                 *)
(***************************************************************************)
\* The connection manager owns all live connections (http_server.hpp): a socket
\* the process holds open is one it manages, or still waits for the accept
\* handler.  A connection erased without being closed, or closed late, breaks it.
OwnsLiveConnections ==
  \A c \in Conn : socket[c] = "open" => c \in connections \/ accept = c

\* The chain of handlers of a connection never breaks silently: a managed
\* connection has an operation under way whose handler will come back to it,
\* unless an exception left its handler.
NoConnectionForgotten ==
  \A c \in connections : c \in abandoned \/ \E o \in ops : o.conn = c

\* A connection has one operation at a time: its only buffer_ is not read into
\* twice, and nothing reads into it while reply_ is being written.
OneOperation ==
  \A o1, o2 \in ops : o1.conn = o2.conn => o1 = o2

\* operation_aborted is reported only to connections the manager has already
\* let go: that the handlers ignore it leaks no managed connection.
AbortedIsUnmanaged ==
  \A o \in ops : o.ec = "aborted" => o.conn \notin connections

\* The accept chain: a listening server has an accept operation under way, unless
\* creating a connection threw and took that connection's socket with it.
KeepsAccepting ==
  server = "listening" /\ accept = "none"
    => /\ "create_connection" \in Faults
       /\ \E c \in Conn : socket[c] = "dropped" /\ reply[c] = "none"

\* reply_ does not change while a write is under way, whose buffers point into it
\* ("the reply object must remain valid and not be changed until the write
\* operation has completed", reply.hpp).
ReplyStable ==
  [][\A o \in ops : o.op = "write" => reply'[o.conn] = reply[o.conn]]_vars

\* While the server is alive, a connection is closed before its reply is written
\* only when an operation of its own failed or its object could not be created;
\* and the graceful closure happens only after a successful write.
NoReplyCutShort ==
  [][\A c \in Conn : socket[c] = "open" /\ server' # "destroyed" =>
       /\ socket'[c] = "dropped" => accept = c \/ \E o \in ops : o.conn = c /\ o.ec = "error"
       /\ socket'[c] = "finished" => \E o \in ops : o.conn = c /\ o.op = "write" /\ o.ec = "success"
    ]_vars

-----------------------------------------------------------------------------
(***************************************************************************)
(* The inductive invariant behind these properties (see HttpServerProofs): *)
(* where the acceptor is, whose connection each socket and operation is,   *)
(* and how far the exchange on it is.                                      *)
(***************************************************************************)
AcceptorInv ==
  /\ server = "idle" => accept = "none"
  /\ accept = "waiting" => server = "listening"
  /\ server = "destroyed" => connections = {}

OwnershipInv ==
  /\ \A c \in connections : socket[c] = "open" /\ accept # c
  /\ \A o \in ops : /\ server # "destroyed" => o.conn \in connections
                   /\ accept # o.conn
  /\ accept \in Conn => socket[accept] = "open"

ExchangeInv ==
  /\ \A o \in ops : o.op = "write" <=> reply[o.conn] # "none"
  /\ \A c \in Conn : socket[c] \in {"none", "backlog"} \/ accept = c => reply[c] = "none"
  /\ \A o \in ops : socket[o.conn] \in {"open", "dropped"}

\* The conjunction of the safety invariants and of what makes them inductive.
Inv ==
  /\ TypeOK
  /\ OwnsLiveConnections /\ NoConnectionForgotten /\ OneOperation
  /\ AbortedIsUnmanaged /\ KeepsAccepting
  /\ AcceptorInv /\ OwnershipInv /\ ExchangeInv

-----------------------------------------------------------------------------
(***************************************************************************)
(* Refinement.  An exchange is over for the client when the socket closes; *)
(* a socket the accept handler has not seen yet is not taken.              *)
(***************************************************************************)
Taken(c) == socket[c] = "open" /\ accept # c

Phase(c) ==
  CASE socket[c] = "finished"            -> "served"
    [] socket[c] = "dropped"             -> "lost"
    [] Taken(c) /\ reply[c] = "none"     -> "asking"
    [] Taken(c) /\ reply[c] # "none"     -> "answering"
    [] OTHER                             -> "out"

Answer(c) == IF Phase(c) \in {"answering", "served"} THEN <<reply[c]>> ELSE <<>>

E == INSTANCE Exchange WITH
       Answers <- Replies \ {"none"},
       phase   <- [c \in Conn |-> Phase(c)],
       answer  <- [c \in Conn |-> Answer(c)],
       stopped <- server = "destroyed"

\* The server implements the exchange it promises: each handler, completion and
\* destruction is one step of Exchange, or none.
ImplementsExchange == E!Spec

=============================================================================
