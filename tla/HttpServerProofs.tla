--------------------------- MODULE HttpServerProofs ---------------------------
(***************************************************************************)
(* Theorems about HttpServer, for any set of connections, with and without *)
(* TLS and for every choice of the calls that may throw.                   *)
(*                                                                         *)
(* Inv is inductive: the acceptor, ownership and exchange parts say which  *)
(* connection an operation and an open socket belong to, without which no  *)
(* safety invariant is preserved by the handlers that close a socket or    *)
(* start the next operation.  Every handler but four ends in Continue or   *)
(* in Stop, and so do the lemmas.  The last part is about F16Main.         *)
(***************************************************************************)
EXTENDS F16Main, TLAPS

\* Initially nothing is accepted, managed, open or under way.
LEMMA InitInv == Init => Inv
  BY ServerAssumption
  DEF Init, Inv, TypeOK, OwnsLiveConnections, NoConnectionForgotten, OneOperation,
      AbortedIsUnmanaged, KeepsAccepting, AcceptorInv, OwnershipInv, ExchangeInv,
      AcceptStates, SocketStates, Replies

-----------------------------------------------------------------------------
\* The operation o of a connection gives way to q, of the same connection, while
\* reply_ becomes r: what Complete and Continue have in common.
LEMMA OperationReplaced ==
  ASSUME Inv,
         NEW o \in ops, NEW q \in Operation, NEW r \in Replies,
         q.conn = o.conn, q.ec # "aborted", q.op = "write" <=> r # "none",
         ops' = (ops \ {o}) \cup {q},
         reply' = [reply EXCEPT ![o.conn] = r],
         UNCHANGED <<acceptor, connections, socket, history>>
  PROVE  Inv'
<1> USE DEF Inv, TypeOK, Operation, acceptor, history
<1>1. TypeOK'
  OBVIOUS
<1>2. OneOperation' /\ NoConnectionForgotten' /\ OwnsLiveConnections'
  BY DEF OneOperation, NoConnectionForgotten, OwnsLiveConnections
<1>3. AbortedIsUnmanaged'
  BY DEF AbortedIsUnmanaged
<1>4. AcceptorInv' /\ OwnershipInv'
  BY DEF AcceptorInv, OwnershipInv
<1>5. KeepsAccepting'
  BY DEF KeepsAccepting, OwnershipInv, AcceptorInv
<1>6. ExchangeInv'
  BY DEF ExchangeInv, OneOperation, OwnershipInv
<1> QED
  BY <1>1, <1>2, <1>3, <1>4, <1>5, <1>6

\* A new operation is never aborted when it is started.
LEMMA FirstCodesFacts ==
  ASSUME NEW c, NEW kind
  PROVE  FirstCodes(c, kind) \subseteq Codes \ {"aborted"}
  BY DEF FirstCodes, Codes

\* A handler that ends in do_read() or do_write(), having set reply_ to r.
LEMMA ContinueInv ==
  ASSUME Inv, NEW o \in ops, NEW kind \in {"read", "write"}, NEW r \in Replies,
         Continue(o, kind), kind = "write" <=> r # "none",
         reply' = [reply EXCEPT ![o.conn] = r]
  PROVE  Inv'
<1>1. PICK ec \in FirstCodes(o.conn, kind) :
           ops' = (ops \ {o}) \cup {[conn |-> o.conn, op |-> kind, ec |-> ec]}
  BY DEF Continue
<1> DEFINE q == [conn |-> o.conn, op |-> kind, ec |-> ec]
<1>2. q \in Operation /\ q.conn = o.conn /\ q.op = kind /\ q.ec # "aborted"
  BY FirstCodesFacts DEF Inv, TypeOK, Operation, OpKinds
<1>3. ops' = (ops \ {o}) \cup {q}
  BY <1>1
<1>4. UNCHANGED <<acceptor, connections, socket, history>>
  BY DEF Continue
<1> HIDE DEF q
<1> QED
  BY <1>2, <1>3, <1>4, OperationReplaced

\* The reactor completes an operation.
LEMMA CompleteInv ==
  ASSUME Inv, NEW o \in ops, Complete(o)
  PROVE  Inv'
<1>1. PICK ec \in {"success", "error"} : ops' = (ops \ {o}) \cup {[o EXCEPT !.ec = ec]}
  BY DEF Complete
<1> DEFINE q == [o EXCEPT !.ec = ec]
<1>2. q \in Operation /\ q.conn = o.conn /\ q.op = o.op /\ q.ec # "aborted"
  BY DEF Inv, TypeOK, Operation, Codes
<1>3. ops' = (ops \ {o}) \cup {q}
  BY <1>1
<1>4. UNCHANGED <<acceptor, connections, socket, history, reply>>
  BY DEF Complete
<1>5. reply[o.conn] \in Replies /\ reply = [reply EXCEPT ![o.conn] = reply[o.conn]]
  BY DEF Inv, TypeOK, Operation
<1>6. q.op = "write" <=> reply[o.conn] # "none"
  BY <1>2 DEF Inv, ExchangeInv
<1> HIDE DEF q
<1> QED
  BY <1>2, <1>3, <1>4, <1>5, <1>6, OperationReplaced

\* A handler that ends in connection_manager_.stop(self): there is no other
\* operation on its connection to cancel, and none is left.
LEMMA StopInv ==
  ASSUME Inv, NEW o \in ops, NEW s \in {"open", "finished", "dropped"}, Stop(o, s)
  PROVE  Inv'
<1> USE DEF Inv, TypeOK, Stop, Operation, acceptor, history
<1>1. Cancelled(ops \ {o}, {o.conn}) = ops \ {o}
  BY DEF Cancelled, OneOperation
<1>2. TypeOK'
  BY <1>1 DEF Closed, SocketStates
<1>3. OneOperation' /\ NoConnectionForgotten' /\ AbortedIsUnmanaged'
  BY <1>1 DEF OneOperation, NoConnectionForgotten, AbortedIsUnmanaged
<1>4. OwnsLiveConnections'
  BY DEF OwnsLiveConnections, Closed
<1>5. KeepsAccepting'
  BY DEF KeepsAccepting, OwnershipInv
<1>6. AcceptorInv' /\ OwnershipInv'
  BY <1>1 DEF AcceptorInv, OwnershipInv, OneOperation
<1>7. ExchangeInv'
  BY <1>1 DEF ExchangeInv, OneOperation, Closed
<1> QED
  BY <1>2, <1>3, <1>4, <1>5, <1>6, <1>7

\* The accept handler creates the connection it was completed with.
LEMMA AcceptHandlerInv ==
  ASSUME Inv, NEW c \in Conn, AcceptHandler(c)
  PROVE  Inv'
<1> DEFINE kind == IF Tls THEN "handshake" ELSE "read"
<1>1. PICK ec \in FirstCodes(c, kind) : ops' = ops \cup {[conn |-> c, op |-> kind, ec |-> ec]}
  BY DEF AcceptHandler, Start
<1> DEFINE q == [conn |-> c, op |-> kind, ec |-> ec]
<1>2. q \in Operation /\ q.conn = c /\ q.op # "write" /\ q.ec # "aborted"
  BY FirstCodesFacts DEF Operation, OpKinds
<1>3. ops' = ops \cup {q}
  BY <1>1
<1> HIDE DEF q
<1> USE <1>2, <1>3, ServerAssumption DEF Inv, TypeOK, AcceptHandler, Start, history, AcceptStates
<1>4. TypeOK' /\ OneOperation'
  BY DEF OneOperation, OwnershipInv
<1>5. OwnsLiveConnections' /\ NoConnectionForgotten'
  BY DEF OwnsLiveConnections, NoConnectionForgotten
<1>6. AbortedIsUnmanaged' /\ KeepsAccepting'
  BY DEF AbortedIsUnmanaged, KeepsAccepting, OwnershipInv
<1>7. AcceptorInv' /\ OwnershipInv'
  BY DEF AcceptorInv, OwnershipInv
<1>8. ExchangeInv'
  BY DEF ExchangeInv, OwnershipInv
<1> QED
  BY <1>4, <1>5, <1>6, <1>7, <1>8

\* Each handler of a connection's operation.
LEMMA ConnectionHandlerInv ==
  ASSUME Inv, NEW o \in ops, ConnectionHandler(o) \/ ReadGoodThrows(o)
  PROVE  Inv'
<1> USE DEF Inv
<1>1. o \in Operation /\ o.conn \in Conn /\ reply \in [Conn -> Replies]
  BY DEF TypeOK, Operation
<1>2. socket[o.conn] \in {"open", "finished", "dropped"}
  BY <1>1 DEF ExchangeInv, TypeOK, SocketStates
<1>3. CASE HandshakeDone(o) \/ ReadMore(o)
  <2>1. reply[o.conn] = "none" /\ reply' = [reply EXCEPT ![o.conn] = "none"]
    BY <1>1, <1>3 DEF HandshakeDone, ReadMore, ExchangeInv
  <2> QED
    BY <1>3, <2>1, ContinueInv DEF HandshakeDone, ReadMore, Replies
<1>4. CASE ReadGood(o) \/ ReadBad(o)
  BY <1>4, ContinueInv DEF ReadGood, ReadBad, Replies
<1>5. CASE HandshakeFails(o) \/ ReadFails(o) \/ WriteDone(o) \/ WriteFails(o)
  <2>1. ShutDown(socket[o.conn]) \in {"open", "finished", "dropped"}
    BY <1>2 DEF ShutDown
  <2> QED
    BY <1>2, <1>5, <2>1, StopInv DEF HandshakeFails, ReadFails, WriteDone, WriteFails
<1>6. CASE HandlerAborted(o)
  <2> USE <1>6 DEF HandlerAborted, acceptor, history
  <2>1. TypeOK' /\ AcceptorInv' /\ OwnershipInv' /\ ExchangeInv'
    BY DEF TypeOK, AcceptorInv, OwnershipInv, ExchangeInv
  <2>2. OwnsLiveConnections' /\ OneOperation' /\ AbortedIsUnmanaged' /\ KeepsAccepting'
    BY DEF OwnsLiveConnections, OneOperation, AbortedIsUnmanaged, KeepsAccepting
  <2>3. NoConnectionForgotten'
    BY DEF NoConnectionForgotten, AbortedIsUnmanaged
  <2> QED
    BY <2>1, <2>2, <2>3
<1>7. CASE ReadGoodThrows(o)
  <2> USE <1>7 DEF ReadGoodThrows, acceptor
  <2>1. TypeOK' /\ AcceptorInv' /\ OwnershipInv' /\ ExchangeInv'
    BY <1>1 DEF TypeOK, AcceptorInv, OwnershipInv, ExchangeInv
  <2>2. OwnsLiveConnections' /\ OneOperation' /\ AbortedIsUnmanaged' /\ KeepsAccepting'
    BY DEF OwnsLiveConnections, OneOperation, AbortedIsUnmanaged, KeepsAccepting
  <2>3. NoConnectionForgotten'
    BY DEF NoConnectionForgotten
  <2> QED
    BY <2>1, <2>2, <2>3
<1>8. CASE HandlerDangles(o)
  BY <1>8 DEF HandlerDangles, acceptor, TypeOK, AcceptorInv, OwnershipInv, ExchangeInv,
     OwnsLiveConnections, OneOperation, AbortedIsUnmanaged, KeepsAccepting, NoConnectionForgotten
<1> QED
  BY <1>3, <1>4, <1>5, <1>6, <1>7, <1>8 DEF ConnectionHandler

\* The destructors of the server and of the io_context.
LEMMA DestructionInv ==
  ASSUME Inv, DestroyServer \/ DestroyContext
  PROVE  Inv'
<1> USE DEF Inv, TypeOK, Closed
<1>1. CASE DestroyServer
  <2>1. /\ ops' \subseteq Operation
        /\ \A p \in ops' : \E o \in ops : p.conn = o.conn /\ p.op = o.op
    BY <1>1 DEF DestroyServer, Cancelled, Operation, Codes
  <2>2. OneOperation'
    BY <1>1 DEF DestroyServer, Cancelled, OneOperation, Operation
  <2> USE <1>1, <2>1 DEF DestroyServer, history
  <2>3. TypeOK' /\ AcceptorInv' /\ OwnsLiveConnections'
    BY ServerAssumption DEF AcceptorInv, OwnsLiveConnections, AcceptStates, SocketStates
  <2>4. NoConnectionForgotten' /\ AbortedIsUnmanaged' /\ KeepsAccepting'
    BY DEF NoConnectionForgotten, AbortedIsUnmanaged, KeepsAccepting
  <2>5. OwnershipInv'
    BY ServerAssumption DEF OwnershipInv, AcceptStates, Operation
  <2>6. ExchangeInv'
    BY ServerAssumption DEF ExchangeInv, AcceptStates, Operation, SocketStates
  <2> QED
    BY <2>2, <2>3, <2>4, <2>5, <2>6
<1>2. CASE DestroyContext
  BY <1>2, ServerAssumption
  DEF DestroyContext, history, AcceptorInv, OwnershipInv, ExchangeInv, OwnsLiveConnections,
      OneOperation, AbortedIsUnmanaged, KeepsAccepting, NoConnectionForgotten, AcceptStates,
      SocketStates
<1> QED
  BY <1>1, <1>2

\* The accept chain, the kernel's part in it, and listen().
LEMMA AcceptorStepInv ==
  ASSUME Inv,
         \/ Listen \/ AcceptFails \/ AcceptErrorHandler \/ AcceptHandlerDangles
         \/ \E c \in Conn : ClientConnects(c) \/ AcceptCompletes(c) \/ AcceptHandlerThrows(c)
  PROVE  Inv'
<1> USE ServerAssumption
    DEF Inv, TypeOK, OwnsLiveConnections, NoConnectionForgotten, OneOperation,
        AbortedIsUnmanaged, KeepsAccepting, AcceptorInv, OwnershipInv, ExchangeInv,
        AcceptStates, SocketStates, acceptor, history
<1>1. CASE Listen
  BY <1>1 DEF Listen
<1>2. CASE AcceptFails \/ AcceptErrorHandler
  BY <1>2 DEF AcceptFails, AcceptErrorHandler
<1>3. CASE AcceptHandlerDangles
  BY <1>3 DEF AcceptHandlerDangles
<1>4. ASSUME NEW c \in Conn, ClientConnects(c) PROVE Inv'
  BY <1>4 DEF ClientConnects
<1>5. ASSUME NEW c \in Conn, AcceptCompletes(c) PROVE Inv'
  BY <1>5 DEF AcceptCompletes
<1>6. ASSUME NEW c \in Conn, AcceptHandlerThrows(c) PROVE Inv'
  BY <1>6 DEF AcceptHandlerThrows, Closed
<1> QED
  BY <1>1, <1>2, <1>3, <1>4, <1>5, <1>6

LEMMA StepInv == Inv /\ [Next]_vars => Inv'
<1> SUFFICES ASSUME Inv, [Next]_vars PROVE Inv'
  OBVIOUS
<1>1. CASE UNCHANGED vars
  BY <1>1 DEF vars, Inv, TypeOK, OwnsLiveConnections, NoConnectionForgotten, OneOperation,
     AbortedIsUnmanaged, KeepsAccepting, AcceptorInv, OwnershipInv, ExchangeInv
<1>2. CASE Next
  BY <1>2, AcceptorStepInv, AcceptHandlerInv, CompleteInv, ConnectionHandlerInv, DestructionInv
  DEF Next, Kernel, Handler, AcceptingHandler, ThrowingHandler
<1> QED
  BY <1>1, <1>2

\* The inductive invariant holds in every state of every server.
THEOREM Invariance == Spec => []Inv
  BY InitInv, StepInv, PTL DEF Spec

\* The safety invariants are conjuncts of Inv.  Every open socket is managed, or the
\* acceptor still has it.
THEOREM LiveConnectionsAreOwned == Spec => []OwnsLiveConnections
<1>1. Inv => OwnsLiveConnections
  BY DEF Inv
<1> QED
  BY <1>1, Invariance, PTL

\* A managed connection has an operation whose handler will come back to it, unless
\* an exception left its handler.
THEOREM NoneIsForgotten == Spec => []NoConnectionForgotten
<1>1. Inv => NoConnectionForgotten
  BY DEF Inv
<1> QED
  BY <1>1, Invariance, PTL

\* The chain of handlers of a connection never forks: its one buffer, parser and
\* reply serve one operation at a time.
THEOREM OperationsAreSingle == Spec => []OneOperation
<1>1. Inv => OneOperation
  BY DEF Inv
<1> QED
  BY <1>1, Invariance, PTL

\* The handlers that ignore operation_aborted ignore it for connections nobody
\* manages any more.
THEOREM AbortedAreUnmanaged == Spec => []AbortedIsUnmanaged
<1>1. Inv => AbortedIsUnmanaged
  BY DEF Inv
<1> QED
  BY <1>1, Invariance, PTL

\* A server that listens has an accept operation, unless creating a connection
\* threw.
THEOREM AcceptingGoesOn == Spec => []KeepsAccepting
<1>1. Inv => KeepsAccepting
  BY DEF Inv
<1> QED
  BY <1>1, Invariance, PTL

\* The variables of the server keep their types.
THEOREM TypeCorrect == Spec => []TypeOK
<1>1. Inv => TypeOK
  BY DEF Inv
<1> QED
  BY <1>1, Invariance, PTL

-----------------------------------------------------------------------------
\* reply_ and the buffers pointing into it stay as they are during a write: only
\* the handler of a read sets it, and that read is the connection's one operation.
THEOREM RepliesAreStable == Spec => ReplyStable
<1>1. Inv /\ [Next]_vars => [\A o \in ops : o.op = "write" => reply'[o.conn] = reply[o.conn]]_vars
  <2> SUFFICES ASSUME Inv, Next, NEW w \in ops, w.op = "write"
               PROVE  reply'[w.conn] = reply[w.conn]
    BY DEF vars
  <2> USE DEF Inv, TypeOK, Operation
  <2>1. ASSUME NEW o \in ops, ReadGood(o) \/ ReadBad(o) PROVE reply'[w.conn] = reply[w.conn]
    <3>1. o.conn # w.conn
      BY <2>1 DEF ReadGood, ReadBad, OneOperation
    <3> QED
      BY <2>1, <3>1 DEF ReadGood, ReadBad
  <2>2. ASSUME NEW o \in ops, ConnectionHandler(o) \/ ReadGoodThrows(o) \/ Complete(o),
               ~(ReadGood(o) \/ ReadBad(o))
        PROVE  UNCHANGED reply
    BY <2>2 DEF ConnectionHandler, HandshakeDone, HandshakeFails, ReadMore, ReadFails, WriteDone,
       WriteFails, HandlerAborted, HandlerDangles, ReadGoodThrows, Complete, Stop
  <2>3. ASSUME NEW c \in Conn, ClientConnects(c) \/ AcceptCompletes(c) \/ AcceptHandler(c) \/ AcceptHandlerThrows(c)
        PROVE  UNCHANGED reply
    BY <2>3 DEF ClientConnects, AcceptCompletes, AcceptHandler, AcceptHandlerThrows
  <2>4. ASSUME Listen \/ AcceptFails \/ AcceptErrorHandler \/ AcceptHandlerDangles
               \/ DestroyServer \/ DestroyContext
        PROVE  UNCHANGED reply
    BY <2>4 DEF Listen, AcceptFails, AcceptErrorHandler, AcceptHandlerDangles, DestroyServer, DestroyContext
  <2> QED
    BY <2>1, <2>2, <2>3, <2>4 DEF Next, Kernel, Handler, AcceptingHandler, ThrowingHandler
<1> QED
  BY <1>1, Invariance, PTL DEF Spec, ReplyStable

\* A live server closes a connection ahead of its reply only after a failure, and
\* gracefully only after the whole reply was written.
THEOREM RepliesAreNotCutShort == Spec => NoReplyCutShort
<1> DEFINE Fair == \A c \in Conn : socket[c] = "open" /\ server' # "destroyed" =>
       /\ socket'[c] = "dropped" => accept = c \/ \E o \in ops : o.conn = c /\ o.ec = "error"
       /\ socket'[c] = "finished" => \E o \in ops : o.conn = c /\ o.op = "write" /\ o.ec = "success"
<1>1. Inv /\ [Next]_vars => [Fair]_vars
  <2> SUFFICES ASSUME Inv, Next PROVE Fair
    OBVIOUS
  <2> USE DEF Inv, TypeOK, Operation
  <2>1. ASSUME NEW o \in ops, HandshakeFails(o) \/ ReadFails(o) \/ WriteFails(o) PROVE Fair
    <3>1. o.ec = "error"
      BY <2>1 DEF HandshakeFails, ReadFails, WriteFails, Stop, OwnershipInv, AbortedIsUnmanaged
    <3> QED
      BY <2>1, <3>1 DEF HandshakeFails, ReadFails, WriteFails, Stop, Closed
  <2>2. ASSUME NEW o \in ops, WriteDone(o) PROVE Fair
    BY <2>2 DEF WriteDone, Stop, Closed, ShutDown
  <2>3. ASSUME NEW c \in Conn, AcceptHandlerThrows(c) PROVE Fair
    BY <2>3 DEF AcceptHandlerThrows, Closed
  <2>4. ASSUME NEW c \in Conn, ClientConnects(c) \/ AcceptCompletes(c) PROVE Fair
    BY <2>4 DEF ClientConnects, AcceptCompletes
  <2>5. ASSUME DestroyServer \/ DestroyContext PROVE Fair
    BY <2>5 DEF DestroyServer, DestroyContext
  <2>6. ASSUME NEW o \in ops, ConnectionHandler(o) \/ ReadGoodThrows(o) \/ Complete(o),
               ~(HandshakeFails(o) \/ ReadFails(o) \/ WriteFails(o) \/ WriteDone(o))
        PROVE  UNCHANGED socket
    BY <2>6 DEF ConnectionHandler, HandshakeDone, ReadMore, ReadGood, ReadBad, HandlerAborted,
       HandlerDangles, ReadGoodThrows, Complete, Continue
  <2>7. ASSUME Listen \/ AcceptFails \/ AcceptErrorHandler \/ AcceptHandlerDangles
               \/ \E c \in Conn : AcceptHandler(c)
        PROVE  UNCHANGED socket
    BY <2>7 DEF Listen, AcceptFails, AcceptErrorHandler, AcceptHandlerDangles, AcceptHandler
  <2>8. UNCHANGED socket => Fair
    OBVIOUS
  <2> QED
    BY <2>1, <2>2, <2>3, <2>4, <2>5, <2>6, <2>7, <2>8
    DEF Next, Kernel, Handler, AcceptingHandler, ThrowingHandler
<1> QED
  BY <1>1, Invariance, PTL DEF Spec, NoReplyCutShort

-----------------------------------------------------------------------------
(***************************************************************************)
(* The server implements Exchange.                                         *)
(***************************************************************************)
\* A step leaves the exchange of every connection alone whose socket, reply and
\* place in the acceptor it leaves alone.
LEMMA ExchangeUnchanged ==
  ASSUME NEW c, socket'[c] = socket[c], reply'[c] = reply[c], accept' = c <=> accept = c
  PROVE  Phase(c)' = Phase(c) /\ Answer(c)' = Answer(c)
  BY DEF Phase, Answer, Taken

\* A step that only touches the exchange of c, which it moves to p with answer a.
LEMMA ExchangeMoves ==
  ASSUME NEW c \in Conn, NEW p, NEW a, Phase(c)' = p, Answer(c)' = a,
         \A d \in Conn \ {c} : Phase(d)' = Phase(d) /\ Answer(d)' = Answer(d)
  PROVE  /\ [d \in Conn |-> Phase(d)]' = [[d \in Conn |-> Phase(d)] EXCEPT ![c] = p]
         /\ [d \in Conn |-> Answer(d)]' = [[d \in Conn |-> Answer(d)] EXCEPT ![c] = a]
  OBVIOUS

LEMMA InitRefines == Init => E!Init
  BY ServerAssumption DEF Init, E!Init, Phase, Answer, Taken, AcceptStates

LEMMA StepRefines == Inv /\ [Next]_vars => [E!Next]_(E!evars)
<1> SUFFICES ASSUME Inv, [Next]_vars PROVE E!Next \/ UNCHANGED E!evars
  OBVIOUS
<1> DEFINE phases  == [d \in Conn |-> Phase(d)]
           answers == [d \in Conn |-> Answer(d)]
<1>1. ASSUME UNCHANGED server, \A d \in Conn : Phase(d)' = Phase(d) /\ Answer(d)' = Answer(d)
      PROVE  UNCHANGED E!evars
  BY <1>1 DEF E!evars
<1>2. ASSUME UNCHANGED <<acceptor, socket, reply>> PROVE UNCHANGED E!evars
  BY <1>1, <1>2, ExchangeUnchanged DEF acceptor
<1>3. ASSUME NEW o \in ops, ReadGood(o) \/ ReadBad(o) PROVE E!Next \/ UNCHANGED E!evars
  <2> USE <1>3 DEF ReadGood, ReadBad, Continue, acceptor
  <2>1. o.op = "read" /\ o.conn \in Conn /\ reply \in [Conn -> Replies]
    BY DEF Inv, TypeOK, Operation
  <2>2. reply[o.conn] = "none" /\ accept # o.conn /\ socket[o.conn] \in {"open", "dropped"}
    BY <2>1 DEF Inv, ExchangeInv, OwnershipInv
  <2>3. PICK r \in Replies \ {"none"} : reply' = [reply EXCEPT ![o.conn] = r]
    BY DEF Replies
  <2>4. \A d \in Conn \ {o.conn} : Phase(d)' = Phase(d) /\ Answer(d)' = Answer(d)
    BY <2>1, <2>3, ExchangeUnchanged
  <2>5. CASE socket[o.conn] = "open"
    <3>1. Phase(o.conn) = "asking" /\ Phase(o.conn)' = "answering" /\ Answer(o.conn)' = <<r>>
      BY <2>1, <2>2, <2>3, <2>5 DEF Phase, Answer, Taken
    <3>2. E!Decide(o.conn)
      BY <2>1, <2>3, <2>4, <3>1, ExchangeMoves DEF E!Decide
    <3> QED
      BY <2>1, <3>2 DEF E!Next
  <2>6. CASE socket[o.conn] = "dropped"
    <3>1. Phase(o.conn)' = Phase(o.conn) /\ Answer(o.conn)' = Answer(o.conn)
      BY <2>6 DEF Phase, Answer, Taken
    <3> QED
      BY <1>1, <2>4, <3>1
  <2> QED
    BY <2>2, <2>5, <2>6
<1>4. ASSUME NEW o \in ops, NEW s, Stop(o, s), s = "open" \/ (s = "finished" /\ o.op = "write")
      PROVE  E!Next
  <2> USE <1>4 DEF Stop, acceptor
  <2>1. o.conn \in Conn /\ o.conn \in connections /\ socket[o.conn] = "open" /\ accept # o.conn
    BY DEF Inv, TypeOK, Operation, OwnershipInv
  <2>2. socket' = [socket EXCEPT ![o.conn] = IF s = "open" THEN "dropped" ELSE "finished"]
    BY DEF Closed
  <2>3. \A d \in Conn \ {o.conn} : Phase(d)' = Phase(d) /\ Answer(d)' = Answer(d)
    BY <2>1, <2>2, ExchangeUnchanged DEF Inv, TypeOK
  <2>4. CASE s = "open"
    <3>1. Phase(o.conn) \in {"asking", "answering"} /\ Phase(o.conn)' = "lost" /\ Answer(o.conn)' = <<>>
      BY <2>1, <2>2, <2>4 DEF Phase, Answer, Taken, Inv, TypeOK
    <3>2. E!Lose(o.conn)
      BY <2>1, <2>3, <3>1, ExchangeMoves DEF E!Lose
    <3> QED
      BY <2>1, <3>2 DEF E!Next
  <2>5. CASE s = "finished" /\ o.op = "write"
    <3>1. /\ Phase(o.conn) = "answering" /\ Phase(o.conn)' = "served"
          /\ Answer(o.conn)' = Answer(o.conn)
      BY <2>1, <2>2, <2>5 DEF Phase, Answer, Taken, Inv, TypeOK, ExchangeInv
    <3>2. E!Deliver(o.conn)
      BY <2>1, <2>3, <3>1, ExchangeMoves DEF E!Deliver
    <3> QED
      BY <2>1, <3>2 DEF E!Next
  <2> QED
    BY <2>4, <2>5
<1>5. ASSUME NEW o \in ops, HandshakeFails(o) \/ ReadFails(o) \/ WriteFails(o) \/ WriteDone(o)
      PROVE  E!Next
  <2>1. socket[o.conn] = "open"
    BY <1>5 DEF HandshakeFails, ReadFails, WriteFails, WriteDone, Stop, Inv, OwnershipInv
  <2> QED
    BY <1>4, <1>5, <2>1 DEF HandshakeFails, ReadFails, WriteFails, WriteDone, ShutDown
<1>6. ASSUME NEW o \in ops, ConnectionHandler(o) \/ ReadGoodThrows(o) \/ Complete(o),
             ~(HandshakeFails(o) \/ ReadFails(o) \/ WriteFails(o) \/ WriteDone(o) \/ ReadGood(o) \/ ReadBad(o))
      PROVE  UNCHANGED E!evars
  BY <1>2, <1>6 DEF ConnectionHandler, HandshakeDone, ReadMore, HandlerAborted, HandlerDangles,
     ReadGoodThrows, Complete, Continue
<1>7. ASSUME NEW c \in Conn, AcceptHandler(c) \/ AcceptHandlerThrows(c) PROVE E!Next
  <2> USE <1>7, ServerAssumption DEF AcceptHandler, AcceptHandlerThrows, AcceptStates
  <2>1. socket[c] = "open" /\ reply[c] = "none" /\ Phase(c) = "out"
    BY DEF Inv, OwnershipInv, ExchangeInv, Phase, Taken
  <2>2. \A d \in Conn \ {c} : Phase(d)' = Phase(d) /\ Answer(d)' = Answer(d)
    BY ExchangeUnchanged DEF Inv, TypeOK
  <2>3. CASE AcceptHandler(c)
    <3>1. Phase(c)' = "asking" /\ Answer(c)' = Answer(c)
      BY <2>1, <2>3 DEF Phase, Answer, Taken
    <3>2. E!Take(c)
      BY <2>1, <2>2, <2>3, <3>1, ExchangeMoves DEF E!Take
    <3> QED
      BY <3>2 DEF E!Next
  <2>4. CASE AcceptHandlerThrows(c)
    <3>1. Phase(c)' = "lost" /\ Answer(c)' = <<>>
      BY <2>1, <2>4 DEF Phase, Answer, Taken, Closed, Inv, TypeOK
    <3>2. E!Lose(c)
      BY <2>1, <2>2, <2>4, <3>1, ExchangeMoves DEF E!Lose
    <3> QED
      BY <3>2 DEF E!Next
  <2> QED
    BY <1>7, <2>3, <2>4
<1>8. ASSUME NEW c \in Conn, ClientConnects(c) \/ AcceptCompletes(c) PROVE UNCHANGED E!evars
  <2> USE <1>8, ServerAssumption DEF ClientConnects, AcceptCompletes, AcceptStates
  <2>1. Phase(c)' = Phase(c) /\ Answer(c)' = Answer(c)
    BY DEF Phase, Answer, Taken, Inv, TypeOK
  <2>2. \A d \in Conn \ {c} : Phase(d)' = Phase(d) /\ Answer(d)' = Answer(d)
    BY ExchangeUnchanged DEF Inv, TypeOK, acceptor
  <2> QED
    BY <1>1, <2>1, <2>2 DEF acceptor
<1>9. ASSUME AcceptFails \/ AcceptErrorHandler \/ AcceptHandlerDangles PROVE UNCHANGED E!evars
  <2>1. \A d \in Conn : accept' = d <=> accept = d
    BY <1>9, ServerAssumption DEF AcceptFails, AcceptErrorHandler, AcceptHandlerDangles, AcceptStates, acceptor
  <2> QED
    BY <1>1, <1>9, <2>1, ExchangeUnchanged DEF AcceptFails, AcceptErrorHandler, AcceptHandlerDangles, acceptor
<1>10. ASSUME Listen PROVE UNCHANGED E!evars
  <2>1. \A d \in Conn : accept' = d <=> accept = d
    BY <1>10, ServerAssumption DEF Listen, AcceptStates, Inv, AcceptorInv
  <2>2. \A d \in Conn : Phase(d)' = Phase(d) /\ Answer(d)' = Answer(d)
    BY <1>10, <2>1, ExchangeUnchanged DEF Listen
  <2> QED
    BY <1>10, <2>2 DEF Listen, E!evars
<1>11. ASSUME DestroyServer PROVE E!Next
  <2> DEFINE refused == {d \in Conn : socket[d] = "backlog"}
             lost == refused \cup {d \in Conn : phases[d] \in {"asking", "answering"}}
  <2> USE <1>11, ServerAssumption DEF DestroyServer, AcceptStates
  <2>1. refused \in SUBSET {d \in Conn : phases[d] = "out"}
    BY DEF Phase, Taken
  <2>2. ASSUME NEW d \in Conn
        PROVE  /\ Phase(d)' = IF d \in lost THEN "lost" ELSE Phase(d)
               /\ Answer(d)' = IF d \in lost THEN <<>> ELSE Answer(d)
    <3>1. accept' = d <=> accept = d
      OBVIOUS
    <3>2. CASE d \in connections
      <4>1. socket[d] = "open" /\ accept # d /\ socket'[d] = "dropped"
        BY <3>2 DEF Inv, TypeOK, OwnershipInv, Closed
      <4> QED
        BY <4>1 DEF Phase, Answer, Taken
    <3>3. CASE d \notin connections
      <4>1. socket[d] = "open" => accept = d
        BY <3>3 DEF Inv, OwnsLiveConnections
      <4> QED
        BY <3>1, <3>3, <4>1 DEF Phase, Answer, Taken
    <3> QED
      BY <3>2, <3>3
  <2>3. E!Halt
    <3>1. phases' = [d \in Conn |-> IF d \in lost THEN "lost" ELSE phases[d]]
      BY <2>2
    <3>2. answers' = [d \in Conn |-> IF d \in lost THEN <<>> ELSE answers[d]]
      BY <2>2
    <3> QED
      BY <2>1, <3>1, <3>2 DEF E!Halt
  <2> QED
    BY <2>3 DEF E!Next
<1>12. ASSUME DestroyContext PROVE E!Next \/ UNCHANGED E!evars
  <2> USE <1>12, ServerAssumption DEF DestroyContext, AcceptStates, Closed
  <2>1. ASSUME NEW c \in Conn, accept = c PROVE E!Next
    <3>1. /\ Phase(c) = "out"
          /\ Phase(c)' = "lost" /\ Answer(c)' = <<>>
      BY <2>1 DEF Inv, TypeOK, OwnershipInv, Phase, Answer, Taken
    <3>2. \A d \in Conn \ {c} : Phase(d)' = Phase(d) /\ Answer(d)' = Answer(d)
      BY <2>1, ExchangeUnchanged DEF Inv, TypeOK
    <3>3. E!Lose(c)
      BY <2>1, <3>1, <3>2, ExchangeMoves DEF E!Lose
    <3> QED
      BY <3>3 DEF E!Next
  <2>2. CASE accept \notin Conn
    <3>1. \A d \in Conn : accept' = d <=> accept = d
      BY <2>2
    <3>2. \A d \in Conn : Phase(d)' = Phase(d) /\ Answer(d)' = Answer(d)
      BY <2>2, <3>1, ExchangeUnchanged DEF Inv, TypeOK
    <3> QED
      BY <1>1, <3>2
  <2> QED
    BY <2>1, <2>2
<1> QED
  BY <1>2, <1>3, <1>5, <1>6, <1>7, <1>8, <1>9, <1>10, <1>11, <1>12
  DEF Next, Kernel, Handler, AcceptingHandler, ThrowingHandler, vars, acceptor

\* Every behaviour of the server is one of the exchanges it promises.
THEOREM Refinement == Spec => ImplementsExchange
  BY InitRefines, StepRefines, Invariance, PTL DEF Spec, ImplementsExchange, E!Spec

-----------------------------------------------------------------------------
(***************************************************************************)
(* F16Main.  main() only ever restricts HttpServer, because nothing is     *)
(* dispatched once it leaves the loop: so MainSpec implies Spec and every  *)
(* theorem above holds of the executable.                                  *)
(***************************************************************************)
\* Where main() is, against the life of the server: the destructors run after
\* the loop, and the io_context goes last.
MainInv ==
  /\ MainTypeOK
  /\ ~dangling
  /\ server = "destroyed" => main \in {"leaving", "exited"}
  /\ main = "exited" => server = "destroyed" /\ ops = {} /\ accept = "none"

LEMMA MainInitInv == MainInit => MainInv
  BY InitInv DEF MainInit, MainInv, MainTypeOK, Init, Inv

\* The control steps of main() that touch no server.
LEMMA HandlersKeepServer ==
  ASSUME Kernel \/ Handler \/ ThrowingHandler
  PROVE  UNCHANGED server
  BY DEF Kernel, Handler, AcceptingHandler, ThrowingHandler, ConnectionHandler, AcceptFails,
     ClientConnects, AcceptCompletes, Complete, AcceptErrorHandler, AcceptHandlerDangles,
     AcceptHandler, AcceptHandlerThrows, HandshakeDone, HandshakeFails, ReadMore, ReadGood,
     ReadGoodThrows, ReadBad, ReadFails, WriteDone, WriteFails, HandlerAborted, HandlerDangles,
     Continue, Stop, acceptor

\* Nothing dangles while the server lives.
LEMMA LiveServerIsSafe ==
  ASSUME server # "destroyed", Kernel \/ Handler \/ ThrowingHandler
  PROVE  UNCHANGED dangling
  BY DEF Kernel, Handler, AcceptingHandler, ThrowingHandler, ConnectionHandler, AcceptFails,
     ClientConnects, AcceptCompletes, Complete, AcceptErrorHandler, AcceptHandlerDangles,
     AcceptHandler, AcceptHandlerThrows, HandshakeDone, HandshakeFails, ReadMore, ReadGood,
     ReadGoodThrows, ReadBad, ReadFails, WriteDone, WriteFails, HandlerAborted, HandlerDangles,
     Continue, Stop, history

\* A step of main() is a step of the server, or leaves it alone.
LEMMA MainStepIsServerStep == MainInv /\ [MainNext]_mvars => [Next]_vars
  BY DEF MainInv, MainNext, mvars, vars, Control, BuildServer, SetupThrows, EnterRun, RunAgain,
     RunReturns, LeaveServers, LeaveContext, RaiseSignal, SignalHandler, KernelStep, RunHandler,
     HandlerThrows, OtherThrows, Next, Kernel

LEMMA MainStepInv == Inv /\ MainInv /\ [MainNext]_mvars => MainInv'
<1> SUFFICES ASSUME Inv, MainInv, [MainNext]_mvars PROVE MainInv'
  OBVIOUS
<1> USE DEF MainInv, MainTypeOK
<1>1. TypeOK'
  BY MainStepIsServerStep, StepInv DEF Inv
<1>2. CASE UNCHANGED mvars
  BY <1>2, <1>1 DEF mvars, vars
<1>3. CASE BuildServer
  BY <1>1, <1>3 DEF BuildServer, Listen, history
<1>4. CASE SetupThrows \/ EnterRun \/ RunAgain \/ RunReturns \/ RaiseSignal \/ SignalHandler \/ OtherThrows
  BY <1>1, <1>4 DEF OtherThrows, SetupThrows, EnterRun, RunAgain, RunReturns, RaiseSignal, SignalHandler,
     Dispatching, vars
<1>5. CASE LeaveServers
  BY <1>1, <1>5 DEF LeaveServers, DestroyServer, history
<1>6. CASE LeaveContext
  BY <1>1, <1>6 DEF LeaveContext, DestroyContext, history
<1>7. CASE RunHandler \/ HandlerThrows \/ (KernelStep /\ Dispatching)
  <2>1. main = "running" /\ server # "destroyed" /\ main' \in {"running", "caught"} /\ signal' = signal
    BY <1>7 DEF RunHandler, HandlerThrows, KernelStep, Dispatching
  <2>2. Kernel \/ Handler \/ ThrowingHandler
    BY <1>7 DEF RunHandler, HandlerThrows, KernelStep, Kernel
  <2> QED
    BY <1>1, <2>1, <2>2, HandlersKeepServer, LiveServerIsSafe
<1>8. CASE KernelStep /\ ~Dispatching
  BY <1>1, <1>8 DEF KernelStep, ClientConnects, acceptor, history
<1> QED
  BY <1>2, <1>3, <1>4, <1>5, <1>6, <1>7, <1>8 DEF MainNext, Control

THEOREM MainInvariance == MainSpec => [](Inv /\ MainInv)
<1>1. Inv /\ MainInv /\ [MainNext]_mvars => Inv'
  BY MainStepIsServerStep, StepInv
<1>2. MainInit => Inv
  BY InitInv DEF MainInit
<1> QED
  BY <1>1, <1>2, MainInitInv, MainStepInv, PTL DEF MainSpec

\* The type invariant of the executable, its server's included.
THEOREM MainTypeCorrect == MainSpec => []MainTypeOK
<1>1. MainInv => MainTypeOK
  BY DEF MainInv
<1> QED
  BY <1>1, MainInvariance, PTL

\* The executable runs its server as HttpServer allows, and no more.
THEOREM MainRefines == MainSpec => Spec
<1>1. MainInit => Init
  BY DEF MainInit
<1> QED
  BY <1>1, MainInvariance, MainStepIsServerStep, PTL DEF MainSpec, Spec

\* No handler runs against the destroyed server.
THEOREM ServerOutlivesHandlers == MainSpec => []NoUseAfterDestroy
<1>1. MainInv => NoUseAfterDestroy
  BY DEF MainInv, NoUseAfterDestroy
<1> QED
  BY <1>1, MainInvariance, PTL

\* When the process is about to exit, nothing is left open or under way.
THEOREM ExitIsClean == MainSpec => []CleanExit
<1>1. Inv /\ MainInv => CleanExit
  BY ServerAssumption
  DEF MainInv, CleanExit, Inv, TypeOK, AcceptorInv, OwnsLiveConnections, AcceptStates
<1> QED
  BY <1>1, MainInvariance, PTL

===============================================================================
