------------------------------- MODULE F16Main --------------------------------
(***************************************************************************)
(* The f16 executable around one server: main() builds the server, waits   *)
(* for a signal, runs the io_context in a loop that survives the           *)
(* exceptions of the handlers, and on its way out destroys the server      *)
(* before the io_context.                                                  *)
(*                                                                         *)
(* Of HttpServer it takes every action and says when it may happen: run()  *)
(* executes the handlers and polls the kernel, scopes run the destructors. *)
(***************************************************************************)
EXTENDS HttpServer

CONSTANT Prompt  \* the clients that make progress, for the liveness properties

ASSUME MainAssumption == Prompt \subseteq Conn

VARIABLES
  main,    \* where main() is: "setup", "running" (in run()), "caught" (in the
           \* catch block of the loop), "leaving" (unwinding), "exited"
  signal   \* "none", "raised" (its handler is queued) or "stopped" (ioc.stop())

mvars == <<vars, main, signal>>

MainTypeOK ==
  /\ TypeOK
  /\ main \in {"setup", "running", "caught", "leaving", "exited"}
  /\ signal \in {"none", "raised", "stopped"}

MainInit == Init /\ main = "setup" /\ signal = "none"

-----------------------------------------------------------------------------
\* build_simple_server or build_advanced_server reaches listen().
BuildServer == main = "setup" /\ Listen /\ UNCHANGED <<main, signal>>

\* They throw: no such configuration, unknown status, address in use, or a
\* later server of the configuration that cannot be built.  F16Servers has them in
\* detail.
SetupThrows == main = "setup" /\ main' = "leaving" /\ UNCHANGED <<vars, signal>>

\* signals_.async_wait, then run().  The configuration may have no such server.
EnterRun ==
  /\ main = "setup"
  /\ main' = "running"
  /\ UNCHANGED <<vars, signal>>

RaiseSignal ==
  /\ main \in {"running", "caught"}
  /\ signal = "none"
  /\ signal' = "raised"
  /\ UNCHANGED <<vars, main>>

\* run() looks for the next handler only while the io_context is not stopped.
Dispatching == main = "running" /\ signal # "stopped"

SignalHandler ==
  /\ Dispatching
  /\ signal = "raised"
  /\ signal' = "stopped"
  /\ UNCHANGED <<vars, main>>

\* Completions are reported inside run(); clients connect to the listening port
\* whatever main() does.
KernelStep ==
  /\ \/ Dispatching /\ Kernel
     \/ \E c \in Conn : ClientConnects(c)
  /\ UNCHANGED <<main, signal>>

\* Mutant of RunHandler: handlers also run while the scope unwinds.
RunHandlerAnytime == Handler /\ UNCHANGED <<main, signal>>

RunHandler == Dispatching /\ Handler /\ UNCHANGED <<main, signal>>

HandlerThrows == Dispatching /\ ThrowingHandler /\ main' = "caught" /\ UNCHANGED signal

\* A handler of something else on the io_context throws: of another server.
OtherThrows == Dispatching /\ main' = "caught" /\ UNCHANGED <<vars, signal>>

\* The loop around run().
RunAgain == main = "caught" /\ main' = "running" /\ UNCHANGED <<vars, signal>>

\* Mutants of RunReturns: std::exit on the spot; a loop without break.
RunExits ==
  /\ main = "running"
  /\ signal = "stopped"
  /\ main' = "exited"
  /\ UNCHANGED <<vars, signal>>

RunLoops ==
  /\ main = "running"
  /\ signal = "stopped"
  /\ main' = "caught"
  /\ UNCHANGED <<vars, signal>>

RunReturns ==
  /\ main = "running"
  /\ signal = "stopped"
  /\ main' = "leaving"
  /\ UNCHANGED <<vars, signal>>

\* server_set is declared after ioc, so its destructor runs first.
LeaveServers == main = "leaving" /\ DestroyServer /\ UNCHANGED <<main, signal>>

LeaveContext == main = "leaving" /\ DestroyContext /\ main' = "exited" /\ UNCHANGED signal

-----------------------------------------------------------------------------
\* What the main thread does by itself, outside of the handlers.
Control ==
  \/ BuildServer \/ SetupThrows \/ EnterRun \/ RunAgain \/ RunReturns
  \/ LeaveServers \/ LeaveContext

MainNext ==
  \/ Control \/ RaiseSignal \/ SignalHandler \/ KernelStep
  \/ RunHandler \/ HandlerThrows \/ OtherThrows

MainSpec == MainInit /\ [][MainNext]_mvars

(***************************************************************************)
(* Fairness.  The thread runs, and the io_context takes its ready handlers *)
(* in FIFO order, so a queued handler is run in the end unless run() is    *)
(* stopped: SF, for an exception takes main() out of run() in between.     *)
(***************************************************************************)
Of(c) == {o \in ops : o.conn = c}

ServeConnection(c) ==
  /\ Dispatching
  /\ \/ (\E o \in Of(c) : ConnectionHandler(o)) /\ UNCHANGED <<main, signal>>
     \/ (\E o \in Of(c) : ReadGoodThrows(o)) /\ main' = "caught" /\ UNCHANGED signal

ServeAccept ==
  /\ Dispatching
  /\ \/ AcceptingHandler /\ UNCHANGED <<main, signal>>
     \/ (\E c \in Conn : AcceptHandlerThrows(c)) /\ main' = "caught" /\ UNCHANGED signal

ThreadFairness ==
  /\ WF_mvars(Control)
  /\ SF_mvars(SignalHandler)
  /\ SF_mvars(ServeAccept)
  /\ \A c \in Conn : SF_mvars(ServeConnection(c))

(***************************************************************************)
(* What the code hopes of a client and of the kernel, for it sets no       *)
(* timeout and no limit: an operation completes, a request ends, accepting *)
(* a waiting client does not fail for ever.  Only Prompt clients are as    *)
(* good as that; the others may stall at any point.                        *)
(***************************************************************************)
OperationEnds(c) ==
  Dispatching /\ (\E o \in Of(c) : Complete(o)) /\ UNCHANGED <<main, signal>>

RequestEnds(c) ==
  Dispatching /\ (\E o \in Of(c) : ReadGood(o) \/ ReadBad(o)) /\ UNCHANGED <<main, signal>>

ClientAccepted(c) == Dispatching /\ AcceptCompletes(c) /\ UNCHANGED <<main, signal>>

ClientFairness ==
  \A c \in Prompt : /\ SF_mvars(OperationEnds(c))
                    /\ SF_mvars(RequestEnds(c))
                    /\ SF_mvars(ClientAccepted(c))

LiveSpec == MainSpec /\ ThreadFairness /\ ClientFairness

-----------------------------------------------------------------------------
(***************************************************************************)
(* Properties.                                                             *)
(***************************************************************************)
\* No handler ever runs against the destroyed server: main() stops dispatching
\* before its scope destroys anything, whatever is still queued by then.
NoUseAfterDestroy == ~dangling

\* "Gracefully exit application": when main() has returned no connection is
\* managed, no handler is pending and no socket is open, connections accepted by
\* the kernel but unknown to the manager included.
CleanExit ==
  main = "exited" => /\ connections = {} /\ ops = {} /\ accept = "none"
                     /\ \A c \in Conn : socket[c] # "open"

\* "Once all operations have finished the destructor will exit" (http_server.hpp):
\* when ~http_server has returned, no operation it cancelled is still to finish.
DestructorWaits == server = "destroyed" => ops = {} /\ accept \in {"none", "waiting"}

\* Once signalled, the program exits, whatever its clients do.
ExitsWhenSignalled == signal = "raised" ~> main = "exited"

\* The connection of a client that makes progress does not stay for ever: it is
\* replied to or fails, unless an exception left its handler; the clients that
\* stall keep theirs and hold up nobody else.
EveryConnectionEnds == \A c \in Prompt : c \in connections ~> c \notin connections \/ c \in abandoned

\* create_connection() threw, and with it went a socket nobody had answered.
FactoryThrew == accept = "none" /\ \E c \in Conn : socket[c] = "dropped" /\ reply[c] = "none"

\* A client that waits is accepted, whatever other clients do and whatever request
\* handlers throw, unless creating a connection threw.
EveryClientTaken == \A c \in Prompt : socket[c] = "backlog" ~> socket[c] # "backlog" \/ FactoryThrew

=============================================================================
