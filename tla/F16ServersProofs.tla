--------------------------- MODULE F16ServersProofs ---------------------------
(***************************************************************************)
(* What several servers in one process mean to each other: nothing that    *)
(* main() could not do to either of them alone; and main() runs with all   *)
(* of the servers of its configuration or with none.                       *)
(***************************************************************************)
EXTENDS F16Servers, FiniteSetTheorems, TLAPS

-----------------------------------------------------------------------------
(***************************************************************************)
(* The program seen from the first server.                                 *)
(***************************************************************************)
\* Setting up: its own listen(), a failure somewhere, or a stutter.
LEMMA SetupOfFirst ==
  ASSUME \/ ReadEntry \/ CreateServer \/ SetHandler \/ ListenAndKeep \/ BuildThrows
         \/ NothingToBuild \/ EnterRun
  PROVE  [F1!MainNext]_(F1!mvars)
<1>1. CASE ReadEntry \/ CreateServer \/ SetHandler
  BY <1>1 DEF ReadEntry, CreateServer, SetHandler, Step, vars1, F1!mvars, F1!vars
<1>2. CASE ListenAndKeep
  <2>1. main = "setup" /\ UNCHANGED <<main, signal>>
    BY <1>2 DEF ListenAndKeep, Step, Building
  <2>2. CASE F1!Listen
    BY <2>1, <2>2 DEF F1!MainNext, F1!Control, F1!BuildServer
  <2>3. CASE UNCHANGED vars1
    BY <2>1, <2>3 DEF vars1, F1!mvars, F1!vars
  <2>. QED
    BY <1>2, <2>2, <2>3 DEF ListenAndKeep
<1>3. CASE BuildThrows \/ NothingToBuild
  BY <1>3 DEF BuildThrows, NothingToBuild, Building, vars1, F1!vars, F1!MainNext, F1!Control, F1!SetupThrows
<1>4. CASE EnterRun
  BY <1>4 DEF EnterRun, vars1, F1!vars, F1!MainNext, F1!Control, F1!EnterRun
<1>. QED
  BY <1>1, <1>2, <1>3, <1>4

\* Running: its own steps are those of its main(), the other's are invisible, but
\* for an exception that leaves run().
LEMMA RunOfFirst ==
  ASSUME \/ RaiseSignal \/ SignalHandler \/ KernelStep \/ RunHandler \/ HandlerThrows
         \/ RunAgain \/ RunReturns \/ LeaveServers \/ LeaveContext
  PROVE  [F1!MainNext]_(F1!mvars)
<1>1. CASE RaiseSignal \/ SignalHandler
  BY <1>1 DEF RaiseSignal, SignalHandler, F1!MainNext
<1>2. CASE KernelStep
  BY <1>2 DEF KernelStep, F2!KernelStep, vars1, F1!mvars, F1!vars, F1!MainNext
<1>3. CASE RunHandler
  BY <1>3 DEF RunHandler, F2!RunHandler, vars1, F1!mvars, F1!vars, F1!MainNext
<1>4. CASE HandlerThrows
  BY <1>4 DEF HandlerThrows, F2!HandlerThrows, vars1, F1!vars, F1!MainNext, F1!OtherThrows,
     F1!Dispatching, F2!Dispatching
<1>5. CASE RunAgain \/ RunReturns
  BY <1>5 DEF RunAgain, RunReturns, F1!MainNext, F1!Control
<1>6. CASE LeaveServers \/ LeaveContext
  BY <1>6 DEF LeaveServers, LeaveContext, F2!LeaveServers, vars1, F1!mvars, F1!vars, F1!MainNext, F1!Control
<1>. QED
  BY <1>1, <1>2, <1>3, <1>4, <1>5, <1>6

LEMMA StepOfFirst == [ServersNext]_svars => [F1!MainNext]_(F1!mvars)
<1>1. CASE UNCHANGED svars
  BY <1>1 DEF svars, vars1, F1!mvars, F1!vars
<1>. QED
  BY <1>1, SetupOfFirst, RunOfFirst DEF ServersNext, Control

-----------------------------------------------------------------------------
(***************************************************************************)
(* And from the second.  What they share is written as the first's.        *)
(***************************************************************************)
LEMMA SetupOfSecond ==
  ASSUME \/ ReadEntry \/ CreateServer \/ SetHandler \/ ListenAndKeep \/ BuildThrows
         \/ NothingToBuild \/ EnterRun
  PROVE  [F2!MainNext]_(F2!mvars)
<1>1. CASE ReadEntry \/ CreateServer \/ SetHandler
  BY <1>1 DEF ReadEntry, CreateServer, SetHandler, Step, vars2, F2!mvars, F2!vars
<1>2. CASE ListenAndKeep
  <2>1. main = "setup" /\ UNCHANGED <<main, signal>>
    BY <1>2 DEF ListenAndKeep, Step, Building
  <2>2. CASE F2!Listen
    BY <2>1, <2>2 DEF F2!MainNext, F2!Control, F2!BuildServer
  <2>3. CASE UNCHANGED vars2
    BY <2>1, <2>3 DEF vars2, F2!mvars, F2!vars
  <2>. QED
    BY <1>2, <2>2, <2>3 DEF ListenAndKeep
<1>3. CASE BuildThrows \/ NothingToBuild
  BY <1>3 DEF BuildThrows, NothingToBuild, Building, vars2, F2!vars, F2!MainNext, F2!Control, F2!SetupThrows
<1>4. CASE EnterRun
  BY <1>4 DEF EnterRun, vars2, F2!vars, F2!MainNext, F2!Control, F2!EnterRun
<1>. QED
  BY <1>1, <1>2, <1>3, <1>4

LEMMA RunOfSecond ==
  ASSUME \/ RaiseSignal \/ SignalHandler \/ KernelStep \/ RunHandler \/ HandlerThrows
         \/ RunAgain \/ RunReturns \/ LeaveServers \/ LeaveContext
  PROVE  [F2!MainNext]_(F2!mvars)
<1>1. CASE RaiseSignal \/ SignalHandler
  BY <1>1 DEF RaiseSignal, SignalHandler, F1!RaiseSignal, F1!SignalHandler, F1!Dispatching,
     F2!RaiseSignal, F2!SignalHandler, F2!Dispatching, vars2, F2!vars, F2!MainNext
<1>2. CASE KernelStep
  BY <1>2 DEF KernelStep, F1!KernelStep, vars2, F2!mvars, F2!vars, F2!MainNext
<1>3. CASE RunHandler
  BY <1>3 DEF RunHandler, F1!RunHandler, vars2, F2!mvars, F2!vars, F2!MainNext
<1>4. CASE HandlerThrows
  BY <1>4 DEF HandlerThrows, F1!HandlerThrows, vars2, F2!vars, F2!MainNext, F2!OtherThrows,
     F1!Dispatching, F2!Dispatching
<1>5. CASE RunAgain \/ RunReturns
  BY <1>5 DEF RunAgain, RunReturns, F1!RunAgain, F1!RunReturns, F2!RunAgain, F2!RunReturns,
     vars2, F2!vars, F2!MainNext, F2!Control
<1>6. CASE LeaveServers \/ LeaveContext
  BY <1>6 DEF LeaveServers, LeaveContext, F1!LeaveServers, vars2, F2!mvars, F2!vars, F2!MainNext, F2!Control
<1>. QED
  BY <1>1, <1>2, <1>3, <1>4, <1>5, <1>6

LEMMA StepOfSecond == [ServersNext]_svars => [F2!MainNext]_(F2!mvars)
<1>1. CASE UNCHANGED svars
  BY <1>1 DEF svars, vars2, F2!mvars, F2!vars
<1>. QED
  BY <1>1, SetupOfSecond, RunOfSecond DEF ServersNext, Control

\* Whatever the configuration and whatever the other server does, each server
\* lives in a main() of F16Main, with the theorems of HttpServerProofs.
THEOREM ServersImplement == ServersSpec => Implements
<1>1. ServersInit => F1!MainInit /\ F2!MainInit
  BY DEF ServersInit
<1>. QED
  BY <1>1, StepOfFirst, StepOfSecond, PTL DEF ServersSpec, Implements, F1!MainSpec, F2!MainSpec

-----------------------------------------------------------------------------
(***************************************************************************)
(* All of the servers, or none.                                            *)
(***************************************************************************)
AnyEntry == Entry(Tls1, Section1) \cup Entry(Tls2, Section2)

\* While the program is set up or runs, the entries that are done have a port each
\* and a server that listens; it runs when all are done.
BuildInv ==
  /\ main \in {"setup", "running", "caught", "leaving", "exited"}
  /\ asked \in 0..2
  /\ entries \in Seq(AnyEntry) /\ Len(entries) <= asked
  /\ IsFiniteSet(ports) /\ Cardinality(ports) = asked - Len(entries)
  /\ main \in {"setup", "running", "caught"} =>
       /\ asked - Len(entries) >= 1 => server1 = "listening"
       /\ asked - Len(entries) >= 2 => server2 = "listening"
  /\ main \in {"running", "caught"} => entries = <<>>

\* Until then the sockets of its clients are not looked at.
TakenInv == entries # <<>> => socket1 \in [Conn1 -> {"none", "backlog", "dropped"}]

\* Nobody has a reply before the loop, nor when it is not reached; it is left by the
\* signal only.
CodeInv ==
  /\ code \in {0, 1}
  /\ main = "setup" \/ code = 1 => /\ \A c \in Conn1 : reply1[c] = "none"
                                  /\ \A c \in Conn2 : reply2[c] = "none"
  /\ code = 1 => main \in {"leaving", "exited"}
  /\ main \in {"leaving", "exited"} /\ code = 0 => signal = "stopped" /\ entries = <<>>

ServersInv == BuildInv /\ TakenInv /\ CodeInv

\* Handlers and the kernel leave the server as it is.
LEMMA HandlersKeepFirst ==
  ASSUME F1!Kernel \/ F1!Handler \/ F1!ThrowingHandler
  PROVE  UNCHANGED server1
  BY DEF F1!Kernel, F1!Handler, F1!AcceptingHandler, F1!ThrowingHandler, F1!ConnectionHandler,
     F1!AcceptFails, F1!ClientConnects, F1!AcceptCompletes, F1!Complete, F1!AcceptErrorHandler,
     F1!AcceptHandlerDangles, F1!AcceptHandler, F1!AcceptHandlerThrows, F1!HandshakeDone,
     F1!HandshakeFails, F1!ReadMore, F1!ReadGood, F1!ReadGoodThrows, F1!ReadBad, F1!ReadFails,
     F1!WriteDone, F1!WriteFails, F1!HandlerAborted, F1!HandlerDangles, F1!Continue, F1!Stop,
     F1!acceptor

LEMMA HandlersKeepSecond ==
  ASSUME F2!Kernel \/ F2!Handler \/ F2!ThrowingHandler
  PROVE  UNCHANGED server2
  BY DEF F2!Kernel, F2!Handler, F2!AcceptingHandler, F2!ThrowingHandler, F2!ConnectionHandler,
     F2!AcceptFails, F2!ClientConnects, F2!AcceptCompletes, F2!Complete, F2!AcceptErrorHandler,
     F2!AcceptHandlerDangles, F2!AcceptHandler, F2!AcceptHandlerThrows, F2!HandshakeDone,
     F2!HandshakeFails, F2!ReadMore, F2!ReadGood, F2!ReadGoodThrows, F2!ReadBad, F2!ReadFails,
     F2!WriteDone, F2!WriteFails, F2!HandlerAborted, F2!HandlerDangles, F2!Continue, F2!Stop,
     F2!acceptor

LEMMA ServersInitInv == ServersInit => ServersInv
<1> SUFFICES ASSUME ServersInit PROVE ServersInv
  OBVIOUS
<1>1. /\ main = "setup" /\ signal = "none" /\ code = 0 /\ ports = {}
      /\ socket1 = [c \in Conn1 |-> "none"]
      /\ reply1 = [c \in Conn1 |-> "none"] /\ reply2 = [c \in Conn2 |-> "none"]
  BY DEF ServersInit, F1!MainInit, F1!Init, F2!MainInit, F2!Init
<1>2. entries \in Seq(AnyEntry) /\ asked = Len(entries) /\ asked \in 0..2
  <2>1. CASE entries = <<>>
    BY <2>1 DEF ServersInit
  <2>2. ASSUME NEW e \in AnyEntry, entries = <<e>>
        PROVE  entries \in Seq(AnyEntry) /\ Len(entries) = 1
    BY <2>2
  <2>3. ASSUME NEW e \in AnyEntry, NEW f \in AnyEntry, entries = <<e, f>>
        PROVE  entries \in Seq(AnyEntry) /\ Len(entries) = 2
    BY <2>3
  <2>4. \/ entries = <<>>
        \/ \E e \in AnyEntry : entries = <<e>>
        \/ \E e, f \in AnyEntry : entries = <<e, f>>
    BY DEF ServersInit, Configuration, AnyEntry
  <2>. QED
    BY <2>1, <2>2, <2>3, <2>4 DEF ServersInit
<1>. QED
  BY <1>1, <1>2, FS_EmptySet DEF ServersInv, BuildInv, TakenInv, CodeInv

\* A server more.
LEMMA ListenKeepsInv == ServersInv /\ ListenAndKeep => ServersInv'
<1> SUFFICES ASSUME ServersInv, ListenAndKeep PROVE ServersInv'
  OBVIOUS
<1>1. /\ main = "setup" /\ entries # <<>> /\ UNCHANGED <<asked, code, main, signal>>
      /\ entries' = Tail(entries) /\ ports' = ports \cup {entry.port} /\ entry.port \notin ports
  BY DEF ListenAndKeep, Step, Building, ListenThrows
<1>2. entries' \in Seq(AnyEntry) /\ Len(entries') = Len(entries) - 1 /\ Len(entries) \in Nat
  BY <1>1 DEF ServersInv, BuildInv
<1>3. IsFiniteSet(ports') /\ Cardinality(ports') = Cardinality(ports) + 1
  BY <1>1, FS_AddElement DEF ServersInv, BuildInv
<1>4. /\ current = 1 => server1' = "listening"
      /\ current = 2 => server2' = "listening" /\ server1' = server1
      /\ UNCHANGED <<socket1, reply1, reply2>>
  BY DEF ListenAndKeep, F1!Listen, F2!Listen, vars1, vars2, current
<1>5. BuildInv'
  BY <1>1, <1>2, <1>3, <1>4 DEF ServersInv, BuildInv, current
<1>6. TakenInv' /\ CodeInv'
  BY <1>1, <1>4 DEF ServersInv, TakenInv, CodeInv
<1>. QED
  BY <1>5, <1>6 DEF ServersInv

\* Handlers and completions: inside run() no entry is left to be built, outside of it
\* clients connect and that is all.
LEMMA RunKeepsInv == ServersInv /\ (KernelStep \/ RunHandler \/ HandlerThrows) => ServersInv'
<1> SUFFICES ASSUME ServersInv, KernelStep \/ RunHandler \/ HandlerThrows PROVE ServersInv'
  OBVIOUS
<1>1. UNCHANGED <<setup, signal>>
  BY DEF KernelStep, RunHandler, HandlerThrows, F1!KernelStep, F2!KernelStep, F1!RunHandler,
     F2!RunHandler, F1!HandlerThrows, F2!HandlerThrows
<1>2. CASE main = "running"
  <2>1. main' \in {"running", "caught"}
    BY <1>2 DEF KernelStep, RunHandler, HandlerThrows, F1!KernelStep, F2!KernelStep, F1!RunHandler,
       F2!RunHandler, F1!HandlerThrows, F2!HandlerThrows
  <2>2. UNCHANGED <<server1, server2>>
    <3>1. \/ (F1!Kernel \/ F1!Handler \/ F1!ThrowingHandler) /\ UNCHANGED vars2
          \/ (F2!Kernel \/ F2!Handler \/ F2!ThrowingHandler) /\ UNCHANGED vars1
      BY DEF KernelStep, RunHandler, HandlerThrows, F1!KernelStep, F2!KernelStep, F1!RunHandler,
         F2!RunHandler, F1!HandlerThrows, F2!HandlerThrows, F1!Kernel, F2!Kernel
    <3>. QED
      BY <3>1, HandlersKeepFirst, HandlersKeepSecond DEF vars1, vars2
  <2>. QED
    BY <1>1, <1>2, <2>1, <2>2 DEF ServersInv, BuildInv, TakenInv, CodeInv, setup
<1>3. CASE main # "running"
  <2>1. \/ (\E c \in Conn1 : F1!ClientConnects(c)) /\ UNCHANGED vars2
        \/ (\E c \in Conn2 : F2!ClientConnects(c)) /\ UNCHANGED vars1
    BY <1>3 DEF KernelStep, RunHandler, HandlerThrows, F1!KernelStep, F2!KernelStep, F1!RunHandler,
       F2!RunHandler, F1!HandlerThrows, F2!HandlerThrows, F1!Dispatching, F2!Dispatching
  <2>2. UNCHANGED main
    BY <1>3 DEF KernelStep, RunHandler, HandlerThrows, F1!KernelStep, F2!KernelStep, F1!RunHandler,
       F2!RunHandler, F1!HandlerThrows, F2!HandlerThrows, F1!Dispatching, F2!Dispatching
  <2>3. /\ UNCHANGED <<server1, server2, reply1, reply2>>
        /\ socket1' = socket1 \/ \E c \in Conn1 : socket1' = [socket1 EXCEPT ![c] = "backlog"]
    BY <2>1 DEF F1!ClientConnects, F2!ClientConnects, F1!acceptor, F2!acceptor, vars1, vars2
  <2>. QED
    BY <1>1, <2>2, <2>3 DEF ServersInv, BuildInv, TakenInv, CodeInv, setup
<1>. QED
  BY <1>2, <1>3

\* Unwinding gives no reply and opens no socket.
LEMMA LeavingKeepsInv == ServersInv /\ (LeaveServers \/ LeaveContext) => ServersInv'
<1> SUFFICES ASSUME ServersInv, LeaveServers \/ LeaveContext PROVE ServersInv'
  OBVIOUS
<1>1. main = "leaving" /\ main' \in {"leaving", "exited"} /\ UNCHANGED <<setup, signal, reply1, reply2>>
  BY DEF LeaveServers, LeaveContext, F1!LeaveServers, F2!LeaveServers, F1!LeaveContext, F2!LeaveContext,
     F1!DestroyServer, F2!DestroyServer, F1!DestroyContext, F2!DestroyContext, vars1, vars2
<1>2. TakenInv'
  <2> SUFFICES ASSUME entries # <<>>
               PROVE  socket1' \in [Conn1 -> {"none", "backlog", "dropped"}]
    BY <1>1 DEF TakenInv, setup
  <2>1. socket1 \in [Conn1 -> {"none", "backlog", "dropped"}]
    BY DEF ServersInv, TakenInv
  <2>2. CASE F1!LeaveServers
    BY <2>1, <2>2 DEF F1!LeaveServers, F1!DestroyServer, F1!Closed
  <2>3. CASE F1!LeaveContext
    BY <2>1, <2>3 DEF F1!LeaveContext, F1!DestroyContext, F1!Closed
  <2>4. CASE UNCHANGED vars1
    BY <2>1, <2>4 DEF vars1
  <2>. QED
    BY <2>2, <2>3, <2>4 DEF LeaveServers, LeaveContext
<1>. QED
  BY <1>1, <1>2 DEF ServersInv, BuildInv, CodeInv, setup

LEMMA ServersStepInv == ServersInv /\ [ServersNext]_svars => ServersInv'
<1> SUFFICES ASSUME ServersInv, [ServersNext]_svars PROVE ServersInv'
  OBVIOUS
<1>. USE DEF ServersInv, BuildInv, TakenInv, CodeInv
<1>1. CASE UNCHANGED svars
  BY <1>1 DEF svars, vars1, vars2, setup
<1>2. CASE ReadEntry \/ CreateServer \/ SetHandler
  BY <1>2 DEF ReadEntry, CreateServer, SetHandler, Step, vars1, vars2
<1>3. CASE BuildThrows \/ NothingToBuild
  BY <1>3 DEF BuildThrows, NothingToBuild, Building, vars1, vars2
<1>4. CASE EnterRun
  BY <1>4 DEF EnterRun, vars1, vars2, setup
<1>5. CASE RaiseSignal \/ SignalHandler \/ RunAgain \/ RunReturns
  BY <1>5 DEF RaiseSignal, SignalHandler, RunAgain, RunReturns, F1!RaiseSignal, F1!SignalHandler,
     F1!Dispatching, F1!RunAgain, F1!RunReturns, F1!vars, vars2, setup
<1>. QED
  BY <1>1, <1>2, <1>3, <1>4, <1>5, ListenKeepsInv, RunKeepsInv, LeavingKeepsInv DEF ServersNext, Control

THEOREM ServersInvariance == ServersSpec => []ServersInv
  BY ServersInitInv, ServersStepInv, PTL DEF ServersSpec

\* In the loop every entry of the configuration has a server that listens.
THEOREM AllServersOrNone == ServersSpec => []AllOrNothing
<1>1. ServersInv => AllOrNothing
  BY DEF ServersInv, BuildInv, AllOrNothing
<1>. QED
  BY <1>1, ServersInvariance, PTL

\* No client is taken before the last entry is built.
THEOREM NoneTakenEarly == ServersSpec => []TakenWhenComplete
<1>1. ServersInv => TakenWhenComplete
  BY DEF ServersInv, TakenInv, TakenWhenComplete
<1>. QED
  BY <1>1, ServersInvariance, PTL

\* The exit code tells whether the program was stopped or never began.
THEOREM ExitCodeIsTrue == ServersSpec => []ExitCode
<1>1. ServersInv => ExitCode
  BY DEF ServersInv, CodeInv, ExitCode
<1>. QED
  BY <1>1, ServersInvariance, PTL

=============================================================================
