------------------------------ MODULE F16Servers ------------------------------
(***************************************************************************)
(* The f16 executable with a configuration of up to two servers, from the  *)
(* command line to the exit code: the servers are built one after the      *)
(* other, each in several steps that may throw, and share the io_context,  *)
(* the thread, the signal and the loop that catches the exceptions of      *)
(* their handlers.                                                         *)
(*                                                                         *)
(* Seen from either server this is F16Main (Implements); what is new is    *)
(* what one server and its faults mean to the other.                       *)
(***************************************************************************)
EXTENDS Naturals, Sequences, FiniteSets

CONSTANTS
  Conn1, Conn2,       \* the connections to the first and to the second server
  Tls1, Tls2,         \* whether their entries have an "ssl" section
  Faults1, Faults2,   \* what may throw in their handlers
  Prompt1, Prompt2,   \* the clients that make progress
  Section1, Section2, \* the sections their entries may have, "none" for neither
  Port                \* what the configurations listen on: addresses with ports

\* What is wrong in an entry of "servers": nothing, no address, a protocol with an
\* unknown name, a file OpenSSL cannot use, an unknown status or a location
\* without root, an address that cannot be resolved or bound.
Defect == {"none", "address", "protocol", "certificate", "section", "endpoint"}

\* The entries, each with a defect it can have.
Entry(tls, sections) ==
  {e \in [ssl : {tls}, port : Port, section : sections, defect : Defect] :
     /\ e.defect \in {"protocol", "certificate"} => e.ssl
     /\ e.defect = "section" => e.section # "none"}

\* The configurations; "serve" stands for one plain entry with locations.
Configuration ==
  LET first == Entry(Tls1, Section1)
  IN  {<<>>} \cup {<<e>> : e \in first} \cup {<<e, f>> : e \in first, f \in Entry(Tls2, Section2)}

VARIABLES
  server1, accept1, connections1, ops1, socket1, reply1, abandoned1, dangling1,
  server2, accept2, connections2, ops2, socket2, reply2, abandoned2, dangling2,
  main, signal,  \* as in F16Main
  asked,         \* how many servers the configuration has
  entries,       \* those still to be built
  stage,         \* how far the building of the first of them is
  handles,       \* the servers whose request_handler_ is set
  ports,         \* the ports bound by this process
  code           \* what main() is going to return

vars1 == <<server1, accept1, connections1, ops1, socket1, reply1, abandoned1, dangling1>>
vars2 == <<server2, accept2, connections2, ops2, socket2, reply2, abandoned2, dangling2>>
setup == <<asked, entries, stage, handles, ports, code>>
svars == <<vars1, vars2, main, signal, setup>>

F1 == INSTANCE F16Main WITH
        Conn <- Conn1, Tls <- Tls1, Faults <- Faults1, Prompt <- Prompt1,
        server <- server1, accept <- accept1, connections <- connections1, ops <- ops1,
        socket <- socket1, reply <- reply1, abandoned <- abandoned1, dangling <- dangling1

F2 == INSTANCE F16Main WITH
        Conn <- Conn2, Tls <- Tls2, Faults <- Faults2, Prompt <- Prompt2,
        server <- server2, accept <- accept2, connections <- connections2, ops <- ops2,
        socket <- socket2, reply <- reply2, abandoned <- abandoned2, dangling <- dangling2

ServersInit ==
  /\ F1!MainInit /\ F2!MainInit
  /\ entries \in Configuration
  /\ asked = Len(entries)
  /\ stage = "read"
  /\ handles = {} /\ ports = {}
  /\ code = 0

-----------------------------------------------------------------------------
(***************************************************************************)
(* Building.                                                               *)
(***************************************************************************)
Building == main = "setup" /\ entries # <<>>
entry == Head(entries)
current == asked - Len(entries) + 1

\* protocol_from_string
ProtocolUnknown == entry.ssl /\ entry.defect = "protocol"

\* The certificate, the key, dhparam or the certificates of the clients.
ContextThrows == entry.ssl /\ entry.defect = "certificate"

\* resolve(), open(), bind() and listen() of the acceptor; two servers of the
\* configuration cannot have one port.
ListenThrows == entry.defect = "endpoint" \/ entry.port \in ports

Step(from, to) ==
  /\ Building
  /\ stage = from
  /\ stage' = to
  /\ UNCHANGED <<asked, code, main, signal>>

ReadEntry ==
  /\ Step("read", "create")
  /\ entry.defect # "address" /\ ~ProtocolUnknown
  /\ UNCHANGED <<vars1, vars2, entries, handles, ports>>

CreateServer ==
  /\ Step("create", "handler")
  /\ ~ContextThrows
  /\ UNCHANGED <<vars1, vars2, entries, handles, ports>>

\* With neither "return" nor "locations" there is only a warning.
SetHandler ==
  /\ Step("handler", "listen")
  /\ entry.defect # "section"
  /\ handles' = IF entry.section = "none" THEN handles ELSE handles \cup {current}
  /\ UNCHANGED <<vars1, vars2, entries, ports>>

\* server->listen(), server_set.push_back()
ListenAndKeep ==
  /\ Step("listen", "read")
  /\ ~ListenThrows
  /\ \/ current = 1 /\ F1!Listen /\ UNCHANGED vars2
     \/ current = 2 /\ F2!Listen /\ UNCHANGED vars1
  /\ ports' = ports \cup {entry.port}
  /\ entries' = Tail(entries)
  /\ UNCHANGED handles

EntryThrows ==
  \/ stage = "read" /\ (entry.defect = "address" \/ ProtocolUnknown)
  \/ stage = "create" /\ ContextThrows
  \/ stage = "handler" /\ entry.defect = "section"
  \/ stage = "listen" /\ ListenThrows

\* Mutant of BuildThrows: the entry is skipped, the others are served.
BuildSkips ==
  /\ Building
  /\ EntryThrows
  /\ entries' = Tail(entries)
  /\ stage' = "read"
  /\ UNCHANGED <<vars1, vars2, main, signal, asked, handles, ports, code>>

\* The exception is caught at the end of main(), out of the scope of the servers.
BuildThrows ==
  /\ Building
  /\ EntryThrows
  /\ main' = "leaving"
  /\ code' = 1
  /\ UNCHANGED <<vars1, vars2, signal, asked, entries, stage, handles, ports>>

\* The file cannot be opened or parsed, or it has no "servers"; or there is no
\* subcommand and the help is printed.
NothingToBuild ==
  /\ main = "setup" /\ ports = {} /\ stage = "read"
  /\ main' = "leaving"
  /\ code' = 1
  /\ UNCHANGED <<vars1, vars2, signal, asked, entries, stage, handles, ports>>

EnterRun ==
  /\ entries = <<>>
  /\ main = "setup" /\ main' = "running"
  /\ UNCHANGED <<vars1, vars2, signal, setup>>

-----------------------------------------------------------------------------
(***************************************************************************)
(* Running: one step of one of the servers, or of what they share.         *)
(***************************************************************************)
RaiseSignal == F1!RaiseSignal /\ UNCHANGED <<vars2, setup>>
SignalHandler == F1!SignalHandler /\ UNCHANGED <<vars2, setup>>

\* Mutant of KernelStep: completions are waited for while the servers are built.
KernelStepAnytime ==
  \/ F1!Kernel /\ UNCHANGED <<vars2, main, signal, setup>>
  \/ F2!Kernel /\ UNCHANGED <<vars1, main, signal, setup>>

KernelStep ==
  \/ F1!KernelStep /\ UNCHANGED <<vars2, setup>>
  \/ F2!KernelStep /\ UNCHANGED <<vars1, setup>>

\* The std::function of a server without a section is empty, and throws.
Answers(i, reply, replyNext) ==
  i \in handles \/ \A c \in DOMAIN reply : replyNext[c] = "handled" => reply[c] = "handled"

RunHandler ==
  \/ F1!RunHandler /\ Answers(1, reply1, reply1') /\ UNCHANGED <<vars2, setup>>
  \/ F2!RunHandler /\ Answers(2, reply2, reply2') /\ UNCHANGED <<vars1, setup>>

\* Mutant of HandlerThrows: the exception gets past the loop.
HandlerThrowsOut ==
  /\ F1!Dispatching
  /\ \/ F1!ThrowingHandler /\ UNCHANGED vars2
     \/ F2!ThrowingHandler /\ UNCHANGED vars1
  /\ main' = "leaving" /\ code' = 1
  /\ UNCHANGED <<signal, asked, entries, stage, handles, ports>>

HandlerThrows ==
  \/ F1!HandlerThrows /\ UNCHANGED <<vars2, setup>>
  \/ F2!HandlerThrows /\ UNCHANGED <<vars1, setup>>

RunAgain == F1!RunAgain /\ UNCHANGED <<vars2, setup>>

\* Mutant of RunReturns: the break of the loop is missing.
RunReturnsLoops == F1!RunLoops /\ UNCHANGED <<vars2, setup>>

RunReturns == F1!RunReturns /\ UNCHANGED <<vars2, setup>>

\* The servers go in any order, the one that was being built with them; an entry
\* that was never reached leaves nothing to destroy.
LeaveServers ==
  \/ F1!LeaveServers /\ UNCHANGED <<vars2, setup>>
  \/ F2!LeaveServers /\ UNCHANGED <<vars1, setup>>

LeaveContext == F1!LeaveContext /\ F2!LeaveContext /\ UNCHANGED setup

-----------------------------------------------------------------------------
Control ==
  \/ ReadEntry \/ CreateServer \/ SetHandler \/ ListenAndKeep \/ BuildThrows
  \/ NothingToBuild \/ EnterRun \/ RunAgain \/ RunReturns \/ LeaveServers \/ LeaveContext

ServersNext ==
  \/ Control \/ RaiseSignal \/ SignalHandler \/ KernelStep \/ RunHandler \/ HandlerThrows

ServersSpec == ServersInit /\ [][ServersNext]_svars

\* The fairness of F16Main: of the thread, of the handlers of either server, and of
\* the clients that make progress.
ServersFairness ==
  /\ WF_svars(Control)
  /\ SF_svars(SignalHandler)
  /\ SF_svars(F1!ServeAccept /\ UNCHANGED <<vars2, setup>>)
  /\ SF_svars(F2!ServeAccept /\ UNCHANGED <<vars1, setup>>)
  /\ \A c \in Conn1 : SF_svars(F1!ServeConnection(c) /\ Answers(1, reply1, reply1') /\ UNCHANGED <<vars2, setup>>)
  /\ \A c \in Conn2 : SF_svars(F2!ServeConnection(c) /\ Answers(2, reply2, reply2') /\ UNCHANGED <<vars1, setup>>)
  /\ F1!ClientFairness
  /\ F2!ClientFairness

LiveServersSpec == ServersSpec /\ ServersFairness

-----------------------------------------------------------------------------
(***************************************************************************)
(* Properties.                                                             *)
(***************************************************************************)
\* To either server the program is the main() of F16Main: whatever the other one
\* does is a stutter, or a step that main() could take on its own.
Implements == F1!MainSpec /\ F2!MainSpec

\* The program runs with all of its servers or not at all: in the loop each entry
\* of the configuration has a server that listens, on a port of its own.
AllOrNothing ==
  main \in {"running", "caught"} =>
    /\ Cardinality(ports) = asked
    /\ asked >= 1 => server1 = "listening"
    /\ asked >= 2 => server2 = "listening"

\* No client is taken by the servers of a configuration that turns out not to be
\* complete, though they listen while the others are built.
TakenWhenComplete ==
  \A c \in Conn1 : socket1[c] \in {"open", "finished"} => entries = <<>>

\* main() returns 0 when it was told to stop, and 1 when it could not begin; then
\* nobody had a reply.
ExitCode ==
  main = "exited" => IF code = 0 THEN signal = "stopped" /\ entries = <<>>
                     ELSE /\ \A c \in Conn1 : reply1[c] = "none"
                          /\ \A c \in Conn2 : reply2[c] = "none"

\* Once signalled the program exits, whatever either server is doing.
ExitsWithServers == signal = "raised" ~> main = "exited"

\* A client of the second server is taken, whatever the handlers of the first throw
\* and however its clients stall, unless the program is told to stop.
SecondServes ==
  \A c \in Prompt2 : socket2[c] = "backlog" ~> socket2[c] = "open" \/ signal # "none"

=============================================================================
