------------------------------- MODULE Exchange -------------------------------
(***************************************************************************)
(* What a server promises the clients that connect to it, with no word of  *)
(* acceptors, handlers or sockets: one exchange per connection, at most    *)
(* one answer per exchange, that answer delivered unchanged or the         *)
(* connection lost, and nothing left open once the server has stopped.     *)
(***************************************************************************)
CONSTANTS
  Conn,    \* the connections
  Answers  \* the answers a server may give

VARIABLES
  phase,   \* how far the exchange of each connection is
  answer,  \* the answer under way or delivered, <<>> when there is none
  stopped  \* the server is gone

evars == <<phase, answer, stopped>>

Init ==
  /\ phase = [c \in Conn |-> "out"]
  /\ answer = [c \in Conn |-> <<>>]
  /\ stopped = FALSE

\* The server takes the connection of a client.
Take(c) ==
  /\ ~stopped
  /\ phase[c] = "out"
  /\ phase' = [phase EXCEPT ![c] = "asking"]
  /\ UNCHANGED <<answer, stopped>>

\* It decides on the answer to the client's request, whole or malformed.
Decide(c) ==
  /\ phase[c] = "asking"
  /\ phase' = [phase EXCEPT ![c] = "answering"]
  /\ \E a \in Answers : answer' = [answer EXCEPT ![c] = <<a>>]
  /\ UNCHANGED stopped

\* The client has the whole answer and the connection is over.
Deliver(c) ==
  /\ phase[c] = "answering"
  /\ phase' = [phase EXCEPT ![c] = "served"]
  /\ UNCHANGED <<answer, stopped>>

\* The connection is lost, or refused before it was taken.
Lose(c) ==
  /\ phase[c] \in {"out", "asking", "answering"}
  /\ phase' = [phase EXCEPT ![c] = "lost"]
  /\ answer' = [answer EXCEPT ![c] = <<>>]
  /\ UNCHANGED stopped

\* The server goes, with every exchange under way and some that never began.
Halt ==
  /\ ~stopped
  /\ stopped' = TRUE
  /\ \E refused \in SUBSET {c \in Conn : phase[c] = "out"} :
       LET lost == refused \cup {c \in Conn : phase[c] \in {"asking", "answering"}}
       IN  /\ phase' = [c \in Conn |-> IF c \in lost THEN "lost" ELSE phase[c]]
           /\ answer' = [c \in Conn |-> IF c \in lost THEN <<>> ELSE answer[c]]

Next == Halt \/ \E c \in Conn : Take(c) \/ Decide(c) \/ Deliver(c) \/ Lose(c)

Spec == Init /\ [][Next]_evars

=============================================================================
