--------------------------- MODULE MCRequestParser ----------------------------
(* RequestParser fed with any bytes, on a small instance: every text over Char *)
(* whose repetitions and lines stay within the bounds.                         *)
EXTENDS RequestParser

CONSTANTS
  Looping,   \* bound: the states that may take more than one byte in a row
  MaxLoop,   \* bound: how many more
  MaxLines   \* bound: lines of a request, the empty one excepted

\* Every byte the automaton tells from the others, and some it does not.
Chars == {"H", "T", "P", "/", "0", "1", ".", ":", "SP", "HT", "CR", "LF", "0xE9"}

\* An overflow that wraps around gives any sign.
Wrapped == {-5, 3}

VARIABLE loop  \* bytes taken since the state last changed

Lines == Cardinality({i \in DOMAIN consumed : consumed[i] = "LF"})

\* The request line ahead of headers: the shortest for one method and version.
Shortest == request.method = <<"P">> /\ request.uri = <<>> /\ Len(consumed) = 13

MCInit == ParserInit /\ loop = 0

MCNext ==
  /\ ParserNext
  /\ loop' = IF state' = state THEN loop + 1 ELSE 0
  /\ loop' > 0 /\ result' = "indeterminate" => state \in Looping /\ loop' <= MaxLoop
  /\ state = "header_line_start" /\ (Lines = MaxLines \/ (Lines = 1 /\ ~Shortest))
       => state' \notin {"header_name", "header_lws"}

MCSpec == MCInit /\ [][MCNext]_<<pvars, loop>>

=============================================================================
