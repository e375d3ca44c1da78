----------------------------- MODULE RequestParser -----------------------------
(***************************************************************************)
(* request_parser: the automaton that turns the bytes of a connection into *)
(* an http_request, one byte at a time, whatever reads they arrive in.     *)
(*                                                                         *)
(* A byte stands for its class: a digit, the letters of "HTTP", a control  *)
(* character, a byte above 127.  A text is a sequence of bytes.            *)
(***************************************************************************)
EXTENDS Integers, Sequences, Functions, Listing, SequencesExt

CONSTANTS
  Char,          \* the bytes a client may send
  IntMax,        \* bound: the greatest int
  AfterOverflow  \* bound: what an int may hold after an overflow, which is undefined

ASSUME ParserAssumption == IntMax \in Nat /\ AfterOverflow \subseteq Int

\* is_digit, is_ctl, is_tspecial and is_char, on the bytes the models use.
Digit    == {"0", "1", "2", "3", "4", "5", "6", "7", "8", "9"} \cap Char
Ctl      == {"HT", "LF", "CR", "NUL", "DEL"} \cap Char
Tspecial == {"(", ")", "<", ">", "@", ",", ";", ":", "\\", "\"", "/", "[", "]", "?",
             "=", "{", "}", "SP", "HT"} \cap Char
NonAscii == {"0xE9"} \cap Char

\* Mutant of UriByte: a uri takes control characters.
UriByteUnchecked == Char \ {"SP"}

\* What the automaton takes for a method or a name, between folded lines, in a
\* uri and in a value.
Token     == Char \ (Ctl \cup Tspecial \cup NonAscii)
Lws       == {"SP", "HT"} \cap Char
UriByte   == Char \ (Ctl \cup {"SP"})
ValueByte == Char \ Ctl

(***************************************************************************)
(* consume(): one row per branch that does not return bad.  A row has the  *)
(* state, the bytes it accepts, the next state and where the byte goes.    *)
(* The byte that opens a header's name opens the header.                   *)
(***************************************************************************)
Branches == {
  <<"method_start",              Token,           "method",                    "method">>,
  <<"method",                    {"SP"},          "uri",                       "-">>,
  <<"method",                    Token,           "method",                    "method">>,
  <<"uri",                       {"SP"},          "http_version_h",            "-">>,
  <<"uri",                       UriByte,         "uri",                       "uri">>,
  <<"http_version_h",            {"H"},           "http_version_t_1",          "-">>,
  <<"http_version_t_1",          {"T"},           "http_version_t_2",          "-">>,
  <<"http_version_t_2",          {"T"},           "http_version_p",            "-">>,
  <<"http_version_p",            {"P"},           "http_version_slash",        "-">>,
  <<"http_version_slash",        {"/"},           "http_version_major_start",  "version">>,
  <<"http_version_major_start",  Digit,           "http_version_major",        "major">>,
  <<"http_version_major",        {"."},           "http_version_minor_start",  "-">>,
  <<"http_version_major",        Digit,           "http_version_major",        "major">>,
  <<"http_version_minor_start",  Digit,           "http_version_minor",        "minor">>,
  <<"http_version_minor",        {"CR"},          "expecting_newline_1",       "-">>,
  <<"http_version_minor",        Digit,           "http_version_minor",        "minor">>,
  <<"expecting_newline_1",       {"LF"},          "header_line_start",         "-">>,
  <<"header_line_start",         {"CR"},          "expecting_newline_3",       "-">>,
  <<"header_line_start",         Token,           "header_name",               "header">>,
  <<"header_lws",                {"CR"},          "expecting_newline_2",       "-">>,
  <<"header_lws",                Lws,             "header_lws",                "-">>,
  <<"header_lws",                ValueByte \ Lws, "header_value",              "value">>,
  <<"header_name",               {":"},           "space_before_header_value", "-">>,
  <<"header_name",               Token,           "header_name",               "name">>,
  <<"space_before_header_value", {"SP"},          "header_value",              "-">>,
  <<"header_value",              {"CR"},          "expecting_newline_2",       "-">>,
  <<"header_value",              ValueByte,       "header_value",              "value">>,
  <<"expecting_newline_2",       {"LF"},          "header_line_start",         "-">>
}

\* Mutant of FoldBranch: the white space of the fold goes into the value.
FoldBranchKeeping == <<"header_line_start", Lws, "header_value", "value">>

\* header_line_start, once there is a header to continue.
FoldBranch == <<"header_line_start", Lws, "header_lws", "-">>

States == {b[1] : b \in Branches} \cup {"expecting_newline_3"}
Text == Seq(Char)
Header == [name : Text, value : Text]
Request == [method : Text, uri : Text, major : Int, minor : Int, headers : Seq(Header)]

VARIABLES
  state,     \* request_parser::state_
  request,   \* the http_request being filled
  result,    \* what the last call of consume() returned
  consumed   \* history: the bytes so far

pvars == <<state, request, result, consumed>>

ParserTypeOK ==
  /\ state \in States
  /\ request \in Request
  /\ result \in {"indeterminate", "good", "bad"}
  /\ consumed \in Text

ParserInit ==
  /\ state = "method_start"
  /\ request = [method |-> <<>>, uri |-> <<>>, major |-> 0, minor |-> 0, headers |-> <<>>]
  /\ result = "indeterminate"
  /\ consumed = <<>>

Numerals == <<"0", "1", "2", "3", "4", "5", "6", "7", "8", "9">>

\* input - '0'
Figure(ch) == CHOOSE d \in 0..9 : Numerals[d + 1] = ch

IsInt(n) == -IntMax - 1 <= n /\ n <= IntMax

\* What n * 10 + input - '0' may give: the code of the byte, 48 for "0", is added
\* before 48 is taken off.
Shifted(n, ch) ==
  LET sum == n * 10 + 48 + Figure(ch)
  IN  IF IsInt(n * 10) /\ IsInt(sum) THEN {sum - 48} ELSE AfterOverflow

\* The numbers the field may get.
Counted(field, ch) ==
  CASE field = "major" -> Shifted(request.major, ch)
    [] field = "minor" -> Shifted(request.minor, ch)
    [] OTHER           -> {0}

\* The request with one more byte in the field, n the number it has come to.
Collected(field, ch, n) ==
  LET last == Len(request.headers)
  IN  CASE field = "-"       -> request
        [] field = "method"  -> [request EXCEPT !.method = Append(@, ch)]
        [] field = "uri"     -> [request EXCEPT !.uri = Append(@, ch)]
        [] field = "version" -> [request EXCEPT !.major = 0, !.minor = 0]
        [] field = "major"   -> [request EXCEPT !.major = n]
        [] field = "minor"   -> [request EXCEPT !.minor = n]
        [] field = "header"  -> [request EXCEPT !.headers = Append(@, [name |-> <<ch>>, value |-> <<>>])]
        [] field = "name"    -> [request EXCEPT !.headers[last].name = Append(@, ch)]
        [] field = "value"   -> [request EXCEPT !.headers[last].value = Append(@, ch)]

\* Mutant of Taking: a line may be folded before there is any header.
TakingUnguarded(ch) ==
  {b \in Branches \cup {FoldBranch} : b[1] = state /\ ch \in b[2]}

\* The branches that take the byte in the current state: one, or none.
Taking(ch) ==
  {b \in Branches \cup (IF request.headers # <<>> THEN {FoldBranch} ELSE {}) :
     b[1] = state /\ ch \in b[2]}

Completes(ch) == state = "expecting_newline_3" /\ ch = "LF"

Advance(ch) ==
  \E b \in Taking(ch) :
    /\ state' = b[3]
    /\ \E n \in Counted(b[4], ch) : request' = Collected(b[4], ch, n)
    /\ UNCHANGED result

Finish(ch) ==
  /\ Completes(ch)
  /\ result' = "good"
  /\ UNCHANGED <<state, request>>

Reject(ch) ==
  /\ Taking(ch) = {} /\ ~Completes(ch)
  /\ result' = "bad"
  /\ UNCHANGED <<state, request>>

\* parse() stops at the first good or bad, and drops what follows.
Consume(ch) ==
  /\ result = "indeterminate"
  /\ Advance(ch) \/ Finish(ch) \/ Reject(ch)
  /\ consumed' = Append(consumed, ch)

ParserNext == \E ch \in Char : Consume(ch)

ParserSpec == ParserInit /\ [][ParserNext]_pvars

-----------------------------------------------------------------------------
(***************************************************************************)
(* Properties.                                                             *)
(***************************************************************************)
\* The states that write to req.headers.back(), which is undefined on an empty
\* vector: they are reached only once a header has been opened.
InHeader == {"header_name", "space_before_header_value", "header_value", "header_lws"}

HeaderIsThere == state \in InHeader => request.headers # <<>>

CleanHeader(h) == h.name # <<>> /\ Range(h.name) \subseteq Token /\ Range(h.value) \cap Ctl = {}

\* Whatever was sent, the fields the rest of the server copies into replies, file
\* paths and routes hold no line break or other control character, the method and
\* the names are non-empty tokens, and the uri has no space.
FieldsAreClean ==
  /\ Range(request.method) \subseteq Token
  /\ Range(request.uri) \cap (Ctl \cup {"SP"}) = {}
  /\ state # "method_start" => request.method # <<>>
  /\ \A h \in Range(request.headers) : CleanHeader(h)

\* White space after a line break makes a fold: it goes, and so does the line break.
Folds(text, a) ==
  a + 2 \in DOMAIN text /\ text[a] = "CR" /\ text[a + 1] = "LF" /\ text[a + 2] \in Lws

InFold(text, i) == \E a \in 1..i : Folds(text, a) /\ \A k \in (a + 2)..i : text[k] \in Lws

Unfolded(text) ==
  LET kept == {i \in DOMAIN text : ~InFold(text, i)}
  IN  [n \in 1..Cardinality(kept) |-> text[Nth(kept, n)]]

IsNumeral(digits) == digits # <<>> /\ Range(digits) \subseteq Digit

Number(digits) ==
  LET n[k \in 0..Len(digits)] == IF k = 0 THEN 0 ELSE n[k - 1] * 10 + Figure(digits[k])
  IN  n[Len(digits)]

\* The number of the digits, as long as the last step does not overflow.
Counts(n, digits) == Number(digits) + 48 <= IntMax => n = Number(digits)

\* A request on lines of their own: Method SP Request-URI SP HTTP-Version, the
\* headers, and an empty one.
RequestLine(r, major, minor) ==
  r.method \o <<"SP">> \o r.uri \o <<"SP", "H", "T", "T", "P", "/">> \o major \o <<".">> \o minor

Field(header) == header.name \o <<":", "SP">> \o header.value \o <<"CR", "LF">>

Written(r, major, minor) ==
  RequestLine(r, major, minor) \o <<"CR", "LF">>
    \o FlattenSeq([k \in DOMAIN r.headers |-> Field(r.headers[k])]) \o <<"CR", "LF">>

\* The text is that request, folded anywhere in a value.
Denotes(text, r) ==
  LET unfolded == Unfolded(text)
      from == Len(r.method) + Len(r.uri) + 8
  IN  \E dot, end \in from..Len(unfolded) :
        LET major == SubSeq(unfolded, from, dot - 1)
            minor == SubSeq(unfolded, dot + 1, end - 1)
        IN  /\ IsNumeral(major) /\ Counts(r.major, major)
            /\ IsNumeral(minor) /\ Counts(r.minor, minor)
            /\ unfolded = Written(r, major, minor)

\* A request the parser calls good is the one its text denotes, of which there is one
\* only as the fields are clean: nothing is lost, invented, or put into another
\* field or header, wherever the reads cut the text.
GoodIsFaithful == result = "good" => Denotes(consumed, request)

\* A request as clients write it: the digits of its version, and the value of each
\* header in lines, each after the first with its white space.
Folded == [lws : Text, text : Text]
LaidHeader == [name : Text, first : Text, folds : Seq(Folded)]
Layout == [method : Text, uri : Text, major : Text, minor : Text, headers : Seq(LaidHeader)]

\* White space at the start of a line belongs to the fold.
WellFolded(fold) ==
  /\ fold.lws # <<>> /\ Range(fold.lws) \subseteq Lws
  /\ Range(fold.text) \subseteq ValueByte /\ (fold.text # <<>> => fold.text[1] \notin Lws)

WellLaid(h) ==
  /\ h.name # <<>> /\ Range(h.name) \subseteq Token
  /\ Range(h.first) \subseteq ValueByte
  /\ \A k \in DOMAIN h.folds : WellFolded(h.folds[k])

WellFormed(r) ==
  /\ r \in Layout
  /\ r.method # <<>> /\ Range(r.method) \subseteq Token
  /\ Range(r.uri) \subseteq UriByte
  /\ IsNumeral(r.major) /\ IsNumeral(r.minor)
  /\ \A k \in DOMAIN r.headers : WellLaid(r.headers[k])

\* It as a text.
Continuation(fold) == <<"CR", "LF">> \o fold.lws \o fold.text

FieldLines(h) ==
  h.name \o <<":", "SP">> \o h.first
    \o FlattenSeq([k \in DOMAIN h.folds |-> Continuation(h.folds[k])]) \o <<"CR", "LF">>

Laid(r) ==
  RequestLine(r, r.major, r.minor) \o <<"CR", "LF">>
    \o FlattenSeq([k \in DOMAIN r.headers |-> FieldLines(r.headers[k])]) \o <<"CR", "LF">>

\* What it means.
Value(h) == h.first \o FlattenSeq([k \in DOMAIN h.folds |-> h.folds[k].text])

Means(r, req) ==
  /\ req.method = r.method /\ req.uri = r.uri
  /\ Counts(req.major, r.major) /\ Counts(req.minor, r.minor)
  /\ req.headers = [k \in DOMAIN r.headers |-> [name |-> r.headers[k].name, value |-> Value(r.headers[k])]]

\* No well-formed request is refused, none is taken before its last byte, and the one
\* handed over then is the one that was meant.
Accepts(r) ==
  IsPrefix(consumed, Laid(r)) =>
    IF consumed = Laid(r) THEN result = "good" /\ Means(r, request) ELSE result = "indeterminate"

=============================================================================
