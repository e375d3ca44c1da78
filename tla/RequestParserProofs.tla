--------------------------- MODULE RequestParserProofs ---------------------------
(***************************************************************************)
(* What request_parser guarantees for every text and every set of bytes:   *)
(* the fields of the request stay clean, headers.back() is never reached   *)
(* on an empty vector, a request it takes is the one its text denotes, and *)
(* it takes each one that is well-formed.                                  *)
(***************************************************************************)
EXTENDS RequestParser, SequenceLemmas

Fields == {"-", "method", "uri", "version", "major", "minor", "header", "name", "value"}

\* The rows of the table, read by columns: where they go, what they put into a
\* field, and which of them may write to the last header.
LEMMA Rows ==
  ASSUME NEW b \in Branches \cup {FoldBranch}
  PROVE  /\ b[4] \in Fields
         /\ b[4] \in {"method", "header", "name"} => b[2] \subseteq Token
         /\ b[4] = "uri" => b[2] \subseteq UriByte
         /\ b[4] \in {"major", "minor"} => b[2] \subseteq Digit
         /\ b[4] = "value" => b[2] \subseteq ValueByte
         /\ b[4] \in {"name", "value"} => b[1] \in InHeader
         /\ b[3] \in InHeader => b[1] \in InHeader \/ b[4] = "header" \/ b = FoldBranch
         /\ b[1] = "method_start" => b[4] = "method"
         /\ b # FoldBranch => b \in Branches
  BY DEF Branches, FoldBranch, Fields, InHeader, Token, UriByte, ValueByte, Lws, Digit

\* Every row leads to a state consume() knows.
LEMMA Targets ==
  ASSUME NEW b \in Branches \cup {FoldBranch}
  PROVE  b[3] \in States
<1>. DEFINE Named == {"method", "uri", "http_version_h", "http_version_t_1", "http_version_t_2",
                      "http_version_p", "http_version_slash", "http_version_major_start",
                      "http_version_major", "http_version_minor_start", "http_version_minor",
                      "expecting_newline_1", "header_line_start", "header_lws", "header_name",
                      "space_before_header_value", "header_value", "expecting_newline_2",
                      "expecting_newline_3"}
<1>1. b[3] \in Named
  BY DEF Branches, FoldBranch
<1>2. \A s \in Named \ {"expecting_newline_3"} : \E r \in Branches : r[1] = s
  BY DEF Branches
<1>. QED
  BY <1>1, <1>2 DEF States

\* A digit is worth a number of one figure.
LEMMA FigureIs ==
  ASSUME NEW ch \in Digit
  PROVE  Figure(ch) \in 0..9
<1>1. \E v \in 0..9 : Numerals[v + 1] = ch
  BY DEF Digit, Numerals
<1>. QED
  BY <1>1 DEF Figure

\* So adding one gives some int; an overflow does too.
LEMMA DigitValue ==
  ASSUME NEW n \in Int, NEW ch \in Digit
  PROVE  Shifted(n, ch) \subseteq Int
<1>. DEFINE d == Figure(ch)
<1>2. d \in 0..9
  BY FigureIs
<1>. DEFINE sum == n * 10 + 48 + d
<1>3. Shifted(n, ch) = IF IsInt(n * 10) /\ IsInt(sum) THEN {sum - 48} ELSE AfterOverflow
  BY DEF Shifted
<1>4. sum - 48 \in Int
  <2>. HIDE DEF d
  <2>. QED
    BY <1>2
<1>. HIDE DEF sum
<1>. QED
  BY <1>3, <1>4, ParserAssumption

\* So a number of the version stays an int.
LEMMA Counting ==
  ASSUME request \in Request, NEW field, NEW ch \in Char,
         field \in {"major", "minor"} => ch \in Digit
  PROVE  Counted(field, ch) \subseteq Int
<1>1. request.major \in Int /\ request.minor \in Int
  BY DEF Request
<1>. QED
  BY <1>1, DigitValue DEF Counted

\* Appending to a text, or to one field of the last header, keeps the types.
LEMMA TextGrows ==
  ASSUME NEW t \in Text, NEW ch \in Char
  PROVE  Append(t, ch) \in Text /\ Append(t, ch) # <<>>
<1>1. Append(t, ch) \in Text
  BY DEF Text
<1>2. Len(Append(t, ch)) = Len(t) + 1 /\ Len(t) \in Nat
  BY DEF Text
<1>. QED
  BY <1>1, <1>2

\* Collecting a byte keeps the request well typed, and loses no header.
LEMMA Collecting ==
  ASSUME request \in Request, NEW ch \in Char, NEW field \in Fields, NEW n \in Int,
         field \in {"name", "value"} => request.headers # <<>>
  PROVE  /\ Collected(field, ch, n) \in Request
         /\ request.headers # <<>> \/ field = "header" => Collected(field, ch, n).headers # <<>>
<1>. DEFINE last == Len(request.headers)
<1>0. /\ request.method \in Text /\ request.uri \in Text
      /\ request.major \in Int /\ request.minor \in Int /\ request.headers \in Seq(Header)
  BY DEF Request
<1>1. CASE field = "-"
  BY <1>1 DEF Collected
<1>2. CASE field = "method"
  <2>1. Collected(field, ch, n) = [request EXCEPT !.method = Append(@, ch)]
    BY <1>2 DEF Collected
  <2>. QED
    BY <1>0, <1>2, <2>1, TextGrows DEF Request
<1>3. CASE field = "uri"
  <2>1. Collected(field, ch, n) = [request EXCEPT !.uri = Append(@, ch)]
    BY <1>3 DEF Collected
  <2>. QED
    BY <1>0, <1>3, <2>1, TextGrows DEF Request
<1>4. CASE field = "version"
  <2>1. Collected(field, ch, n) = [[request EXCEPT !.major = 0] EXCEPT !.minor = 0]
    BY <1>4 DEF Collected
  <2>2. [request EXCEPT !.major = 0] \in Request
    BY DEF Request
  <2>. QED
    BY <1>4, <2>1, <2>2 DEF Request
<1>5. CASE field = "major"
  <2>1. Collected(field, ch, n) = [request EXCEPT !.major = n]
    BY <1>5 DEF Collected
  <2>. QED
    BY <1>0, <1>5, <2>1 DEF Request
<1>6. CASE field = "minor"
  <2>1. Collected(field, ch, n) = [request EXCEPT !.minor = n]
    BY <1>6 DEF Collected
  <2>. QED
    BY <1>0, <1>6, <2>1 DEF Request
<1>7. CASE field = "header"
  <2>. DEFINE new == [name |-> <<ch>>, value |-> <<>>]
              grown == Append(request.headers, new)
  <2>1. Collected(field, ch, n) = [request EXCEPT !.headers = grown]
    BY <1>7 DEF Collected
  <2>2. new \in Header
    BY DEF Header, Text
  <2>. HIDE DEF new
  <2>3. grown \in Seq(Header) /\ Len(grown) = Len(request.headers) + 1
    BY <1>0, <2>2
  <2>4. grown # <<>>
    BY <1>0, <2>3
  <2>. HIDE DEF grown
  <2>. QED
    BY <1>0, <1>7, <2>1, <2>3, <2>4 DEF Request
<1>8. CASE field = "name"
  <2>1. Collected(field, ch, n) = [request EXCEPT !.headers[last].name = Append(@, ch)]
    BY <1>8 DEF Collected
  <2>2. last \in DOMAIN request.headers /\ request.headers[last] \in Header
    BY <1>0, <1>8
  <2>3. [request.headers[last] EXCEPT !.name = Append(@, ch)] \in Header
    BY <2>2, TextGrows DEF Header
  <2>. DEFINE new == [request.headers EXCEPT ![last].name = Append(@, ch)]
  <2>4. new \in Seq(Header) /\ Len(new) = Len(request.headers)
    BY <1>0, <2>2, <2>3
  <2>5. Collected(field, ch, n) = [request EXCEPT !.headers = new]
    BY <2>1
  <2>6. new # <<>>
    BY <1>0, <2>2, <2>4
  <2>. HIDE DEF new
  <2>. QED
    BY <1>0, <2>4, <2>5, <2>6 DEF Request
<1>9. CASE field = "value"
  <2>1. Collected(field, ch, n) = [request EXCEPT !.headers[last].value = Append(@, ch)]
    BY <1>9 DEF Collected
  <2>2. last \in DOMAIN request.headers /\ request.headers[last] \in Header
    BY <1>0, <1>9
  <2>3. [request.headers[last] EXCEPT !.value = Append(@, ch)] \in Header
    BY <2>2, TextGrows DEF Header
  <2>. DEFINE new == [request.headers EXCEPT ![last].value = Append(@, ch)]
  <2>4. new \in Seq(Header) /\ Len(new) = Len(request.headers)
    BY <1>0, <2>2, <2>3
  <2>5. Collected(field, ch, n) = [request EXCEPT !.headers = new]
    BY <2>1
  <2>6. new # <<>>
    BY <1>0, <2>2, <2>4
  <2>. HIDE DEF new
  <2>. QED
    BY <1>0, <2>4, <2>5, <2>6 DEF Request
<1>. QED
  BY <1>1, <1>2, <1>3, <1>4, <1>5, <1>6, <1>7, <1>8, <1>9 DEF Fields

-----------------------------------------------------------------------------
\* A byte that is taken by a row: what it may be for each field.
LEMMA Taken ==
  ASSUME ParserTypeOK, HeaderIsThere, NEW ch \in Char, NEW b \in Taking(ch)
  PROVE  /\ b \in Branches \cup {FoldBranch}
         /\ b[1] = state /\ ch \in b[2]
         /\ b[4] \in Fields
         /\ b[4] \in {"major", "minor"} => ch \in Digit
         /\ b[4] \in {"name", "value"} => request.headers # <<>>
         /\ b[3] \in InHeader => request.headers # <<>> \/ b[4] = "header"
<1>1. b \in Branches \cup {FoldBranch} /\ b[1] = state /\ ch \in b[2]
  BY DEF Taking
<1>2. b = FoldBranch => b \in Branches \/ request.headers # <<>>
  BY DEF Taking
<1>3. FoldBranch \notin Branches
  BY DEF FoldBranch, Branches
<1>. QED
  BY <1>1, <1>2, <1>3, Rows DEF HeaderIsThere

\* ParserTypeOK and HeaderIsThere hold together: the one says that the last
\* header can be written where the other says that it is there.
LEMMA ShapeStep ==
  ASSUME ParserTypeOK, HeaderIsThere, [ParserNext]_pvars
  PROVE  ParserTypeOK' /\ HeaderIsThere'
<1>. USE DEF ParserTypeOK
<1>1. CASE UNCHANGED pvars
  BY <1>1 DEF pvars, HeaderIsThere
<1>2. ASSUME NEW ch \in Char, Consume(ch) PROVE ParserTypeOK' /\ HeaderIsThere'
  <2>0. consumed' \in Text
    BY <1>2 DEF Consume, Text
  <2>1. CASE Advance(ch)
    <3>0. PICK b \in Taking(ch) :
            /\ state' = b[3] /\ UNCHANGED result
            /\ \E n \in Counted(b[4], ch) : request' = Collected(b[4], ch, n)
      BY <2>1 DEF Advance
    <3>1. PICK n \in Int : request' = Collected(b[4], ch, n)
      BY <3>0, Taken, Counting
    <3>2. state' \in States
      BY <3>0, Taken, Targets
    <3>3. /\ request' \in Request
          /\ request.headers # <<>> \/ b[4] = "header" => request'.headers # <<>>
      BY <3>1, Taken, Collecting
    <3>4. HeaderIsThere'
      BY <3>0, <3>3, Taken DEF HeaderIsThere
    <3>. QED
      BY <2>0, <3>0, <3>2, <3>3, <3>4
  <2>2. CASE Finish(ch) \/ Reject(ch)
    BY <2>0, <2>2 DEF Finish, Reject, HeaderIsThere
  <2>. QED
    BY <1>2, <2>1, <2>2 DEF Consume
<1>. QED
  BY <1>1, <1>2 DEF ParserNext

LEMMA ShapeInit == ParserInit => ParserTypeOK /\ HeaderIsThere
<1>1. "method_start" \in States /\ "method_start" \notin InHeader
  BY DEF States, Branches, InHeader
<1>. QED
  BY <1>1 DEF ParserInit, ParserTypeOK, HeaderIsThere, Request, Text

-----------------------------------------------------------------------------
\* A byte appended to a text joins its bytes.
LEMMA RangeGrows ==
  ASSUME NEW S, NEW t \in Seq(S), NEW x \in S
  PROVE  Range(Append(t, x)) = Range(t) \cup {x}
<1>. DEFINE u == Append(t, x)
<1>1. /\ DOMAIN u = DOMAIN t \cup {Len(t) + 1} /\ u[Len(t) + 1] = x
      /\ \A i \in DOMAIN t : u[i] = t[i]
  OBVIOUS
<1>. HIDE DEF u
<1>. QED
  BY <1>1 DEF Range

\* The bytes a row may put into a clean field keep it clean.
LEMMA CleanBytes ==
  ASSUME NEW ch \in Char, NEW b \in Branches \cup {FoldBranch}, ch \in b[2]
  PROVE  /\ b[4] \in {"method", "header", "name"} => ch \in Token
         /\ b[4] = "uri" => ch \notin Ctl \cup {"SP"}
         /\ b[4] = "value" => ch \notin Ctl
  BY Rows DEF UriByte, ValueByte

\* Collecting such a byte leaves no dirty field.
LEMMA CleanCollecting ==
  ASSUME request \in Request, FieldsAreClean, NEW ch \in Char, NEW field \in Fields, NEW n,
         field \in {"name", "value"} => request.headers # <<>>,
         field \in {"method", "header", "name"} => ch \in Token,
         field = "uri" => ch \notin Ctl \cup {"SP"},
         field = "value" => ch \notin Ctl
  PROVE  LET r == Collected(field, ch, n)
         IN  /\ Range(r.method) \subseteq Token
             /\ Range(r.uri) \cap (Ctl \cup {"SP"}) = {}
             /\ request.method # <<>> \/ field = "method" => r.method # <<>>
             /\ \A h \in Range(r.headers) : CleanHeader(h)
<1>. DEFINE last == Len(request.headers)
            r == Collected(field, ch, n)
<1>0. /\ request.method \in Text /\ request.uri \in Text /\ request.headers \in Seq(Header)
      /\ Range(request.method) \subseteq Token
      /\ Range(request.uri) \cap (Ctl \cup {"SP"}) = {}
      /\ \A h \in Range(request.headers) : CleanHeader(h)
  BY DEF Request, FieldsAreClean
<1>1. CASE field = "method"
  <2>1. r = [request EXCEPT !.method = Append(@, ch)]
    BY <1>1 DEF Collected
  <2>2. r.method = Append(request.method, ch) /\ r.uri = request.uri /\ r.headers = request.headers
    BY <2>1 DEF Request
  <2>3. Range(r.method) = Range(request.method) \cup {ch} /\ r.method # <<>>
    BY <1>0, <2>2, RangeGrows, TextGrows DEF Text
  <2>. QED
    BY <1>0, <1>1, <2>2, <2>3
<1>2. CASE field = "uri"
  <2>1. r = [request EXCEPT !.uri = Append(@, ch)]
    BY <1>2 DEF Collected
  <2>2. r.uri = Append(request.uri, ch) /\ r.method = request.method /\ r.headers = request.headers
    BY <2>1 DEF Request
  <2>3. Range(r.uri) = Range(request.uri) \cup {ch}
    BY <1>0, <2>2, RangeGrows DEF Text
  <2>. QED
    BY <1>0, <1>2, <2>2, <2>3
<1>3. CASE field \in {"-", "version", "major", "minor"}
  <2>1. r.method = request.method /\ r.uri = request.uri /\ r.headers = request.headers
    BY <1>3 DEF Collected, Request
  <2>. QED
    BY <1>0, <1>3, <2>1
<1>4. CASE field = "header"
  <2>. DEFINE new == [name |-> <<ch>>, value |-> <<>>]
  <2>1. r = [request EXCEPT !.headers = Append(@, new)]
    BY <1>4 DEF Collected
  <2>2. r.headers = Append(request.headers, new) /\ r.method = request.method /\ r.uri = request.uri
    BY <2>1 DEF Request
  <2>3. CleanHeader(new)
    BY <1>4 DEF CleanHeader, Range
  <2>4. new \in Header
    BY DEF Header, Text
  <2>. HIDE DEF new
  <2>5. Range(r.headers) = Range(request.headers) \cup {new}
    BY <1>0, <2>2, <2>4, RangeGrows
  <2>. QED
    BY <1>0, <1>4, <2>2, <2>3, <2>5
<1>5. CASE field \in {"name", "value"}
  <2>0. last \in DOMAIN request.headers /\ request.headers[last] \in Header
    BY <1>0, <1>5
  <2>. DEFINE old == request.headers[last]
              grown == IF field = "name" THEN [old EXCEPT !.name = Append(@, ch)]
                                         ELSE [old EXCEPT !.value = Append(@, ch)]
  <2>1. CleanHeader(old)
    BY <1>0, <2>0 DEF Range
  <2>2. CleanHeader(grown)
    <3>1. CASE field = "name"
      <4>1. grown.name = Append(old.name, ch) /\ grown.value = old.value /\ old.name \in Text
        BY <2>0, <3>1 DEF Header
      <4>2. grown.name # <<>> /\ Range(grown.name) = Range(old.name) \cup {ch}
        BY <4>1, RangeGrows, TextGrows DEF Text
      <4>. QED
        BY <2>1, <3>1, <4>1, <4>2 DEF CleanHeader
    <3>2. CASE field = "value"
      <4>1. grown.value = Append(old.value, ch) /\ grown.name = old.name /\ old.value \in Text
        BY <2>0, <3>2 DEF Header
      <4>2. Range(grown.value) = Range(old.value) \cup {ch}
        BY <4>1, RangeGrows DEF Text
      <4>. QED
        BY <2>1, <3>2, <4>1, <4>2 DEF CleanHeader
    <3>. QED
      BY <1>5, <3>1, <3>2
  <2>3. r = [request EXCEPT !.headers = [request.headers EXCEPT ![last] = grown]]
    BY <1>5 DEF Collected
  <2>. HIDE DEF grown
  <2>4. /\ r.headers = [request.headers EXCEPT ![last] = grown]
        /\ r.method = request.method /\ r.uri = request.uri
    BY <2>3 DEF Request
  <2>5. Range(r.headers) \subseteq Range(request.headers) \cup {grown}
    BY <1>0, <2>4 DEF Range
  <2>. QED
    BY <1>0, <1>5, <2>2, <2>4, <2>5
<1>. QED
  BY <1>1, <1>2, <1>3, <1>4, <1>5 DEF Fields

LEMMA CleanStep ==
  ASSUME ParserTypeOK, HeaderIsThere, FieldsAreClean, [ParserNext]_pvars
  PROVE  FieldsAreClean'
<1>1. CASE UNCHANGED pvars
  BY <1>1 DEF pvars, FieldsAreClean
<1>2. ASSUME NEW ch \in Char, Consume(ch) PROVE FieldsAreClean'
  <2>1. CASE Advance(ch)
    <3>0. PICK b \in Taking(ch) :
            state' = b[3] /\ \E n \in Counted(b[4], ch) : request' = Collected(b[4], ch, n)
      BY <2>1 DEF Advance
    <3>1. PICK n : request' = Collected(b[4], ch, n)
      BY <3>0
    <3>2. /\ Range(request'.method) \subseteq Token
          /\ Range(request'.uri) \cap (Ctl \cup {"SP"}) = {}
          /\ request.method # <<>> \/ b[4] = "method" => request'.method # <<>>
          /\ \A h \in Range(request'.headers) : CleanHeader(h)
      BY <3>1, Taken, CleanBytes, CleanCollecting DEF ParserTypeOK
    <3>3. b[4] = "method" \/ state # "method_start"
      BY Taken, Rows
    <3>. QED
      BY <3>2, <3>3 DEF FieldsAreClean
  <2>2. CASE Finish(ch) \/ Reject(ch)
    BY <2>2 DEF Finish, Reject, FieldsAreClean
  <2>. QED
    BY <1>2, <2>1, <2>2 DEF Consume
<1>. QED
  BY <1>1, <1>2 DEF ParserNext

-----------------------------------------------------------------------------
\* The parser never leaves the states consume() switches on, and the request it
\* fills keeps its type.
THEOREM ParserTypeCorrect == ParserSpec => []ParserTypeOK
  BY ShapeInit, ShapeStep, PTL DEF ParserSpec

\* headers.back() is never called on an empty vector, whatever a client sends.
THEOREM HeaderAlwaysThere == ParserSpec => []HeaderIsThere
  BY ShapeInit, ShapeStep, PTL DEF ParserSpec

\* No control character, and no space in the uri, gets into the fields that end
\* up in replies, routes and file names, at any point of any text.
THEOREM FieldsAlwaysClean == ParserSpec => []FieldsAreClean
<1>1. ParserInit => FieldsAreClean
  BY DEF ParserInit, FieldsAreClean, Range
<1>. QED
  BY <1>1, ShapeInit, ShapeStep, CleanStep, PTL DEF ParserSpec

-----------------------------------------------------------------------------
\* The places that no fold has, and the text of these.
Kept(text) == {i \in DOMAIN text : ~InFold(text, i)}

\* Without them the text is u.
Unfolds(text, u) ==
  \E s : Lists(s, Kept(text)) /\ u = [k \in 1..Len(s) |-> text[s[k]]]

\* That is what Unfolded computes.
LEMMA UnfoldedIs ==
  ASSUME NEW text, NEW u, Unfolds(text, u)
  PROVE  Unfolded(text) = u
<1>1. PICK s : Lists(s, Kept(text)) /\ u = [k \in 1..Len(s) |-> text[s[k]]]
  BY DEF Unfolds
<1>2. Cardinality(Kept(text)) = Len(s) /\ \A n \in 1..Len(s) : Nth(Kept(text), n) = s[n]
  BY <1>1, ListsNth
<1>3. Unfolded(text) = [n \in 1..Cardinality(Kept(text)) |-> text[Nth(Kept(text), n)]]
  BY DEF Unfolded, Kept
<1>. QED
  BY <1>1, <1>2, <1>3

\* Nothing is nothing, unfolded.
LEMMA UnfoldsEmpty == Unfolds(<<>>, <<>>)
<1>1. Kept(<<>>) = {}
  BY DEF Kept
<1>2. Lists(<<>>, {}) /\ Len(<<>>) = 0
  BY DEF Lists
<1>3. <<>> = [k \in 1..Len(<<>>) |-> <<>>[<<>>[k]]]
  BY <1>2
<1>. QED
  BY <1>1, <1>2, <1>3 DEF Unfolds

\* A byte that is kept.
LEMMA UnfoldsMore ==
  ASSUME NEW text \in Seq(Char), NEW ch \in Char, NEW u, Unfolds(text, u),
         Kept(Append(text, ch)) = Kept(text) \cup {Len(text) + 1}
  PROVE  Unfolds(Append(text, ch), Append(u, ch)) /\ u \in Seq(Char)
<1>. DEFINE more == Append(text, ch)
            n == Len(text)
<1>1. PICK s : Lists(s, Kept(text)) /\ u = [k \in 1..Len(s) |-> text[s[k]]]
  BY DEF Unfolds
<1>2. s \in Seq(Nat) /\ Len(s) \in Nat /\ \A k \in 1..Len(s) : s[k] \in Kept(text)
  BY <1>1 DEF Lists
<1>3. /\ n \in Nat /\ n + 1 \in Nat /\ \A x \in Kept(text) : x \in 1..n /\ x < n + 1
  BY DEF Kept
<1>4. Len(more) = n + 1 /\ more[n + 1] = ch /\ \A k \in 1..n : more[k] = text[k]
  OBVIOUS
<1>5. u \in Seq(Char) /\ Len(u) = Len(s) /\ \A k \in 1..Len(s) : u[k] = text[s[k]]
  <2>1. \A k \in 1..Len(s) : text[s[k]] \in Char
    BY <1>2, <1>3
  <2>. QED
    BY <1>1, <1>2, <2>1
<1>. DEFINE t == Append(s, n + 1)
<1>6. Lists(t, Kept(more))
  <2>1. \A x : x \in Kept(more) <=> x \in Kept(text) \/ x = n + 1
    OBVIOUS
  <2>. QED
    BY <1>1, <1>3, <2>1, ListsAppend
<1>7. Len(t) = Len(s) + 1 /\ t[Len(s) + 1] = n + 1 /\ \A k \in 1..Len(s) : t[k] = s[k]
  BY <1>2
<1>8. Append(u, ch) \in Seq(Char) /\ Len(Append(u, ch)) = Len(s) + 1
      /\ Append(u, ch)[Len(s) + 1] = ch /\ \A k \in 1..Len(s) : Append(u, ch)[k] = u[k]
  BY <1>2, <1>5
<1>. DEFINE v == [k \in 1..Len(t) |-> more[t[k]]]
            w == Append(u, ch)
<1>9. ASSUME NEW k \in 1..(Len(s) + 1) PROVE w[k] = more[t[k]]
  <2>. HIDE DEF w, t, more, n
  <2>1. CASE k = Len(s) + 1
    BY <1>4, <1>7, <1>8, <2>1 DEF w
  <2>2. CASE k # Len(s) + 1
    <3>1. k \in 1..Len(s)
      BY <1>2, <2>2
    <3>2. s[k] \in 1..n
      BY <1>2, <1>3, <3>1
    <3>. QED
      BY <1>4, <1>5, <1>7, <1>8, <3>1, <3>2 DEF w
  <2>. QED
    BY <2>1, <2>2
<1>10. w = [k \in 1..Len(t) |-> more[t[k]]]
  <2>. HIDE DEF t, more
  <2>0. w \in Seq(Char) /\ Len(w) = Len(s) + 1
    BY <1>8
  <2>. HIDE DEF w
  <2>1. w = [k \in 1..(Len(s) + 1) |-> w[k]]
    BY <2>0
  <2>. QED
    BY <1>7, <1>9, <2>1
<1>. QED
  BY <1>5, <1>6, <1>10 DEF Unfolds

\* A byte of a fold.
LEMMA UnfoldsFold ==
  ASSUME NEW text \in Seq(Char), NEW ch \in Char, NEW u, Unfolds(text, u),
         Kept(Append(text, ch)) = Kept(text)
  PROVE  Unfolds(Append(text, ch), u)
<1>. DEFINE more == Append(text, ch)
            n == Len(text)
<1>1. PICK s : Lists(s, Kept(text)) /\ u = [k \in 1..Len(s) |-> text[s[k]]]
  BY DEF Unfolds
<1>2. \A k \in 1..Len(s) : s[k] \in 1..n
  BY <1>1 DEF Lists, Kept
<1>3. \A k \in 1..n : more[k] = text[k]
  OBVIOUS
<1>. HIDE DEF more, n
<1>4. u = [k \in 1..Len(s) |-> more[s[k]]]
  BY <1>1, <1>2, <1>3
<1>. QED
  BY <1>1, <1>4 DEF Unfolds, more

\* A byte that takes back a line break.
LEMMA UnfoldsBreak ==
  ASSUME NEW text \in Seq(Char), NEW ch \in Char, NEW u, Unfolds(text, u), NEW n, n = Len(text),
         Kept(Append(text, ch)) = Kept(text) \ {n - 1, n}, n - 1 \in Kept(text), n \in Kept(text)
  PROVE  Unfolds(Append(text, ch), SubSeq(u, 1, Len(u) - 2)) /\ Len(u) >= 2
<1>. DEFINE more == Append(text, ch)
<1>1. PICK s : Lists(s, Kept(text)) /\ u = [k \in 1..Len(s) |-> text[s[k]]]
  BY DEF Unfolds
<1>2. n \in Nat /\ n - 1 \in Nat /\ \A x \in Kept(text) : x \in 1..n
  BY DEF Kept
<1>3. \A k \in 1..n : more[k] = text[k]
  OBVIOUS
<1>. HIDE DEF more
<1>. DEFINE T == Kept(text) \ {n}
            front == SubSeq(s, 1, Len(s) - 1)
            t == SubSeq(front, 1, Len(front) - 1)
<1>4. Lists(front, T) /\ Len(s) >= 1
  <2>1. \A x : x \in T <=> x \in Kept(text) /\ x # n
    OBVIOUS
  <2>2. \A x \in Kept(text) : x <= n
    BY <1>2
  <2>. HIDE DEF T
  <2>. QED
    BY <1>1, <2>1, <2>2, ListsFront
<1>5. Lists(t, Kept(more)) /\ Len(front) >= 1
  <2>1. \A x : x \in Kept(more) <=> x \in T /\ x # n - 1
    BY DEF more
  <2>2. n - 1 \in T /\ \A x \in T : x <= n - 1
    BY <1>2
  <2>. HIDE DEF T, front
  <2>. QED
    BY <1>4, <2>1, <2>2, ListsFront
<1>6. s \in Seq(Nat) /\ Len(s) \in Nat /\ \A k \in 1..Len(s) : s[k] \in 1..n
  BY <1>1, <1>2 DEF Lists
<1>7. front \in Seq(Nat) /\ Len(front) = Len(s) - 1 /\ \A k \in 1..(Len(s) - 1) : front[k] = s[k]
  <2>1. Len(s) - 1 \in Nat /\ Len(s) - 1 <= Len(s)
    BY <1>4, <1>6
  <2>. QED
    BY <1>6, <2>1, FrontIs
<1>8. Len(s) >= 2 /\ t \in Seq(Nat) /\ Len(t) = Len(s) - 2 /\ \A k \in 1..(Len(s) - 2) : t[k] = s[k]
  <2>1. Len(s) >= 2
    BY <1>5, <1>6, <1>7
  <2>. HIDE DEF front
  <2>2. t \in Seq(Nat) /\ Len(t) = Len(s) - 2 /\ \A k \in 1..(Len(s) - 2) : t[k] = front[k]
    <3>1. Len(front) - 1 = Len(s) - 2 /\ Len(s) - 2 \in Nat /\ Len(s) - 2 <= Len(front)
      BY <1>6, <1>7, <2>1
    <3>. QED
      BY <1>7, <3>1, FrontIs
  <2>3. \A k \in 1..(Len(s) - 2) : k \in 1..(Len(s) - 1)
    BY <1>6
  <2>. QED
    BY <1>7, <2>1, <2>2, <2>3
<1>9. u \in Seq(Char) /\ Len(u) = Len(s) /\ \A k \in 1..Len(s) : u[k] = text[s[k]]
  <2>1. \A k \in 1..Len(s) : text[s[k]] \in Char
    BY <1>6
  <2>. QED
    BY <1>1, <1>6, <2>1
<1>. DEFINE w == SubSeq(u, 1, Len(u) - 2)
<1>10. w = [k \in 1..(Len(s) - 2) |-> w[k]] /\ \A k \in 1..(Len(s) - 2) : w[k] = u[k]
  BY <1>6, <1>8, <1>9
<1>. HIDE DEF w, t
<1>11. \A k \in 1..(Len(s) - 2) : w[k] = more[t[k]]
  <2>1. \A k \in 1..(Len(s) - 2) : k \in 1..Len(s) /\ s[k] \in 1..n
    BY <1>6
  <2>. QED
    BY <1>3, <1>8, <1>9, <1>10, <2>1
<1>12. w = [k \in 1..Len(t) |-> more[t[k]]]
  BY <1>8, <1>10, <1>11
<1>. QED
  BY <1>5, <1>8, <1>9, <1>12 DEF Unfolds, more, w

\* One byte more, on the byte before it.
LEMMA FoldsMore ==
  ASSUME NEW text \in Seq(Char), NEW ch \in Char, NEW n, n = Len(text), NEW a \in 1..(n + 1)
  PROVE  /\ Folds(Append(text, ch), a) <=>
              \/ Folds(text, a)
              \/ a = n - 1 /\ n \in DOMAIN text /\ text[n - 1] = "CR" /\ text[n] = "LF" /\ ch \in Lws
         /\ Folds(text, a) => a + 2 <= n
<1>. DEFINE more == Append(text, ch)
<1>1. /\ n \in Nat /\ DOMAIN text = 1..n /\ DOMAIN more = 1..(n + 1) /\ more[n + 1] = ch
      /\ \A k \in 1..n : more[k] = text[k]
  OBVIOUS
<1>. HIDE DEF more
<1>2. CASE a + 2 <= n
  <2>1. /\ a + 2 \in 1..n /\ a + 2 \in 1..(n + 1) /\ a + 1 \in 1..n /\ a \in 1..n /\ a # n - 1
    BY <1>1, <1>2
  <2>. QED
    BY <1>1, <2>1, <1>2 DEF Folds, more
<1>3. CASE ~(a + 2 <= n)
  <2>1. a + 2 \notin 1..n
    BY <1>1, <1>3
  <2>2. CASE a = n - 1
    <3>1. a + 2 = n + 1 /\ a + 1 = n /\ a \in 1..n /\ n \in 1..n /\ n + 1 \in 1..(n + 1)
      BY <1>1, <2>2
    <3>. QED
      BY <1>1, <2>1, <2>2, <3>1 DEF Folds, more
  <2>3. CASE a # n - 1
    <3>1. a + 2 \notin 1..(n + 1)
      BY <1>1, <1>3, <2>3
    <3>. QED
      BY <1>1, <2>1, <2>3, <3>1 DEF Folds, more
  <2>. QED
    BY <2>2, <2>3
<1>. QED
  BY <1>2, <1>3

\* Whether an earlier byte is in a fold: the line break may turn into one.
LEMMA InFoldBefore ==
  ASSUME NEW text \in Seq(Char), NEW ch \in Char, NEW n, n = Len(text), NEW i \in 1..n
  PROVE  InFold(Append(text, ch), i) <=>
           \/ InFold(text, i)
           \/ i \in {n - 1, n} /\ n - 1 \in 1..n /\ text[n - 1] = "CR" /\ text[n] = "LF" /\ ch \in Lws
<1>. DEFINE more == Append(text, ch)
<1>1. n \in Nat /\ DOMAIN text = 1..n /\ \A k \in 1..n : more[k] = text[k]
  OBVIOUS
<1>. HIDE DEF more
<1>2. \A a \in 1..i : a \in 1..(n + 1) /\ \A k \in (a + 2)..i : k \in 1..n
  BY <1>1
<1>3. \A a \in 1..i : (\A k \in (a + 2)..i : more[k] \in Lws) <=> (\A k \in (a + 2)..i : text[k] \in Lws)
  BY <1>1, <1>2
<1>4. \A a \in 1..i : Folds(more, a) <=>
        \/ Folds(text, a)
        \/ a = n - 1 /\ n \in DOMAIN text /\ text[n - 1] = "CR" /\ text[n] = "LF" /\ ch \in Lws
  BY <1>2, FoldsMore DEF more
<1>5. ASSUME InFold(more, i), ~InFold(text, i)
      PROVE  i \in {n - 1, n} /\ n - 1 \in 1..n /\ text[n - 1] = "CR" /\ text[n] = "LF" /\ ch \in Lws
  <2>1. PICK a \in 1..i : Folds(more, a) /\ \A k \in (a + 2)..i : more[k] \in Lws
    BY <1>5 DEF InFold
  <2>2. ~Folds(text, a)
    BY <1>3, <1>5, <2>1 DEF InFold
  <2>3. a = n - 1 /\ text[n - 1] = "CR" /\ text[n] = "LF" /\ ch \in Lws
    BY <1>4, <2>1, <2>2
  <2>. QED
    BY <1>1, <2>3
<1>6. ASSUME InFold(text, i) PROVE InFold(more, i)
  BY <1>3, <1>4, <1>6 DEF InFold
<1>7. ASSUME i \in {n - 1, n}, n - 1 \in 1..n, text[n - 1] = "CR", text[n] = "LF", ch \in Lws
      PROVE  InFold(more, i)
  <2>1. n - 1 \in 1..i /\ n \in DOMAIN text
    BY <1>1, <1>7
  <2>2. Folds(more, n - 1)
    BY <1>4, <1>7, <2>1
  <2>3. \A k \in ((n - 1) + 2)..i : FALSE
    BY <1>1
  <2>. QED
    BY <2>1, <2>2, <2>3 DEF InFold
<1>. QED
  BY <1>5, <1>6, <1>7 DEF more

\* Whether the byte is.
LEMMA InFoldLast ==
  ASSUME NEW text \in Seq(Char), NEW ch \in Char, NEW n, n = Len(text)
  PROVE  InFold(Append(text, ch), n + 1) <=>
           ch \in Lws /\ n \in 1..n /\ \/ InFold(text, n) /\ text[n] \in Lws
                                       \/ n - 1 \in 1..n /\ text[n - 1] = "CR" /\ text[n] = "LF"
<1>. DEFINE more == Append(text, ch)
<1>1. /\ n \in Nat /\ DOMAIN text = 1..n /\ more[n + 1] = ch
      /\ \A k \in 1..n : more[k] = text[k]
  OBVIOUS
<1>2. \A a \in 1..(n + 1) :
        /\ Folds(more, a) <=>
             \/ Folds(text, a)
             \/ a = n - 1 /\ n \in DOMAIN text /\ text[n - 1] = "CR" /\ text[n] = "LF" /\ ch \in Lws
        /\ Folds(text, a) => a + 2 <= n
  BY FoldsMore
<1>. HIDE DEF more
<1>3. ASSUME InFold(more, n + 1)
      PROVE  ch \in Lws /\ n \in 1..n /\ \/ InFold(text, n) /\ text[n] \in Lws
                                         \/ n - 1 \in 1..n /\ text[n - 1] = "CR" /\ text[n] = "LF"
  <2>1. PICK a \in 1..(n + 1) : Folds(more, a) /\ \A k \in (a + 2)..(n + 1) : more[k] \in Lws
    BY <1>3 DEF InFold
  <2>2. CASE Folds(text, a)
    <3>1. a + 2 <= n /\ a \in 1..n /\ n \in (a + 2)..(n + 1) /\ n + 1 \in (a + 2)..(n + 1) /\ n \in 1..n
      BY <1>1, <1>2, <2>2
    <3>2. ch \in Lws /\ text[n] \in Lws
      BY <1>1, <2>1, <3>1
    <3>3. \A k \in (a + 2)..n : k \in (a + 2)..(n + 1) /\ k \in 1..n
      BY <1>1
    <3>4. \A k \in (a + 2)..n : text[k] \in Lws
      BY <1>1, <2>1, <3>3
    <3>. QED
      BY <2>2, <3>1, <3>2, <3>4 DEF InFold
  <2>3. CASE ~Folds(text, a)
    <3>1. a = n - 1 /\ n \in DOMAIN text /\ text[n - 1] = "CR" /\ text[n] = "LF" /\ ch \in Lws
      BY <1>2, <2>1, <2>3
    <3>2. n - 1 \in 1..n
      BY <1>1, <3>1
    <3>. QED
      BY <1>1, <3>1, <3>2
  <2>. QED
    BY <2>2, <2>3
<1>4. ASSUME ch \in Lws, n \in 1..n, InFold(text, n), text[n] \in Lws PROVE InFold(more, n + 1)
  <2>1. PICK a \in 1..n : Folds(text, a) /\ \A k \in (a + 2)..n : text[k] \in Lws
    BY <1>4 DEF InFold
  <2>2. a \in 1..(n + 1) /\ Folds(more, a)
    BY <1>1, <1>2, <2>1
  <2>3. ASSUME NEW k \in (a + 2)..(n + 1) PROVE more[k] \in Lws
    <3>1. k = n + 1 \/ (k \in (a + 2)..n /\ k \in 1..n)
      BY <1>1
    <3>. QED
      BY <1>1, <1>4, <2>1, <3>1
  <2>. QED
    BY <2>2, <2>3 DEF InFold
<1>5. ASSUME ch \in Lws, n \in 1..n, n - 1 \in 1..n, text[n - 1] = "CR", text[n] = "LF" PROVE InFold(more, n + 1)
  <2>1. n - 1 \in 1..(n + 1) /\ Folds(more, n - 1)
    BY <1>1, <1>2, <1>5
  <2>2. \A k \in ((n - 1) + 2)..(n + 1) : k = n + 1
    BY <1>1
  <2>. QED
    BY <1>1, <1>5, <2>1, <2>2 DEF InFold
<1>. QED
  BY <1>3, <1>4, <1>5 DEF more

-----------------------------------------------------------------------------
\* The last byte is kept, and no break that white space could turn into a fold.
Plain(text) == text = <<>> \/ (Len(text) \in Kept(text) /\ text[Len(text)] # "LF")

\* A line break, kept so far.
Breaks(text) ==
  LET n == Len(text)
  IN  n - 1 \in Kept(text) /\ n \in Kept(text) /\ text[n - 1] = "CR" /\ text[n] = "LF"

\* The white space of a fold.
Folding(text) == text # <<>> /\ Len(text) \notin Kept(text) /\ text[Len(text)] \in Lws

\* Which places are kept, one by one.
LEMMA KeptIs ==
  ASSUME NEW text \in Seq(Char), NEW i
  PROVE  i \in Kept(text) <=> i \in 1..Len(text) /\ ~InFold(text, i)
BY DEF Kept

\* A byte that is kept keeps the ones before it, unless it is white space after a
\* line break.
LEMMA KeepsByte ==
  ASSUME NEW text \in Seq(Char), NEW ch \in Char, ch \notin Lws \/ Plain(text)
  PROVE  Kept(Append(text, ch)) = Kept(text) \cup {Len(text) + 1}
<1>. DEFINE more == Append(text, ch)
            n == Len(text)
<1>1. n \in Nat /\ Len(more) = n + 1 /\ more \in Seq(Char) /\ (text = <<>> <=> n = 0)
  OBVIOUS
<1>2. ~InFold(more, n + 1)
  <2> SUFFICES ASSUME InFold(more, n + 1) PROVE FALSE
    OBVIOUS
  <2>1. ch \in Lws /\ n \in 1..n /\ \/ InFold(text, n) /\ text[n] \in Lws
                                    \/ n - 1 \in 1..n /\ text[n - 1] = "CR" /\ text[n] = "LF"
    BY InFoldLast
  <2>2. text # <<>> /\ Plain(text)
    BY <1>1, <2>1
  <2>. QED
    BY <2>1, <2>2, KeptIs DEF Plain
<1>3. \A i \in 1..n : InFold(more, i) <=> InFold(text, i)
  <2> SUFFICES ASSUME NEW i \in 1..n PROVE InFold(more, i) <=> InFold(text, i)
    OBVIOUS
  <2>1. InFold(more, i) <=>
           \/ InFold(text, i)
           \/ i \in {n - 1, n} /\ n - 1 \in 1..n /\ text[n - 1] = "CR" /\ text[n] = "LF" /\ ch \in Lws
    BY InFoldBefore
  <2>2. ~(text[n] = "LF" /\ ch \in Lws)
    BY <1>1 DEF Plain
  <2>. QED
    BY <2>1, <2>2
<1>. HIDE DEF more, n
<1>4. \A i : i \in 1..(n + 1) <=> i \in 1..n \/ i = n + 1
  BY <1>1
<1>5. \A i : i \in Kept(more) <=> i \in 1..(n + 1) /\ ~InFold(more, i)
  BY <1>1, KeptIs
<1>6. \A i : i \in Kept(text) <=> i \in 1..n /\ ~InFold(text, i)
  BY KeptIs DEF n
<1>7. \A i : i \in Kept(more) <=> i \in Kept(text) \/ i = n + 1
  BY <1>2, <1>3, <1>4, <1>5, <1>6
<1>. QED
  BY <1>7 DEF more, n

\* White space in a fold stays in it.
LEMMA FoldsByte ==
  ASSUME NEW text \in Seq(Char), NEW ch \in Lws \cap Char, Folding(text)
  PROVE  Kept(Append(text, ch)) = Kept(text)
<1>. DEFINE more == Append(text, ch)
            n == Len(text)
<1>1. n \in Nat /\ n \in 1..n /\ Len(more) = n + 1 /\ more \in Seq(Char)
  BY DEF Folding
<1>2. InFold(text, n) /\ text[n] \in Lws /\ text[n] # "LF"
  BY <1>1, KeptIs DEF Folding, Lws
<1>3. InFold(more, n + 1)
  BY <1>1, <1>2, InFoldLast
<1>4. \A i \in 1..n : InFold(more, i) <=> InFold(text, i)
  BY <1>2, InFoldBefore
<1>. HIDE DEF more, n
<1>5. \A i : i \in 1..(n + 1) <=> i \in 1..n \/ i = n + 1
  BY <1>1
<1>6. \A i : i \in Kept(more) <=> i \in 1..(n + 1) /\ ~InFold(more, i)
  BY <1>1, KeptIs
<1>7. \A i : i \in Kept(text) <=> i \in 1..n /\ ~InFold(text, i)
  BY KeptIs DEF n
<1>8. \A i : i \in Kept(more) <=> i \in Kept(text)
  BY <1>3, <1>4, <1>5, <1>6, <1>7
<1>. QED
  BY <1>8 DEF more

\* White space after a line break makes a fold of both.
LEMMA FoldsBreak ==
  ASSUME NEW text \in Seq(Char), NEW ch \in Lws \cap Char, Breaks(text), NEW n, n = Len(text)
  PROVE  Kept(Append(text, ch)) = Kept(text) \ {n - 1, n}
<1>. DEFINE more == Append(text, ch)
<1>1. n \in Nat /\ Len(more) = n + 1 /\ more \in Seq(Char)
  OBVIOUS
<1>2. n \in 1..n /\ n - 1 \in 1..n /\ text[n - 1] = "CR" /\ text[n] = "LF"
  BY KeptIs DEF Breaks
<1>3. InFold(more, n + 1)
  BY <1>1, <1>2, InFoldLast
<1>4. \A i \in 1..n : InFold(more, i) <=> InFold(text, i) \/ i \in {n - 1, n}
  BY <1>2, InFoldBefore
<1>. HIDE DEF more
<1>5. \A i : i \in 1..(n + 1) <=> i \in 1..n \/ i = n + 1
  BY <1>1
<1>6. \A i : i \in Kept(more) <=> i \in 1..(n + 1) /\ ~InFold(more, i)
  BY <1>1, KeptIs
<1>7. \A i : i \in Kept(text) <=> i \in 1..n /\ ~InFold(text, i)
  BY KeptIs
<1>8. \A i : i \in Kept(more) <=> i \in Kept(text) /\ i \notin {n - 1, n}
  BY <1>3, <1>4, <1>5, <1>6, <1>7
<1>. QED
  BY <1>8 DEF more

\* f is what Number computes on the way: the numbers of the first k digits.
Numbers(f, digits, m) ==
  f = [k \in 0..m |-> IF k = 0 THEN 0 ELSE f[k - 1] * 10 + Figure(digits[k])]

\* There are such numbers,
LEMMA NumbersExist ==
  ASSUME NEW digits, NEW m \in Nat
  PROVE  \E f : Numbers(f, digits, m)
<1>. DEFINE S == {n \in Nat : \E f : Numbers(f, digits, n)}
<1>1. 0 \in S
  <2>1. Numbers([k \in 0..0 |-> 0], digits, 0)
    BY DEF Numbers
  <2>. QED
    BY <2>1
<1>2. ASSUME NEW n \in S PROVE n + 1 \in S
  <2>1. PICK f : Numbers(f, digits, n)
    OBVIOUS
  <2>. DEFINE g == [k \in 0..(n + 1) |-> IF k = 0 THEN 0 ELSE f[k - 1] * 10 + Figure(digits[k])]
  <2>2. ASSUME NEW k \in 0..(n + 1), k # 0 PROVE g[k - 1] = f[k - 1]
    <3>1. k - 1 \in 0..n /\ k - 1 \in 0..(n + 1)
      BY <2>2
    <3>2. f[k - 1] = IF k - 1 = 0 THEN 0 ELSE f[(k - 1) - 1] * 10 + Figure(digits[k - 1])
      BY <2>1, <3>1 DEF Numbers
    <3>. QED
      BY <3>1, <3>2
  <2>3. Numbers(g, digits, n + 1)
    BY <2>2 DEF Numbers
  <2>. QED
    BY <2>3
<1>. HIDE DEF S
<1>3. S \in SUBSET Nat
  BY DEF S
<1>4. S = Nat
  BY <1>1, <1>2, <1>3, Induction
<1>. QED
  BY <1>4 DEF S

\* so Number is the last of them.
LEMMA NumberDef ==
  ASSUME NEW digits, Len(digits) \in Nat
  PROVE  \E f : Numbers(f, digits, Len(digits)) /\ Number(digits) = f[Len(digits)]
<1>. DEFINE n == CHOOSE f : f = [k \in 0..Len(digits) |->
                   IF k = 0 THEN 0 ELSE f[k - 1] * 10 + Figure(digits[k])]
<1>1. \E f : f = [k \in 0..Len(digits) |-> IF k = 0 THEN 0 ELSE f[k - 1] * 10 + Figure(digits[k])]
  BY NumbersExist DEF Numbers
<1>2. n = [k \in 0..Len(digits) |-> IF k = 0 THEN 0 ELSE n[k - 1] * 10 + Figure(digits[k])]
  BY <1>1
<1>3. Number(digits) = n[Len(digits)]
  BY DEF Number
<1>. QED
  BY <1>2, <1>3 DEF Numbers

\* The numbers on the way do not depend on the digits to come.
LEMMA NumbersAgree ==
  ASSUME NEW s, NEW t, NEW f, NEW g, NEW n \in Nat,
         Numbers(f, s, n), Numbers(g, t, n + 1), \A i \in 1..n : s[i] = t[i]
  PROVE  \A i \in 0..n : f[i] = g[i]
<1>. DEFINE S == {j \in Nat : j \in 0..n => f[j] = g[j]}
<1>1. 0 \in S
  BY DEF Numbers
<1>2. ASSUME NEW j \in S PROVE j + 1 \in S
  <2> SUFFICES ASSUME j + 1 \in 0..n PROVE f[j + 1] = g[j + 1]
    OBVIOUS
  <2>1. /\ j + 1 \in 0..n /\ j + 1 \in 0..(n + 1) /\ j + 1 \in 1..n /\ j \in 0..n
        /\ j + 1 # 0 /\ (j + 1) - 1 = j
    OBVIOUS
  <2>2. /\ f[j + 1] = f[j] * 10 + Figure(s[j + 1])
        /\ g[j + 1] = g[j] * 10 + Figure(t[j + 1])
    BY <2>1 DEF Numbers
  <2>3. s[j + 1] = t[j + 1] /\ f[j] = g[j]
    BY <2>1
  <2>. QED
    BY <2>2, <2>3
<1>. HIDE DEF S
<1>3. S = Nat
  <2>1. S \in SUBSET Nat
    BY DEF S
  <2>. QED
    BY <1>1, <1>2, <2>1, Induction
<1>. QED
  BY <1>3 DEF S

\* No digits are worth nothing, and one more is worth ten times as much and itself.
LEMMA NumberEmpty == Number(<<>>) = 0
<1>1. Len(<<>>) = 0
  OBVIOUS
<1>2. PICK f : Numbers(f, <<>>, Len(<<>>)) /\ Number(<<>>) = f[Len(<<>>)]
  BY <1>1, NumberDef
<1>. QED
  BY <1>1, <1>2 DEF Numbers

\* One digit more at the end.
LEMMA NumberAppend ==
  ASSUME NEW digits \in Seq(Digit), NEW ch \in Digit
  PROVE  Number(Append(digits, ch)) = Number(digits) * 10 + Figure(ch)
<1>. DEFINE m == Len(digits)
            more == Append(digits, ch)
<1>1. m \in Nat /\ Len(more) = m + 1 /\ m + 1 \in Nat /\ more[m + 1] = ch /\ \A i \in 1..m : digits[i] = more[i]
  OBVIOUS
<1>. HIDE DEF more, m
<1>2. PICK f : Numbers(f, digits, m) /\ Number(digits) = f[m]
  BY <1>1, NumberDef DEF m
<1>3. PICK g : Numbers(g, more, m + 1) /\ Number(more) = g[m + 1]
  BY <1>1, NumberDef
<1>4. f[m] = g[m]
  <2>1. m \in 0..m
    BY <1>1
  <2>2. \A i \in 0..m : f[i] = g[i]
    BY <1>1, <1>2, <1>3, NumbersAgree
  <2>. QED
    BY <2>1, <2>2
<1>5. g[m + 1] = g[m] * 10 + Figure(more[m + 1])
  <2>1. m + 1 \in 0..(m + 1) /\ m + 1 # 0 /\ (m + 1) - 1 = m
    BY <1>1
  <2>. QED
    BY <1>3, <2>1 DEF Numbers
<1>. QED
  BY <1>1, <1>2, <1>3, <1>4, <1>5 DEF more

\* Digits are worth a natural number.
LEMMA NumberType ==
  ASSUME NEW digits \in Seq(Digit)
  PROVE  Number(digits) \in Nat
<1>1. PICK f : Numbers(f, digits, Len(digits)) /\ Number(digits) = f[Len(digits)]
  BY NumberDef
<1>. DEFINE m == Len(digits)
            S == {j \in Nat : j \in 0..m => f[j] \in Nat}
<1>2. 0 \in S
  BY <1>1 DEF Numbers
<1>3. ASSUME NEW j \in S PROVE j + 1 \in S
  <2> SUFFICES ASSUME j + 1 \in 0..m PROVE f[j + 1] \in Nat
    OBVIOUS
  <2>1. j \in 0..m /\ j + 1 \in 1..m /\ j + 1 # 0 /\ (j + 1) - 1 = j
    OBVIOUS
  <2>2. f[j + 1] = f[j] * 10 + Figure(digits[j + 1])
    BY <1>1, <2>1 DEF Numbers
  <2>3. f[j] \in Nat /\ Figure(digits[j + 1]) \in 0..9
    BY <2>1, FigureIs
  <2>. QED
    BY <2>2, <2>3
<1>. HIDE DEF S
<1>4. S = Nat
  <2>1. S \in SUBSET Nat
    BY DEF S
  <2>. QED
    BY <1>2, <1>3, <2>1, Induction
<1>. QED
  BY <1>1, <1>4 DEF S

\* A digit more: the parser counts what the digits say, as long as none overflows.
LEMMA CountsMore ==
  ASSUME NEW digits \in Seq(Digit), NEW ch \in Digit, NEW n \in Int, Counts(n, digits), NEW m \in Shifted(n, ch)
  PROVE  Counts(m, Append(digits, ch))
<1>. DEFINE a == Number(digits)
            b == Number(Append(digits, ch))
            d == Figure(ch)
            sum == n * 10 + 48 + Figure(ch)
<1>1. a \in Nat /\ d \in 0..9 /\ b = a * 10 + d
  BY NumberType, NumberAppend, FigureIs
<1>2. Shifted(n, ch) = IF IsInt(n * 10) /\ IsInt(sum) THEN {sum - 48} ELSE AfterOverflow
  BY DEF Shifted
<1>0. sum = n * 10 + 48 + d
  OBVIOUS
<1>. HIDE DEF a, b, d, sum
<1>3. IntMax \in Nat
  BY ParserAssumption
<1>4. ASSUME b + 48 <= IntMax PROVE m = b
  <2>1. a + 48 <= IntMax
    BY <1>1, <1>3, <1>4
  <2>2. n = a
    BY <2>1 DEF Counts, a
  <2>3. IsInt(n * 10) /\ IsInt(sum)
    BY <1>0, <1>1, <1>3, <1>4, <2>2 DEF IsInt
  <2>4. m = sum - 48
    BY <1>2, <2>3
  <2>. QED
    BY <1>0, <1>1, <2>2, <2>4
<1>. QED
  BY <1>4 DEF Counts, b

\* The states that wait for the second byte of a line break.
LineEnds == {"expecting_newline_1", "expecting_newline_2", "expecting_newline_3"}

\* How the text ends in each state, and that u is what it is unfolded.
Ends(text, s) ==
  CASE s = "header_line_start" -> Breaks(text)
    [] s = "header_lws" -> Folding(text)
    [] s \in LineEnds -> Plain(text) /\ text # <<>> /\ text[Len(text)] = "CR"
    [] OTHER -> Plain(text)

\* The text ends as it does in the state, and u is what it is unfolded.
Unfolding(s, text, u) == text \in Seq(Char) /\ Unfolds(text, u) /\ Ends(text, s)

\* Before the first byte.
LEMMA UnfoldingStarts == Unfolding("method_start", <<>>, <<>>)
  BY UnfoldsEmpty DEF Unfolding, Ends, Plain, LineEnds

\* A byte after the text.
LEMMA OneMore ==
  ASSUME NEW text \in Seq(Char), NEW ch \in Char
  PROVE  /\ Append(text, ch) \in Seq(Char) /\ Append(text, ch) # <<>>
         /\ Len(Append(text, ch)) = Len(text) + 1 /\ Append(text, ch)[Len(text) + 1] = ch
         /\ \A k \in 1..Len(text) : Append(text, ch)[k] = text[k]
<1>1. Len(Append(text, ch)) = Len(text) + 1 /\ Len(text) \in Nat
  OBVIOUS
<1>. QED
  BY <1>1

\* A byte that is no break and opens no fold.
LEMMA TakesByte ==
  ASSUME NEW s, NEW text, NEW u, Unfolding(s, text, u), NEW ch \in Char, ch # "LF",
         ch \in Lws => s \notin {"header_line_start", "header_lws"},
         NEW t, t \notin {"header_line_start", "header_lws"}, t \in LineEnds => ch = "CR"
  PROVE  Unfolding(t, Append(text, ch), Append(u, ch))
<1>. DEFINE more == Append(text, ch)
            n == Len(text)
<1>0. text \in Seq(Char) /\ n \in Nat
  BY DEF Unfolding
<1>1. ch \notin Lws \/ Plain(text)
  BY DEF Unfolding, Ends
<1>2. Kept(more) = Kept(text) \cup {n + 1}
  BY <1>0, <1>1, KeepsByte
<1>3. Unfolds(more, Append(u, ch))
  BY <1>0, <1>2, UnfoldsMore DEF Unfolding
<1>4. more \in Seq(Char) /\ more # <<>> /\ Len(more) = n + 1 /\ more[n + 1] = ch
  BY <1>0, OneMore
<1>. HIDE DEF more
<1>5. Plain(more)
  BY <1>2, <1>4 DEF Plain
<1>. QED
  BY <1>3, <1>4, <1>5 DEF Unfolding, Ends, more

\* The end of a line.
LEMMA TakesBreak ==
  ASSUME NEW s \in LineEnds, NEW text, NEW u, Unfolding(s, text, u), "LF" \in Char
  PROVE  Unfolding("header_line_start", Append(text, "LF"), Append(u, "LF"))
<1>. DEFINE more == Append(text, "LF")
            n == Len(text)
<1>0. text \in Seq(Char) /\ n \in Nat
  BY DEF Unfolding
<1>1. Plain(text) /\ text # <<>> /\ text[n] = "CR"
  BY DEF Unfolding, Ends, LineEnds
<1>2. Kept(more) = Kept(text) \cup {n + 1}
  BY <1>0, <1>1, KeepsByte
<1>3. Unfolds(more, Append(u, "LF"))
  BY <1>0, <1>2, UnfoldsMore DEF Unfolding
<1>4. more \in Seq(Char) /\ Len(more) = n + 1 /\ more[n + 1] = "LF" /\ \A k \in 1..n : more[k] = text[k]
  BY <1>0, OneMore
<1>5. n \in 1..n /\ n \in Kept(text)
  BY <1>0, <1>1 DEF Plain
<1>. HIDE DEF more
<1>6. Breaks(more)
  <2>1. (n + 1) - 1 = n
    BY <1>0
  <2>. QED
    BY <1>1, <1>2, <1>4, <1>5, <2>1 DEF Breaks
<1>. QED
  BY <1>3, <1>4, <1>6 DEF Unfolding, Ends, LineEnds, more

\* White space in a fold.
LEMMA TakesFold ==
  ASSUME NEW text, NEW u, Unfolding("header_lws", text, u), NEW ch \in Lws \cap Char
  PROVE  Unfolding("header_lws", Append(text, ch), u)
<1>. DEFINE more == Append(text, ch)
            n == Len(text)
<1>0. text \in Seq(Char) /\ n \in Nat /\ Folding(text)
  BY DEF Unfolding, Ends, LineEnds
<1>1. Kept(more) = Kept(text)
  BY <1>0, FoldsByte
<1>2. Unfolds(more, u)
  BY <1>0, <1>1, UnfoldsFold DEF Unfolding
<1>3. more \in Seq(Char) /\ more # <<>> /\ Len(more) = n + 1 /\ more[n + 1] = ch
  BY <1>0, OneMore
<1>4. n + 1 \notin Kept(text)
  BY <1>0 DEF Kept
<1>. HIDE DEF more
<1>5. Folding(more)
  BY <1>1, <1>3, <1>4 DEF Folding
<1>. QED
  BY <1>2, <1>3, <1>5 DEF Unfolding, Ends, LineEnds, more

\* White space at the start of a line: the line break goes from the unfolded text.
LEMMA OpensFold ==
  ASSUME NEW text, NEW u, Unfolding("header_line_start", text, u), NEW ch \in Lws \cap Char
  PROVE  Unfolding("header_lws", Append(text, ch), SubSeq(u, 1, Len(u) - 2))
<1>. DEFINE more == Append(text, ch)
            n == Len(text)
<1>0. text \in Seq(Char) /\ n \in Nat /\ Breaks(text)
  BY DEF Unfolding, Ends, LineEnds
<1>1. Kept(more) = Kept(text) \ {n - 1, n}
  BY <1>0, FoldsBreak
<1>2. Unfolds(more, SubSeq(u, 1, Len(u) - 2))
  <2>1. n - 1 \in Kept(text) /\ n \in Kept(text) /\ Unfolds(text, u)
    BY <1>0 DEF Breaks, Unfolding
  <2>. QED
    BY <1>0, <1>1, <2>1, UnfoldsBreak
<1>3. more \in Seq(Char) /\ more # <<>> /\ Len(more) = n + 1 /\ more[n + 1] = ch
  BY <1>0, OneMore
<1>4. n + 1 \notin Kept(text)
  BY <1>0 DEF Kept
<1>. HIDE DEF more
<1>5. Folding(more)
  BY <1>1, <1>3, <1>4 DEF Folding
<1>. QED
  BY <1>2, <1>3, <1>5 DEF Unfolding, Ends, LineEnds, more

-----------------------------------------------------------------------------
\* The bytes of texts.
Byte == Char \cup {"SP", "CR", "LF", "H", "T", "P", "/", ".", ":"}

\* A byte at the end of two texts is at the end of the second.
LEMMA AppendConcat ==
  ASSUME NEW a \in Seq(Byte), NEW b \in Seq(Byte), NEW c \in Byte
  PROVE  Append(a \o b, c) = a \o Append(b, c)
<1>. DEFINE x == Append(a \o b, c)
            y == a \o Append(b, c)
            n == Len(a)
            m == Len(b)
<1>1. /\ n \in Nat /\ m \in Nat /\ x \in Seq(Byte) /\ y \in Seq(Byte)
      /\ Len(x) = n + m + 1 /\ Len(y) = n + m + 1
  OBVIOUS
<1>2. ASSUME NEW k \in 1..(n + m + 1) PROVE x[k] = y[k]
  OBVIOUS
<1>. HIDE DEF x, y
<1>3. x = y
  BY <1>1, <1>2, SeqEqual
<1>. QED
  BY <1>3 DEF x, y

\* A byte at the end is a text of its own.
LEMMA AppendSingle ==
  ASSUME NEW a \in Seq(Byte), NEW c \in Byte
  PROVE  Append(a, c) = a \o <<c>>
<1>1. <<>> \in Seq(Byte) /\ a \o <<>> = a /\ Append(<<>>, c) = <<c>>
  OBVIOUS
<1>. QED
  BY <1>1, AppendConcat

\* What the parser collects is made of bytes, and so is what is made of it.
LEMMA Bytes ==
  /\ \A s \in Text : s \in Seq(Byte)
  /\ \A s \in Seq(Digit) : s \in Seq(Byte)
  /\ \A a, b \in Seq(Byte) : a \o b \in Seq(Byte)
  /\ \A a \in Seq(Byte) : a \o <<>> = a
  /\ \A a, b, c \in Seq(Byte) : (a \o b) \o c = a \o (b \o c)
<1>1. Char \subseteq Byte /\ Digit \subseteq Byte
  BY DEF Byte, Digit
<1>2. Seq(Char) \subseteq Seq(Byte) /\ Seq(Digit) \subseteq Seq(Byte)
  BY <1>1, SeqMonotone
<1>3. \A a, b, c \in Seq(Byte) : (a \o b) \o c = a \o (b \o c)
  BY ConcatAssociative
<1>4. \A a, b \in Seq(Byte) : a \o b \in Seq(Byte)
  BY ConcatProperties
<1>5. \A a \in Seq(Byte) : a \o <<>> = a
  BY ConcatEmptySeq
<1>. QED
  BY <1>2, <1>3, <1>4, <1>5 DEF Text

\* Texts may be grouped as one likes.
LEMMA Assoc ==
  ASSUME NEW a \in Seq(Byte), NEW b \in Seq(Byte), NEW c \in Seq(Byte)
  PROVE  (a \o b) \o c = a \o (b \o c)
BY Bytes

\* Two texts in one have both lengths.
Concats(c, a, b) == c \in Seq(Byte) /\ Len(a) \in Nat /\ Len(b) \in Nat /\ Len(c) = Len(a) + Len(b)

\* That holds of every two texts.
LEMMA ConcatLen ==
  ASSUME NEW a \in Seq(Byte), NEW b \in Seq(Byte)
  PROVE  Concats(a \o b, a, b)
BY DEF Concats

\* Assoc under a name of its own, for the prover to find.
Regroups(a, b, c) == (a \o b) \o c = a \o (b \o c)

\* That holds of every three.
LEMMA Regroup ==
  ASSUME NEW a \in Seq(Byte), NEW b \in Seq(Byte), NEW c \in Seq(Byte)
  PROVE  Regroups(a, b, c)
BY Assoc DEF Regroups

\* What is between the uri and the number of the version, and the states that read it.
Mark == <<"SP", "H", "T", "T", "P", "/">>

\* The states that wait for its bytes after the first.
VersionStates ==
  <<"http_version_h", "http_version_t_1", "http_version_t_2", "http_version_p", "http_version_slash">>

\* The marks are made of bytes, and grow one by one.
LEMMA Marks ==
  /\ <<>> \in Seq(Byte) /\ <<"SP">> \in Seq(Byte) /\ <<".">> \in Seq(Byte) /\ <<"CR">> \in Seq(Byte)
  /\ <<"CR", "LF">> \in Seq(Byte) /\ <<":">> \in Seq(Byte) /\ <<":", "SP">> \in Seq(Byte)
  /\ Append(<<"CR">>, "LF") = <<"CR", "LF">> /\ Append(<<":">>, "SP") = <<":", "SP">>
<1>1. {"SP", "CR", "LF", "H", "T", "P", "/", ".", ":"} \subseteq Byte
  BY DEF Byte
<1>. HIDE DEF Byte
<1>2. Append(<<"CR">>, "LF") = <<"CR", "LF">> /\ Append(<<":">>, "SP") = <<":", "SP">>
  BY <1>1, PairAppend
<1>. QED
  BY <1>1, <1>2

\* Each state has one byte of the mark more than the one before.
LEMMA MarkGrows ==
  /\ Mark \in Seq(Byte) /\ SubSeq(Mark, 1, 6) = Mark /\ SubSeq(Mark, 1, 1) = <<"SP">>
  /\ \A k \in 1..5 : /\ SubSeq(Mark, 1, k) \in Seq(Byte)
                      /\ Append(SubSeq(Mark, 1, k), Mark[k + 1]) = SubSeq(Mark, 1, k + 1)
<1>1. {"SP", "CR", "LF", "H", "T", "P", "/", ".", ":"} \subseteq Byte
  BY DEF Byte
<1>2. Mark \in Seq(Byte) /\ Len(Mark) = 6 /\ Mark[1] = "SP"
  BY <1>1 DEF Mark
<1>3. PICK m \in Seq(Byte) : m = Mark
  BY <1>2
<1>4. SubSeq(m, 1, 6) = m
  BY <1>2, <1>3, PrefixWhole
<1>5. SubSeq(m, 1, 1) = <<m[1]>>
  <2>1. 0 \in Nat /\ 0 < Len(m) /\ 0 + 1 = 1 /\ SubSeq(m, 1, 0) = <<>> /\ Append(<<>>, m[1]) = <<m[1]>>
    BY <1>2, <1>3
  <2>. QED
    BY <2>1, PrefixGrows
<1>6. ASSUME NEW k \in 1..5
      PROVE  /\ SubSeq(m, 1, k) \in Seq(Byte)
             /\ Append(SubSeq(m, 1, k), m[k + 1]) = SubSeq(m, 1, k + 1)
  <2>0. Len(m) = 6
    BY <1>2, <1>3
  <2>1. k \in Nat /\ k < Len(m)
    BY <2>0
  <2>. QED
    BY <2>1, PrefixGrows
<1>. QED
  BY <1>2, <1>3, <1>4, <1>5, <1>6

-----------------------------------------------------------------------------
\* The headers, each on its line.
FieldsOf(headers) == FlattenSeq([k \in DOMAIN headers |-> Field(headers[k])])

\* A header on its line is made of bytes.
LEMMA FieldType ==
  ASSUME NEW h \in Header
  PROVE  Field(h) \in Seq(Byte)
<1>1. h.name \in Seq(Byte) /\ h.value \in Seq(Byte)
  BY Bytes DEF Header
<1>. QED
  BY <1>1, Bytes, Marks DEF Field

\* No headers, no lines.
LEMMA FieldsNone == FieldsOf(<<>>) = <<>>
<1>1. [k \in DOMAIN <<>> |-> Field(<<>>[k])] = <<>>
  OBVIOUS
<1>. QED
  BY <1>1, FlattenEmpty DEF FieldsOf

\* The lines of the headers are made of bytes.
LEMMA FieldsSeq ==
  ASSUME NEW headers \in Seq(Header)
  PROVE  /\ [k \in DOMAIN headers |-> Field(headers[k])] \in Seq(Seq(Byte))
         /\ FieldsOf(headers) \in Seq(Byte)
<1>1. \A k \in 1..Len(headers) : Field(headers[k]) \in Seq(Byte)
  <2>1. \A k \in 1..Len(headers) : headers[k] \in Header
    OBVIOUS
  <2>. QED
    BY <2>1, FieldType
<1>. DEFINE F(k) == Field(headers[k])
<1>2. [k \in DOMAIN headers |-> F(k)] \in Seq(Seq(Byte))
  <2>1. \A k \in 1..Len(headers) : F(k) \in Seq(Byte)
    BY <1>1
  <2>. HIDE DEF F
  <2>. QED
    BY <2>1
<1>. QED
  BY <1>2, FlattenType DEF FieldsOf

\* One header more is one line more.
LEMMA FieldsAppend ==
  ASSUME NEW headers \in Seq(Header), NEW h \in Header
  PROVE  FieldsOf(Append(headers, h)) = FieldsOf(headers) \o Field(h)
<1>. DEFINE more == Append(headers, h)
            n == Len(headers)
            f == [k \in DOMAIN headers |-> Field(headers[k])]
            g == [k \in DOMAIN more |-> Field(more[k])]
<1>1. /\ n \in Nat /\ DOMAIN headers = 1..n /\ DOMAIN more = 1..(n + 1) /\ more \in Seq(Header)
      /\ Len(more) = n + 1 /\ more[n + 1] = h /\ \A k \in 1..n : more[k] = headers[k]
  OBVIOUS
<1>. HIDE DEF more
<1>2. f \in Seq(Seq(Byte)) /\ g \in Seq(Seq(Byte)) /\ Field(h) \in Seq(Byte)
  BY <1>1, FieldsSeq, FieldType
<1>3. /\ Len(f) = n /\ Len(g) = n + 1 /\ \A k \in 1..n : f[k] = g[k]
      /\ g[n + 1] = Field(h)
  <2>1. \A k \in 1..n : k \in 1..(n + 1)
    BY <1>1
  <2>2. DOMAIN f = 1..n /\ DOMAIN g = 1..(n + 1)
    BY <1>1
  <2>3. \A k \in 1..n : f[k] = g[k]
    BY <1>1, <2>1
  <2>4. n + 1 \in 1..(n + 1)
    BY <1>1
  <2>5. g[n + 1] = Field(h)
    BY <1>1, <2>4
  <2>. HIDE DEF f, g, n
  <2>. QED
    BY <1>1, <1>2, <2>2, <2>3, <2>5
<1>. HIDE DEF f, g
<1>4. g = Append(f, Field(h))
  <2>. DEFINE e == Append(f, Field(h))
              z == Field(h)
  <2>. HIDE DEF z, n
  <2>1. Append(f, z) \in Seq(Seq(Byte)) /\ Len(Append(f, z)) = n + 1
        /\ Append(f, z)[n + 1] = z /\ \A k \in 1..n : Append(f, z)[k] = f[k]
    BY <1>1, <1>2, <1>3 DEF z
  <2>2. \A k \in 1..(n + 1) : k \in 1..n \/ k = n + 1
    BY <1>1
  <2>3. \A k \in 1..(n + 1) : g[k] = Append(f, z)[k]
    BY <1>3, <2>1, <2>2 DEF z
  <2>4. g = Append(f, z)
    BY <1>2, <1>3, <2>1, <2>3, SeqEqual
  <2>. QED
    BY <2>4 DEF z
<1>5. FlattenSeq(Append(f, Field(h))) = FlattenSeq(f) \o Field(h)
  BY <1>2, FlattenAppend
<1>. QED
  BY <1>4, <1>5 DEF FieldsOf, more, f, g

\* The beginnings of the text, up to the uri, the major number and the first line break.
Start(r) == r.method \o <<"SP">> \o r.uri
Version(r, major) == Start(r) \o Mark \o major
FirstLine(r, major, minor) == RequestLine(r, major, minor) \o <<"CR", "LF">>

\* What the state has read of the field h, the last one.
Entry(s, h) ==
  CASE s = "header_name"               -> h.name
    [] s = "space_before_header_value" -> h.name \o <<":">>
    [] s = "expecting_newline_2"       -> h.name \o <<":", "SP">> \o h.value \o <<"CR">>
    [] OTHER                           -> h.name \o <<":", "SP">> \o h.value

\* The states inside the line of a header.
InField == InHeader \cup {"expecting_newline_2"}

\* There what has been read ends with a part of the last header.
ReadsField(s, u, head, headers) ==
  \E before \in Seq(Header), h \in Header :
     /\ headers = Append(before, h)
     /\ s \in {"header_name", "space_before_header_value"} => h.value = <<>>
     /\ u = head \o FieldsOf(before) \o Entry(s, h)

\* What the state has read, unfolded.
Reads(s, u, r, major, minor) ==
  /\ s \in {"method_start", "method"} => u = r.method
  /\ s = "uri" => u = Start(r)
  /\ \A k \in 1..5 : s = VersionStates[k] => u = Start(r) \o SubSeq(Mark, 1, k)
  /\ s \in {"http_version_major_start", "http_version_major"} => u = Version(r, major)
  /\ s \in {"http_version_minor_start", "http_version_minor"} => u = RequestLine(r, major, minor)
  /\ s = "expecting_newline_1" => u = RequestLine(r, major, minor) \o <<"CR">>
  /\ s = "header_line_start" => u = FirstLine(r, major, minor) \o FieldsOf(r.headers)
  /\ s = "expecting_newline_3" => u = FirstLine(r, major, minor) \o FieldsOf(r.headers) \o <<"CR">>
  /\ s \in InField => ReadsField(s, u, FirstLine(r, major, minor), r.headers)

\* The states before the first byte of a field.
BeforeUri     == {"method_start", "method"}
BeforeMajor   == BeforeUri \cup {"uri", "http_version_major_start"} \cup {VersionStates[k] : k \in 1..5}
BeforeMinor   == BeforeMajor \cup {"http_version_major", "http_version_minor_start"}
BeforeHeaders == BeforeMinor \cup {"http_version_minor", "expecting_newline_1"}

\* So these fields are still empty; the numbers are not, once they are behind.
Lacks(s, r, major, minor) ==
  /\ s \in BeforeUri => r.uri = <<>>
  /\ s \in BeforeMajor <=> major = <<>>
  /\ s \in BeforeMinor <=> minor = <<>>
  /\ s \in BeforeHeaders => r.headers = <<>>

\* The text u, and the digits of the version in it, are what the request says.
Told(s, u, r, major, minor) ==
  /\ major \in Seq(Digit) /\ Counts(r.major, major)
  /\ minor \in Seq(Digit) /\ Counts(r.minor, minor)
  /\ Lacks(s, r, major, minor)
  /\ Reads(s, u, r, major, minor)

\* All of these are texts.
LEMMA Parts ==
  ASSUME NEW r \in Request, NEW major \in Seq(Digit), NEW minor \in Seq(Digit)
  PROVE  /\ r.method \in Seq(Byte) /\ r.uri \in Seq(Byte) /\ r.headers \in Seq(Header)
         /\ r.method \o <<"SP">> \in Seq(Byte)
         /\ major \in Seq(Byte) /\ minor \in Seq(Byte)
         /\ Start(r) \in Seq(Byte) /\ Start(r) \o Mark \in Seq(Byte) /\ Version(r, major) \in Seq(Byte)
         /\ Version(r, major) \o <<".">> \in Seq(Byte)
         /\ RequestLine(r, major, minor) = Version(r, major) \o <<".">> \o minor
         /\ RequestLine(r, major, minor) \in Seq(Byte)
         /\ FirstLine(r, major, minor) \in Seq(Byte)
         /\ FieldsOf(r.headers) \in Seq(Byte)
         /\ FirstLine(r, major, minor) \o FieldsOf(r.headers) \in Seq(Byte)
<1>1. r.method \in Seq(Byte) /\ r.uri \in Seq(Byte) /\ r.headers \in Seq(Header)
  BY Bytes DEF Request
<1>2. major \in Seq(Byte) /\ minor \in Seq(Byte)
  BY Bytes
<1>3. r.method \o <<"SP">> \in Seq(Byte) /\ Start(r) \in Seq(Byte)
  BY <1>1, Bytes, Marks DEF Start
<1>4. Start(r) \o Mark \in Seq(Byte) /\ Version(r, major) \in Seq(Byte)
  BY <1>2, <1>3, Bytes, MarkGrows DEF Version
<1>5. RequestLine(r, major, minor) = Version(r, major) \o <<".">> \o minor
  BY DEF RequestLine, Version, Start, Mark
<1>6. Version(r, major) \o <<".">> \in Seq(Byte) /\ RequestLine(r, major, minor) \in Seq(Byte)
  BY <1>2, <1>4, <1>5, Bytes, Marks
<1>7. FirstLine(r, major, minor) \in Seq(Byte)
  BY <1>6, Bytes, Marks DEF FirstLine
<1>8. FieldsOf(r.headers) \in Seq(Byte)
  BY <1>1, FieldsSeq
<1>. QED
  BY <1>1, <1>2, <1>3, <1>4, <1>5, <1>6, <1>7, <1>8, Bytes

\* An empty request says nothing.
LEMMA StartsEmpty ==
  ASSUME ParserInit
  PROVE  Told("method_start", <<>>, request, <<>>, <<>>)
<1>1. Counts(request.major, <<>>) /\ Counts(request.minor, <<>>) /\ <<>> \in Seq(Digit)
  BY NumberEmpty DEF ParserInit, Counts
<1>2. Lacks("method_start", request, <<>>, <<>>)
  BY DEF ParserInit, Lacks, BeforeUri, BeforeMajor, BeforeMinor, BeforeHeaders
<1>3. \A k \in 1..5 : VersionStates[k] # "method_start"
  BY DEF VersionStates
<1>4. Reads("method_start", <<>>, request, <<>>, <<>>)
  BY <1>3 DEF ParserInit, Reads, InField, InHeader
<1>. QED
  BY <1>1, <1>2, <1>4 DEF Told

-----------------------------------------------------------------------------
\* The rows of the request line.
LEMMA MethodRow ==
  ASSUME request \in Request, NEW s \in {"method_start", "method"}, NEW u, NEW major, NEW minor,
         Told(s, u, request, major, minor), NEW ch \in Char, NEW n
  PROVE  Told("method", Append(u, ch), Collected("method", ch, n), major, minor)
<1>. DEFINE r == Collected("method", ch, n)
<1>1. r = [request EXCEPT !.method = Append(@, ch)]
  BY DEF Collected
<1>2. /\ r.method = Append(request.method, ch) /\ r.uri = request.uri /\ r.headers = request.headers
      /\ r.major = request.major /\ r.minor = request.minor
  BY <1>1 DEF Request
<1>. HIDE DEF r
<1>3. Lacks("method", r, major, minor)
  BY <1>2 DEF Told, Lacks, BeforeUri, BeforeMajor, BeforeMinor, BeforeHeaders
<1>4. \A k \in 1..5 : VersionStates[k] # "method"
  BY DEF VersionStates
<1>5. u = request.method
  BY DEF Told, Reads
<1>6. Reads("method", Append(u, ch), r, major, minor)
  BY <1>2, <1>4, <1>5 DEF Reads, InField, InHeader
<1>. QED
  BY <1>2, <1>3, <1>6 DEF Told, r

\* The states that are not in VersionStates.
OtherStates == {"method_start", "method", "uri", "http_version_major_start", "http_version_major",
                "http_version_minor_start", "http_version_minor", "expecting_newline_1",
                "header_line_start", "expecting_newline_3", "header_name",
                "space_before_header_value", "header_value", "header_lws", "expecting_newline_2"}

\* No state has two names.
LEMMA StatesApart ==
  /\ \A k \in 1..5 : VersionStates[k] \notin OtherStates
  /\ \A j, k \in 1..5 : VersionStates[j] = VersionStates[k] => j = k
BY DEF VersionStates, OtherStates

\* The space after the method.
LEMMA UriOpens ==
  ASSUME NEW r \in Request, NEW u, NEW major, NEW minor, Told("method", u, r, major, minor)
  PROVE  Told("uri", Append(u, "SP"), r, major, minor)
<1>1. u = r.method /\ r.uri = <<>>
  BY DEF Told, Reads, Lacks, BeforeUri
<1>2. Append(r.method, "SP") = r.method \o <<"SP">>
  BY Parts, AppendSingle DEF Byte, Told
<1>3. Append(u, "SP") = Start(r)
  <2>1. r.method \o <<"SP">> \in Seq(Byte)
    BY Parts DEF Told
  <2>2. r.method \o <<"SP">> \o <<>> = r.method \o <<"SP">>
    BY <2>1, Bytes
  <2>. QED
    BY <1>1, <1>2, <2>2 DEF Start
<1>4. Lacks("uri", r, major, minor)
  BY DEF Told, Lacks, BeforeUri, BeforeMajor, BeforeMinor, BeforeHeaders
<1>5. Reads("uri", Append(u, "SP"), r, major, minor)
  BY <1>3, StatesApart DEF Reads, InField, InHeader, OtherStates
<1>. QED
  BY <1>4, <1>5 DEF Told

\* A byte of the uri.
LEMMA UriRow ==
  ASSUME request \in Request, NEW u, NEW major, NEW minor, Told("uri", u, request, major, minor),
         NEW ch \in Char, NEW n
  PROVE  Told("uri", Append(u, ch), Collected("uri", ch, n), major, minor)
<1>. DEFINE r == Collected("uri", ch, n)
<1>1. r = [request EXCEPT !.uri = Append(@, ch)]
  BY DEF Collected
<1>2. /\ r.uri = Append(request.uri, ch) /\ r.method = request.method /\ r.headers = request.headers
      /\ r.major = request.major /\ r.minor = request.minor
  BY <1>1 DEF Request
<1>. HIDE DEF r
<1>3. Lacks("uri", r, major, minor)
  BY <1>2 DEF Told, Lacks, BeforeUri, BeforeMajor, BeforeMinor, BeforeHeaders
<1>4. u = request.method \o <<"SP">> \o request.uri
  BY DEF Told, Reads, Start
<1>5. Append(u, ch) = Start(r)
  <2>1. request.method \o <<"SP">> \in Seq(Byte) /\ request.uri \in Seq(Byte) /\ ch \in Byte
    BY Parts DEF Told, Byte
  <2>. QED
    BY <1>2, <1>4, <2>1, AppendConcat DEF Start
<1>6. Reads("uri", Append(u, ch), r, major, minor)
  BY <1>5, StatesApart DEF Reads, InField, InHeader, OtherStates
<1>. QED
  BY <1>2, <1>3, <1>6 DEF Told, r

\* The space after the uri.
LEMMA MarkOpens ==
  ASSUME NEW r \in Request, NEW u, NEW major, NEW minor, Told("uri", u, r, major, minor)
  PROVE  Told("http_version_h", Append(u, "SP"), r, major, minor)
<1>1. Append(Start(r), "SP") = Start(r) \o <<"SP">>
  BY Parts, AppendSingle DEF Byte, Told
<1>2. Append(u, "SP") = Start(r) \o SubSeq(Mark, 1, 1)
  BY <1>1, MarkGrows DEF Told, Reads
<1>3. "http_version_h" = VersionStates[1] /\ 1 \in 1..5
  BY DEF VersionStates
<1>4. "http_version_h" \notin OtherStates
  BY DEF OtherStates
<1>5. Lacks("http_version_h", r, major, minor)
  BY <1>3, <1>4 DEF Told, Lacks, BeforeUri, BeforeMajor, BeforeMinor, BeforeHeaders, OtherStates
<1>6. Reads("http_version_h", Append(u, "SP"), r, major, minor)
  BY <1>2, <1>3, <1>4, StatesApart DEF Reads, InField, InHeader, OtherStates
<1>. QED
  BY <1>5, <1>6 DEF Told

\* "HTTP" and the slash, byte by byte.
LEMMA MarkRow ==
  ASSUME NEW r \in Request, NEW u, NEW major, NEW minor, NEW k \in 1..4,
         Told(VersionStates[k], u, r, major, minor)
  PROVE  Told(VersionStates[k + 1], Append(u, Mark[k + 1]), r, major, minor)
<1>. DEFINE s == VersionStates[k]
            t == VersionStates[k + 1]
<1>0. k \in 1..5 /\ k + 1 \in 1..5
  OBVIOUS
<1>1. s \notin OtherStates /\ t \notin OtherStates /\ s \in BeforeMajor /\ t \in BeforeMajor
  BY <1>0, StatesApart DEF BeforeMajor
<1>. DEFINE done == SubSeq(Mark, 1, k)
<1>2. u = Start(r) \o done /\ Start(r) \in Seq(Byte) /\ done \in Seq(Byte) /\ Mark[k + 1] \in Byte
  <2>1. Mark[k + 1] \in Byte
    BY DEF Mark, Byte
  <2>. QED
    BY <1>0, <2>1, Parts, MarkGrows DEF Told, Reads
<1>3. Append(u, Mark[k + 1]) = Start(r) \o SubSeq(Mark, 1, k + 1)
  <2>1. Append(done, Mark[k + 1]) = SubSeq(Mark, 1, k + 1)
    BY <1>0, MarkGrows
  <2>. HIDE DEF done
  <2>2. Append(Start(r) \o done, Mark[k + 1]) = Start(r) \o Append(done, Mark[k + 1])
    BY <1>2, AppendConcat
  <2>. QED
    BY <1>2, <2>1, <2>2
<1>4. Lacks(s, r, major, minor)
  BY DEF Told
<1>. HIDE DEF s, t
<1>5. Lacks(t, r, major, minor)
  BY <1>1, <1>4 DEF Lacks, BeforeUri, BeforeMinor, BeforeHeaders, OtherStates
<1>6. \A j \in 1..5 : t = VersionStates[j] => j = k + 1
  BY <1>0, StatesApart DEF t
<1>7. Reads(t, Append(u, Mark[k + 1]), r, major, minor)
  BY <1>1, <1>3, <1>6 DEF Reads, InField, InHeader, OtherStates
<1>. QED
  BY <1>5, <1>7 DEF Told, t

\* The slash: the numbers start from 0.
LEMMA VersionRow ==
  ASSUME request \in Request, NEW u, NEW major, NEW minor,
         Told("http_version_slash", u, request, major, minor), NEW ch, NEW n
  PROVE  Told("http_version_major_start", Append(u, "/"), Collected("version", ch, n), major, minor)
<1>. DEFINE r == Collected("version", ch, n)
<1>1. r = [[request EXCEPT !.major = 0] EXCEPT !.minor = 0]
  BY DEF Collected
<1>2. /\ r.uri = request.uri /\ r.method = request.method /\ r.headers = request.headers
      /\ r.major = 0 /\ r.minor = 0
  BY <1>1 DEF Request
<1>. HIDE DEF r
<1>3. "http_version_slash" = VersionStates[5] /\ 5 \in 1..5 /\ Mark[6] = "/"
  BY DEF VersionStates, Mark
<1>4. "http_version_slash" \in BeforeMajor
  BY <1>3 DEF BeforeMajor
<1>5. Lacks("http_version_slash", request, major, minor)
  BY DEF Told
<1>6. major = <<>> /\ minor = <<>> /\ request.headers = <<>>
  BY <1>4, <1>5 DEF Lacks, BeforeMinor, BeforeHeaders
<1>7. Lacks("http_version_major_start", r, major, minor)
  BY <1>2, <1>6 DEF Lacks, BeforeUri, BeforeMajor, BeforeMinor, BeforeHeaders
<1>8. Counts(r.major, major) /\ Counts(r.minor, minor)
  BY <1>2, <1>6, NumberEmpty DEF Counts
<1>9. Append(u, "/") = Version(r, major)
  <2>. DEFINE done == SubSeq(Mark, 1, 5)
  <2>1. u = Start(request) \o done /\ Append(done, "/") = Mark /\ done \in Seq(Byte)
    <3>1. 5 + 1 = 6
      OBVIOUS
    <3>2. Append(done, Mark[6]) = SubSeq(Mark, 1, 6) /\ done \in Seq(Byte)
      BY <1>3, <3>1, MarkGrows
    <3>3. u = Start(request) \o done
      BY <1>3 DEF Told, Reads
    <3>. QED
      BY <1>3, <3>2, <3>3, MarkGrows
  <2>2. Start(request) \in Seq(Byte) /\ "/" \in Byte /\ Start(request) \o Mark \in Seq(Byte)
    BY Parts DEF Told, Byte
  <2>. HIDE DEF done
  <2>3. Append(Start(request) \o done, "/") = Start(request) \o Append(done, "/")
    BY <2>1, <2>2, AppendConcat
  <2>4. Start(r) = Start(request)
    BY <1>2 DEF Start
  <2>5. Version(r, major) = Start(request) \o Mark \o <<>>
    BY <1>6, <2>4 DEF Version
  <2>. QED
    BY <2>1, <2>2, <2>3, <2>5, Bytes
<1>10. Reads("http_version_major_start", Append(u, "/"), r, major, minor)
  BY <1>9, StatesApart DEF Reads, InField, InHeader, OtherStates
<1>. QED
  BY <1>7, <1>8, <1>10 DEF Told, r

\* A digit of the major number.
LEMMA MajorRow ==
  ASSUME request \in Request, NEW u, NEW major, NEW minor,
         NEW s \in {"http_version_major_start", "http_version_major"},
         Told(s, u, request, major, minor), NEW ch \in Digit, NEW n \in Shifted(request.major, ch)
  PROVE  Told("http_version_major", Append(u, ch), Collected("major", ch, n), Append(major, ch), minor)
<1>. DEFINE r == Collected("major", ch, n)
            more == Append(major, ch)
<1>1. r = [request EXCEPT !.major = n]
  BY DEF Collected
<1>2. /\ r.uri = request.uri /\ r.method = request.method /\ r.headers = request.headers
      /\ r.major = n /\ r.minor = request.minor
  BY <1>1 DEF Request
<1>. HIDE DEF r
<1>3. major \in Seq(Digit) /\ Counts(request.major, major) /\ request.major \in Int
  BY DEF Told, Request
<1>4. more \in Seq(Digit) /\ more # <<>>
  BY <1>3
<1>5. Counts(n, more)
  BY <1>3, CountsMore
<1>6. Lacks(s, request, major, minor)
  BY DEF Told
<1>. HIDE DEF more
<1>7. /\ "http_version_major" \notin BeforeMajor /\ "http_version_major" \in BeforeMinor
      /\ s \in BeforeMinor
  BY StatesApart DEF BeforeMajor, BeforeMinor, BeforeUri, OtherStates
<1>8. Lacks("http_version_major", r, more, minor)
  BY <1>2, <1>4, <1>6, <1>7 DEF Lacks, BeforeUri, BeforeHeaders
<1>9. u = Start(request) \o Mark \o major /\ Start(request) \o Mark \in Seq(Byte)
  BY Parts DEF Told, Reads, Version
<1>10. Append(u, ch) = Version(r, more)
  <2>1. Start(r) = Start(request) /\ ch \in Byte /\ major \in Seq(Byte)
    BY <1>2, <1>3, Bytes DEF Start, Byte, Digit
  <2>2. Append(u, ch) = Start(request) \o Mark \o more
    BY <1>9, <2>1, AppendConcat DEF more
  <2>. QED
    BY <2>1, <2>2 DEF Version
<1>11. Reads("http_version_major", Append(u, ch), r, more, minor)
  BY <1>10, StatesApart DEF Reads, InField, InHeader, OtherStates
<1>. QED
  BY <1>2, <1>4, <1>5, <1>8, <1>11 DEF Told, r, more

\* The point between the numbers.
LEMMA DotRow ==
  ASSUME NEW r \in Request, NEW u, NEW major, NEW minor,
         Told("http_version_major", u, r, major, minor)
  PROVE  Told("http_version_minor_start", Append(u, "."), r, major, minor)
<1>1. u = Version(r, major)
  BY DEF Told, Reads
<1>2. Lacks("http_version_major", r, major, minor)
  BY DEF Told
<1>3. /\ "http_version_major" \notin BeforeMajor /\ "http_version_major" \in BeforeMinor
      /\ "http_version_minor_start" \notin BeforeMajor /\ "http_version_minor_start" \in BeforeMinor
  BY StatesApart DEF BeforeMajor, BeforeMinor, BeforeUri, OtherStates
<1>4. Lacks("http_version_minor_start", r, major, minor)
  BY <1>2, <1>3 DEF Lacks, BeforeUri, BeforeHeaders
<1>5. minor = <<>>
  BY <1>2, <1>3 DEF Lacks
<1>6. Append(u, ".") = RequestLine(r, major, minor)
  <2>1. Version(r, major) \in Seq(Byte) /\ Version(r, major) \o <<".">> \in Seq(Byte) /\ "." \in Byte
    BY Parts DEF Told, Byte
  <2>2. RequestLine(r, major, minor) = Version(r, major) \o <<".">> \o minor
    BY Parts DEF Told
  <2>. QED
    BY <1>1, <1>5, <2>1, <2>2, Bytes, AppendSingle
<1>7. Reads("http_version_minor_start", Append(u, "."), r, major, minor)
  BY <1>6, StatesApart DEF Reads, InField, InHeader, OtherStates
<1>. QED
  BY <1>4, <1>7 DEF Told

\* A digit of the minor number.
LEMMA MinorRow ==
  ASSUME request \in Request, NEW u, NEW major, NEW minor,
         NEW s \in {"http_version_minor_start", "http_version_minor"},
         Told(s, u, request, major, minor), NEW ch \in Digit, NEW n \in Shifted(request.minor, ch)
  PROVE  Told("http_version_minor", Append(u, ch), Collected("minor", ch, n), major, Append(minor, ch))
<1>. DEFINE r == Collected("minor", ch, n)
            more == Append(minor, ch)
<1>1. r = [request EXCEPT !.minor = n]
  BY DEF Collected
<1>2. /\ r.uri = request.uri /\ r.method = request.method /\ r.headers = request.headers
      /\ r.minor = n /\ r.major = request.major
  BY <1>1 DEF Request
<1>. HIDE DEF r
<1>3. minor \in Seq(Digit) /\ Counts(request.minor, minor) /\ request.minor \in Int /\ major \in Seq(Digit)
  BY DEF Told, Request
<1>4. more \in Seq(Digit) /\ more # <<>>
  BY <1>3
<1>5. Counts(n, more)
  BY <1>3, CountsMore
<1>6. Lacks(s, request, major, minor)
  BY DEF Told
<1>. HIDE DEF more
<1>7. /\ "http_version_minor" \notin BeforeMajor /\ "http_version_minor" \notin BeforeMinor
      /\ s \notin BeforeMajor /\ s \in BeforeHeaders
  BY StatesApart DEF BeforeMajor, BeforeMinor, BeforeUri, OtherStates, BeforeHeaders
<1>8. Lacks("http_version_minor", r, major, more)
  BY <1>2, <1>4, <1>6, <1>7 DEF Lacks, BeforeUri
<1>9. u = RequestLine(request, major, minor)
  BY DEF Told, Reads
<1>10. Append(u, ch) = RequestLine(r, major, more)
  <2>1. ch \in Byte /\ minor \in Seq(Byte)
    BY <1>3, Bytes DEF Byte, Digit
  <2>2. /\ Version(request, major) \o <<".">> \in Seq(Byte)
        /\ RequestLine(request, major, minor) = Version(request, major) \o <<".">> \o minor
    BY <1>3, Parts
  <2>3. Append(u, ch) = Version(request, major) \o <<".">> \o more
    BY <1>9, <2>1, <2>2, AppendConcat DEF more
  <2>4. RequestLine(r, major, more) = Version(request, major) \o <<".">> \o more
    BY <1>2 DEF RequestLine, Version, Start, Mark
  <2>. QED
    BY <2>3, <2>4
<1>11. Reads("http_version_minor", Append(u, ch), r, major, more)
  BY <1>10, StatesApart DEF Reads, InField, InHeader, OtherStates
<1>. QED
  BY <1>2, <1>3, <1>4, <1>5, <1>8, <1>11 DEF Told, r, more

\* The request line ends.
LEMMA LineEndsRow ==
  ASSUME NEW r \in Request, NEW u, NEW major, NEW minor,
         Told("http_version_minor", u, r, major, minor)
  PROVE  Told("expecting_newline_1", Append(u, "CR"), r, major, minor)
<1>1. u = RequestLine(r, major, minor)
  BY DEF Told, Reads
<1>2. Lacks("expecting_newline_1", r, major, minor)
  BY StatesApart DEF Told, Lacks, BeforeUri, BeforeMajor, BeforeMinor, BeforeHeaders, OtherStates
<1>3. Append(u, "CR") = RequestLine(r, major, minor) \o <<"CR">>
  BY <1>1, Parts, AppendSingle DEF Told, Byte
<1>4. Reads("expecting_newline_1", Append(u, "CR"), r, major, minor)
  BY <1>3, StatesApart DEF Reads, InField, InHeader, OtherStates
<1>. QED
  BY <1>2, <1>4 DEF Told

\* After its line break there is no header yet.
LEMMA HeadersBegin ==
  ASSUME NEW r \in Request, NEW u, NEW major, NEW minor,
         Told("expecting_newline_1", u, r, major, minor)
  PROVE  Told("header_line_start", Append(u, "LF"), r, major, minor)
<1>1. u = RequestLine(r, major, minor) \o <<"CR">>
  BY DEF Told, Reads
<1>2. Lacks("header_line_start", r, major, minor) /\ r.headers = <<>>
  BY StatesApart DEF Told, Lacks, BeforeUri, BeforeMajor, BeforeMinor, BeforeHeaders, OtherStates
<1>3. Append(u, "LF") = FirstLine(r, major, minor)
  <2>1. RequestLine(r, major, minor) \in Seq(Byte) /\ <<"CR">> \in Seq(Byte) /\ "LF" \in Byte
    BY Parts, Marks DEF Told, Byte
  <2>2. Append(u, "LF") = RequestLine(r, major, minor) \o Append(<<"CR">>, "LF")
    BY <1>1, <2>1, AppendConcat
  <2>. QED
    BY <2>2, Marks DEF FirstLine
<1>4. Append(u, "LF") = FirstLine(r, major, minor) \o FieldsOf(r.headers)
  <2>1. FirstLine(r, major, minor) \in Seq(Byte)
    BY Parts DEF Told
  <2>2. FirstLine(r, major, minor) \o <<>> = FirstLine(r, major, minor)
    BY <2>1, Bytes
  <2>. QED
    BY <1>2, <1>3, <2>2, FieldsNone
<1>5. Reads("header_line_start", Append(u, "LF"), r, major, minor)
  BY <1>4, StatesApart DEF Reads, InField, InHeader, OtherStates
<1>. QED
  BY <1>2, <1>5 DEF Told

\* The states after the request line.
AfterLine == InField \cup {"header_line_start", "expecting_newline_3"}

\* There the numbers are behind.
LEMMA AfterLineLacks ==
  ASSUME NEW s \in AfterLine
  PROVE  /\ s \notin BeforeUri /\ s \notin BeforeMajor /\ s \notin BeforeMinor /\ s \notin BeforeHeaders
         /\ s \in OtherStates
<1>1. s \in {"header_line_start", "expecting_newline_3", "header_name",
             "space_before_header_value", "header_value", "header_lws", "expecting_newline_2"}
  BY DEF AfterLine, InField, InHeader
<1>. QED
  BY <1>1, StatesApart DEF BeforeUri, BeforeMajor, BeforeMinor, BeforeHeaders, OtherStates

\* So nothing is lacking any more.
LEMMA KeepsLacks ==
  ASSUME NEW s \in AfterLine, NEW t \in AfterLine, NEW r, NEW q, NEW major, NEW minor,
         Lacks(s, r, major, minor)
  PROVE  Lacks(t, q, major, minor)
BY AfterLineLacks DEF Lacks

\* What has been read of a header is made of bytes.
LEMMA EntryType ==
  ASSUME NEW s, NEW h \in Header
  PROVE  /\ h.name \in Seq(Byte) /\ h.value \in Seq(Byte) /\ h.name \o <<":", "SP">> \in Seq(Byte)
         /\ h.name \o <<":", "SP">> \o h.value \in Seq(Byte)
         /\ Entry(s, h) \in Seq(Byte)
<1>1. h.name \in Seq(Byte) /\ h.value \in Seq(Byte)
  BY Bytes DEF Header
<1>2. h.name \o <<":", "SP">> \in Seq(Byte) /\ h.name \o <<":">> \in Seq(Byte)
  BY <1>1, Bytes, Marks
<1>3. h.name \o <<":", "SP">> \o h.value \in Seq(Byte)
  BY <1>1, <1>2, Bytes
<1>4. h.name \o <<":", "SP">> \o h.value \o <<"CR">> \in Seq(Byte)
  BY <1>3, Bytes, Marks
<1>. QED
  BY <1>1, <1>2, <1>3, <1>4 DEF Entry

\* The line that ends the headers begins.
LEMMA EmptyLine ==
  ASSUME NEW r \in Request, NEW u, NEW major, NEW minor, Told("header_line_start", u, r, major, minor)
  PROVE  Told("expecting_newline_3", Append(u, "CR"), r, major, minor)
<1>1. u = FirstLine(r, major, minor) \o FieldsOf(r.headers)
  BY DEF Told, Reads
<1>2. Lacks("expecting_newline_3", r, major, minor)
  BY KeepsLacks DEF Told, AfterLine
<1>3. u \in Seq(Byte) /\ "CR" \in Byte
  BY <1>1, Parts DEF Told, Byte
<1>4. Append(u, "CR") = FirstLine(r, major, minor) \o FieldsOf(r.headers) \o <<"CR">>
  BY <1>1, <1>3, AppendSingle
<1>5. Reads("expecting_newline_3", Append(u, "CR"), r, major, minor)
  BY <1>4, StatesApart DEF Reads, InField, InHeader, OtherStates
<1>. QED
  BY <1>2, <1>5 DEF Told

\* What Reads says inside a field.
LEMMA ReadsInField ==
  ASSUME NEW s \in InField, NEW u, NEW r, NEW major, NEW minor
  PROVE  Reads(s, u, r, major, minor) <=> ReadsField(s, u, FirstLine(r, major, minor), r.headers)
<1>1. s \in {"header_name", "space_before_header_value", "header_value", "header_lws", "expecting_newline_2"}
  BY DEF InField, InHeader
<1>. QED
  BY <1>1, StatesApart DEF Reads, OtherStates

\* A token at the start of a line opens a header.
LEMMA HeaderOpens ==
  ASSUME request \in Request, NEW u, NEW major, NEW minor,
         Told("header_line_start", u, request, major, minor), NEW ch \in Char, NEW n
  PROVE  Told("header_name", Append(u, ch), Collected("header", ch, n), major, minor)
<1>. DEFINE r == Collected("header", ch, n)
            h == [name |-> <<ch>>, value |-> <<>>]
            head == FirstLine(request, major, minor)
            fields == FieldsOf(request.headers)
<1>1. r = [request EXCEPT !.headers = Append(@, h)]
  BY DEF Collected
<1>2. /\ r.uri = request.uri /\ r.method = request.method /\ r.headers = Append(request.headers, h)
      /\ r.major = request.major /\ r.minor = request.minor
  BY <1>1 DEF Request
<1>3. h \in Header /\ h.name = <<ch>> /\ h.value = <<>>
  BY DEF Header, Text
<1>4. FirstLine(r, major, minor) = head
  BY <1>2 DEF FirstLine, RequestLine
<1>. HIDE DEF r, h
<1>5. u = head \o fields /\ head \o fields \in Seq(Byte) /\ ch \in Byte /\ request.headers \in Seq(Header)
  BY Parts DEF Told, Reads, Byte
<1>. HIDE DEF head, fields
<1>6. Append(u, ch) = head \o fields \o <<ch>>
  BY <1>5, AppendSingle
<1>7. Entry("header_name", h) = <<ch>>
  BY <1>3 DEF Entry
<1>8. ReadsField("header_name", Append(u, ch), head, r.headers)
  BY <1>2, <1>3, <1>5, <1>6, <1>7 DEF ReadsField, fields
<1>9. Lacks("header_name", r, major, minor)
  BY KeepsLacks DEF Told, AfterLine, InField, InHeader
<1>10. Reads("header_name", Append(u, ch), r, major, minor)
  <2>1. "header_name" \in InField
    BY DEF InField, InHeader
  <2>. QED
    BY <1>4, <1>8, <2>1, ReadsInField DEF head
<1>. QED
  BY <1>2, <1>9, <1>10 DEF Told, r

\* The last field grows by a byte; the header may stay as it is.
LEMMA FieldGrows ==
  ASSUME NEW head \in Seq(Byte), NEW headers, NEW u, NEW s, NEW t,
         NEW before \in Seq(Header), NEW h \in Header, NEW g \in Header,
         u = head \o FieldsOf(before) \o Entry(s, h), headers = Append(before, g),
         t \in {"header_name", "space_before_header_value"} => g.value = <<>>,
         NEW ch \in Byte, Entry(t, g) = Append(Entry(s, h), ch)
  PROVE  ReadsField(t, Append(u, ch), head, headers)
<1>1. head \o FieldsOf(before) \in Seq(Byte)
  BY FieldsSeq, Bytes
<1>2. Entry(s, h) \in Seq(Byte)
  BY EntryType
<1>3. Append(u, ch) = head \o FieldsOf(before) \o Append(Entry(s, h), ch)
  BY <1>1, <1>2, AppendConcat
<1>. QED
  BY <1>3 DEF ReadsField

\* A byte that only changes the state, inside a field.
LEMMA FieldByte ==
  ASSUME NEW r \in Request, NEW u, NEW major, NEW minor, NEW s \in InField, NEW t \in InField,
         Told(s, u, r, major, minor), NEW ch \in Byte,
         t \in {"header_name", "space_before_header_value"} => s \in {"header_name", "space_before_header_value"},
         \A h \in Header : (s \in {"header_name", "space_before_header_value"} => h.value = <<>>)
                              => Entry(t, h) = Append(Entry(s, h), ch)
  PROVE  Told(t, Append(u, ch), r, major, minor)
<1>. DEFINE head == FirstLine(r, major, minor)
<1>1. ReadsField(s, u, head, r.headers)
  BY ReadsInField DEF Told
<1>2. PICK before \in Seq(Header), h \in Header :
        /\ r.headers = Append(before, h)
        /\ s \in {"header_name", "space_before_header_value"} => h.value = <<>>
        /\ u = head \o FieldsOf(before) \o Entry(s, h)
  BY <1>1 DEF ReadsField
<1>3. head \in Seq(Byte)
  BY Parts DEF Told
<1>4. Entry(t, h) = Append(Entry(s, h), ch)
  BY <1>2
<1>. HIDE DEF head
<1>5. ReadsField(t, Append(u, ch), head, r.headers)
  BY <1>2, <1>3, <1>4, FieldGrows
<1>6. Reads(t, Append(u, ch), r, major, minor)
  BY <1>5, ReadsInField DEF head
<1>7. Lacks(t, r, major, minor)
  BY KeepsLacks DEF Told, AfterLine
<1>. QED
  BY <1>6, <1>7 DEF Told

\* The colon after the name.
LEMMA NameEnds ==
  ASSUME NEW r \in Request, NEW u, NEW major, NEW minor, Told("header_name", u, r, major, minor)
  PROVE  Told("space_before_header_value", Append(u, ":"), r, major, minor)
<1>1. ASSUME NEW h \in Header
      PROVE  Entry("space_before_header_value", h) = Append(Entry("header_name", h), ":")
  <2>1. h.name \in Seq(Byte) /\ ":" \in Byte
    BY EntryType DEF Byte
  <2>. QED
    BY <2>1, AppendSingle DEF Entry
<1>2. "header_name" \in InField /\ "space_before_header_value" \in InField /\ ":" \in Byte
  BY DEF InField, InHeader, Byte
<1>. QED
  BY <1>1, <1>2, FieldByte

\* The space after the colon.
LEMMA ValueOpens ==
  ASSUME NEW r \in Request, NEW u, NEW major, NEW minor, Told("space_before_header_value", u, r, major, minor)
  PROVE  Told("header_value", Append(u, "SP"), r, major, minor)
<1>1. ASSUME NEW h \in Header, h.value = <<>>
      PROVE  Entry("header_value", h) = Append(Entry("space_before_header_value", h), "SP")
  <2>1. /\ h.name \in Seq(Byte) /\ "SP" \in Byte /\ <<":">> \in Seq(Byte)
        /\ h.name \o <<":", "SP">> \in Seq(Byte)
    BY EntryType, Marks DEF Byte
  <2>2. Append(h.name \o <<":">>, "SP") = h.name \o Append(<<":">>, "SP")
    BY <2>1, AppendConcat
  <2>3. h.name \o <<":", "SP">> \o <<>> = h.name \o <<":", "SP">>
    BY <2>1, Bytes
  <2>4. Entry("header_value", h) = h.name \o <<":", "SP">> \o h.value
    BY DEF Entry
  <2>5. Entry("space_before_header_value", h) = h.name \o <<":">>
    BY DEF Entry
  <2>. QED
    BY <1>1, <2>2, <2>3, <2>4, <2>5, Marks
<1>2. "header_value" \in InField /\ "space_before_header_value" \in InField /\ "SP" \in Byte
  BY DEF InField, InHeader, Byte
<1>. QED
  BY <1>1, <1>2, FieldByte

\* The line of a header ends, after its value or after white space.
LEMMA ValueEnds ==
  ASSUME NEW r \in Request, NEW u, NEW major, NEW minor, NEW s \in {"header_value", "header_lws"},
         Told(s, u, r, major, minor)
  PROVE  Told("expecting_newline_2", Append(u, "CR"), r, major, minor)
<1>1. ASSUME NEW h \in Header
      PROVE  Entry("expecting_newline_2", h) = Append(Entry(s, h), "CR")
  <2>1. h.name \o <<":", "SP">> \o h.value \in Seq(Byte) /\ "CR" \in Byte
    BY EntryType DEF Byte
  <2>. QED
    BY <2>1, AppendSingle DEF Entry
<1>2. s \in InField /\ "expecting_newline_2" \in InField /\ "CR" \in Byte
  BY DEF InField, InHeader, Byte
<1>. QED
  BY <1>1, <1>2, FieldByte

-----------------------------------------------------------------------------
\* The last header, written over.
Overwrites(headers, last, h, e, before, g) == headers[last] = h /\ e = Append(before, g)

\* It is the only header that changes.
LEMMA LastHeader ==
  ASSUME NEW before \in Seq(Header), NEW h \in Header, NEW g \in Header,
         NEW headers, headers = Append(before, h), NEW last, last = Len(headers),
         NEW e, e = [headers EXCEPT ![last] = g]
  PROVE  Overwrites(headers, last, h, e, before, g)
<1>. DEFINE n == Len(before)
            a == Append(before, g)
<1>1. n \in Nat /\ last = n + 1 /\ headers[last] = h /\ headers \in Seq(Header)
  OBVIOUS
<1>2. e \in Seq(Header) /\ Len(e) = n + 1 /\ e[n + 1] = g /\ \A k \in 1..n : e[k] = before[k]
  <2>1. DOMAIN headers = 1..(n + 1) /\ \A k \in 1..n : headers[k] = before[k] /\ k \in 1..(n + 1) /\ k # last
    BY <1>1
  <2>6. last \in 1..(n + 1) /\ \A k \in 1..(n + 1) : headers[k] \in Header
    BY <1>1, <2>1
  <2>. HIDE DEF n
  <2>2. e[n + 1] = g /\ \A k \in 1..n : e[k] = before[k]
    BY <1>1, <2>1, <2>6
  <2>3. DOMAIN e = 1..(n + 1) /\ \A k \in 1..(n + 1) : e[k] \in Header
    BY <1>1, <2>1, <2>6
  <2>4. e = [k \in 1..(n + 1) |-> e[k]] /\ n + 1 \in Nat
    BY <1>1, <2>3
  <2>5. e \in Seq(Header) /\ Len(e) = n + 1
    <3>1. [k \in 1..(n + 1) |-> e[k]] \in Seq(Header)
      BY <2>3, <2>4, IsASeq
    <3>. QED
      BY <2>3, <2>4, <3>1
  <2>. QED
    BY <2>2, <2>5
<1>3. a \in Seq(Header) /\ Len(a) = n + 1 /\ a[n + 1] = g /\ \A k \in 1..n : a[k] = before[k]
  BY <1>1
<1>4. \A k \in 1..(n + 1) : k \in 1..n \/ k = n + 1
  BY <1>1
<1>. HIDE DEF a, n
<1>5. \A k \in 1..(n + 1) : e[k] = a[k]
  BY <1>2, <1>3, <1>4
<1>6. e = a
  BY <1>2, <1>3, <1>5, SeqEqual
<1>. QED
  BY <1>1, <1>6 DEF a, Overwrites

\* A byte of the name.
LEMMA NameRow ==
  ASSUME request \in Request, NEW u, NEW major, NEW minor,
         Told("header_name", u, request, major, minor), NEW ch \in Char, NEW n
  PROVE  Told("header_name", Append(u, ch), Collected("name", ch, n), major, minor)
<1>. DEFINE r == Collected("name", ch, n)
            last == Len(request.headers)
            head == FirstLine(request, major, minor)
            new == [request.headers EXCEPT ![last].name = Append(@, ch)]
<1>1. r = [request EXCEPT !.headers = new]
  BY DEF Collected
<1>2. /\ r.uri = request.uri /\ r.method = request.method /\ r.headers = new
      /\ r.major = request.major /\ r.minor = request.minor
  BY <1>1 DEF Request
<1>3. FirstLine(r, major, minor) = head
  BY <1>2 DEF FirstLine, RequestLine
<1>. HIDE DEF r
<1>4. "header_name" \in InField
  BY DEF InField, InHeader
<1>14. ReadsField("header_name", u, head, request.headers)
  BY <1>4, ReadsInField DEF Told
<1>5. PICK before \in Seq(Header), h \in Header :
        /\ request.headers = Append(before, h)
        /\ "header_name" \in {"header_name", "space_before_header_value"} => h.value = <<>>
        /\ u = head \o FieldsOf(before) \o Entry("header_name", h)
  <2>. HIDE DEF head
  <2>. QED
    BY <1>14 DEF ReadsField
<1>. DEFINE g == [h EXCEPT !.name = Append(@, ch)]
<1>6. g \in Header /\ g.name = Append(h.name, ch) /\ g.value = h.value
  BY TextGrows DEF Header
<1>. HIDE DEF g
<1>7. request.headers[last] = h /\ [request.headers EXCEPT ![last] = g] = Append(before, g)
  <2>1. last = Len(request.headers)
    OBVIOUS
  <2>. HIDE DEF last, new, head
  <2>. DEFINE e == [request.headers EXCEPT ![last] = g]
  <2>2. e = [request.headers EXCEPT ![last] = g]
    OBVIOUS
  <2>. HIDE DEF e
  <2>3. request.headers = Append(before, h) /\ g \in Header
    BY <1>5, <1>6
  <2>4. Overwrites(request.headers, last, h, e, before, g)
    BY <2>1, <2>2, <2>3, LastHeader
  <2>. QED
    BY <2>2, <2>4 DEF Overwrites
<1>8. new = Append(before, g)
  <2>1. new = [request.headers EXCEPT ![last] = [request.headers[last] EXCEPT !.name = Append(@, ch)]]
    OBVIOUS
  <2>. QED
    BY <1>7, <2>1 DEF g
<1>9. Entry("header_name", g) = Append(Entry("header_name", h), ch)
  BY <1>6 DEF Entry
<1>10. head \in Seq(Byte) /\ ch \in Byte
  BY Parts DEF Told, Byte
<1>. HIDE DEF head, new
<1>11. ReadsField("header_name", Append(u, ch), head, new)
  BY <1>5, <1>6, <1>8, <1>9, <1>10, FieldGrows
<1>12. Reads("header_name", Append(u, ch), r, major, minor)
  BY <1>2, <1>3, <1>4, <1>11, ReadsInField
<1>13. Lacks("header_name", r, major, minor)
  BY <1>4, KeepsLacks DEF Told, AfterLine
<1>. QED
  BY <1>2, <1>12, <1>13 DEF Told, r

\* A byte of the value, also the first after a fold.
LEMMA ValueRow ==
  ASSUME request \in Request, NEW u, NEW major, NEW minor, NEW s \in {"header_value", "header_lws"},
         Told(s, u, request, major, minor), NEW ch \in Char, NEW n
  PROVE  Told("header_value", Append(u, ch), Collected("value", ch, n), major, minor)
<1>. DEFINE r == Collected("value", ch, n)
            last == Len(request.headers)
            head == FirstLine(request, major, minor)
            new == [request.headers EXCEPT ![last].value = Append(@, ch)]
<1>1. r = [request EXCEPT !.headers = new]
  BY DEF Collected
<1>2. /\ r.uri = request.uri /\ r.method = request.method /\ r.headers = new
      /\ r.major = request.major /\ r.minor = request.minor
  BY <1>1 DEF Request
<1>3. FirstLine(r, major, minor) = head
  BY <1>2 DEF FirstLine, RequestLine
<1>. HIDE DEF r
<1>4. s \in InField /\ "header_value" \in InField
  BY DEF InField, InHeader
<1>14. ReadsField(s, u, head, request.headers)
  BY <1>4, ReadsInField DEF Told
<1>5. PICK before \in Seq(Header), h \in Header :
        /\ request.headers = Append(before, h)
        /\ s \in {"header_name", "space_before_header_value"} => h.value = <<>>
        /\ u = head \o FieldsOf(before) \o Entry(s, h)
  <2>. HIDE DEF head
  <2>. QED
    BY <1>14 DEF ReadsField
<1>. DEFINE g == [h EXCEPT !.value = Append(@, ch)]
<1>6. g \in Header /\ g.value = Append(h.value, ch) /\ g.name = h.name
  BY TextGrows DEF Header
<1>. HIDE DEF g
<1>7. request.headers[last] = h /\ [request.headers EXCEPT ![last] = g] = Append(before, g)
  <2>1. last = Len(request.headers)
    OBVIOUS
  <2>. HIDE DEF last, new, head
  <2>. DEFINE e == [request.headers EXCEPT ![last] = g]
  <2>2. e = [request.headers EXCEPT ![last] = g]
    OBVIOUS
  <2>. HIDE DEF e
  <2>3. request.headers = Append(before, h) /\ g \in Header
    BY <1>5, <1>6
  <2>4. Overwrites(request.headers, last, h, e, before, g)
    BY <2>1, <2>2, <2>3, LastHeader
  <2>. QED
    BY <2>2, <2>4 DEF Overwrites
<1>8. new = Append(before, g)
  <2>1. new = [request.headers EXCEPT ![last] = [request.headers[last] EXCEPT !.value = Append(@, ch)]]
    OBVIOUS
  <2>. QED
    BY <1>7, <2>1 DEF g
<1>10. head \in Seq(Byte) /\ ch \in Byte
  BY Parts DEF Told, Byte
<1>9. Entry("header_value", g) = Append(Entry(s, h), ch)
  <2>1. h.name \o <<":", "SP">> \in Seq(Byte) /\ h.value \in Seq(Byte)
    BY EntryType
  <2>2. Entry(s, h) = h.name \o <<":", "SP">> \o h.value
    BY DEF Entry
  <2>3. Entry("header_value", g) = h.name \o <<":", "SP">> \o Append(h.value, ch)
    BY <1>6 DEF Entry
  <2>4. Append(h.name \o <<":", "SP">> \o h.value, ch) = h.name \o <<":", "SP">> \o Append(h.value, ch)
    <3>. HIDE DEF head, new
    <3>. QED
      BY <1>10, <2>1, AppendConcat
  <2>. QED
    BY <2>2, <2>3, <2>4
<1>. HIDE DEF head, new
<1>11. ReadsField("header_value", Append(u, ch), head, new)
  BY <1>5, <1>6, <1>8, <1>9, <1>10, FieldGrows
<1>12. Reads("header_value", Append(u, ch), r, major, minor)
  BY <1>2, <1>3, <1>4, <1>11, ReadsInField
<1>13. Lacks("header_value", r, major, minor)
  BY <1>4, KeepsLacks DEF Told, AfterLine
<1>. QED
  BY <1>2, <1>12, <1>13 DEF Told, r

\* The lines of the headers before, and then the one of the header h, which begins
\* with x and ends with a line break.
Placed(head, before, h, x) ==
  /\ x \in Seq(Byte) /\ FieldsOf(before) \in Seq(Byte) /\ head \o FieldsOf(before) \in Seq(Byte)
  /\ head \o FieldsOf(before) \o x \in Seq(Byte)
  /\ head \o FieldsOf(Append(before, h)) = head \o FieldsOf(before) \o x \o <<"CR", "LF">>
  /\ head \o FieldsOf(Append(before, h)) = head \o FieldsOf(before) \o (x \o <<"CR", "LF">>)

\* That holds of the last header.
LEMMA FieldIs ==
  ASSUME NEW before \in Seq(Header), NEW h \in Header, NEW head \in Seq(Byte), NEW x,
         x = h.name \o <<":", "SP">> \o h.value
  PROVE  Placed(head, before, h, x)
<1>. DEFINE f == FieldsOf(before)
            z == <<"CR", "LF">>
<1>1. x \in Seq(Byte) /\ f \in Seq(Byte) /\ z \in Seq(Byte) /\ x \o z \in Seq(Byte)
  BY EntryType, FieldsSeq, Marks, Bytes
<1>2. head \o f \in Seq(Byte) /\ head \o f \o x \in Seq(Byte)
  BY <1>1, Bytes
<1>3. FieldsOf(Append(before, h)) = f \o (x \o z)
  BY FieldsAppend DEF Field
<1>. HIDE DEF f, z
<1>4. head \o (f \o (x \o z)) = head \o f \o (x \o z) /\ head \o f \o (x \o z) = head \o f \o x \o z
  <2>1. head \o f \o (x \o z) = head \o (f \o (x \o z))
    BY <1>1, Assoc
  <2>. DEFINE hf == head \o f
  <2>2. hf \in Seq(Byte)
    BY <1>2
  <2>. HIDE DEF hf
  <2>3. hf \o x \o z = hf \o (x \o z)
    BY <1>1, <2>2, Assoc
  <2>. QED
    BY <2>1, <2>3 DEF hf
<1>. QED
  BY <1>1, <1>2, <1>3, <1>4 DEF f, z, Placed

\* After the line break the header is one of those before.
LEMMA FieldEnds ==
  ASSUME NEW r \in Request, NEW u, NEW major, NEW minor, Told("expecting_newline_2", u, r, major, minor)
  PROVE  Told("header_line_start", Append(u, "LF"), r, major, minor)
<1>. DEFINE head == FirstLine(r, major, minor)
<1>0. "expecting_newline_2" \in InField
  BY DEF InField
<1>1. ReadsField("expecting_newline_2", u, head, r.headers)
  BY <1>0, ReadsInField DEF Told
<1>2. head \in Seq(Byte) /\ "LF" \in Byte
  BY Parts DEF Told, Byte
<1>. HIDE DEF head
<1>3. PICK before \in Seq(Header), h \in Header :
        r.headers = Append(before, h) /\ u = head \o FieldsOf(before) \o Entry("expecting_newline_2", h)
  BY <1>1 DEF ReadsField
<1>. DEFINE x == h.name \o <<":", "SP">> \o h.value
            f == head \o FieldsOf(before)
<1>4. /\ x \in Seq(Byte) /\ f \in Seq(Byte)
      /\ head \o FieldsOf(r.headers) = f \o (x \o <<"CR", "LF">>)
  <2>1. Placed(head, before, h, x)
    BY <1>2, FieldIs
  <2>. QED
    BY <1>3, <2>1 DEF Placed
<1>5. Entry("expecting_newline_2", h) = x \o <<"CR">>
  BY DEF Entry
<1>6. u = f \o (x \o <<"CR">>)
  BY <1>3, <1>5
<1>. HIDE DEF x, f
<1>7. x \o <<"CR">> \in Seq(Byte) /\ <<"CR">> \in Seq(Byte)
  BY <1>4, Bytes, Marks
<1>8. Append(u, "LF") = f \o Append(x \o <<"CR">>, "LF")
  BY <1>2, <1>4, <1>6, <1>7, AppendConcat
<1>9. Append(x \o <<"CR">>, "LF") = x \o Append(<<"CR">>, "LF")
  BY <1>2, <1>4, <1>7, AppendConcat
<1>10. Append(u, "LF") = FirstLine(r, major, minor) \o FieldsOf(r.headers)
  BY <1>4, <1>8, <1>9, Marks DEF head
<1>11. Reads("header_line_start", Append(u, "LF"), r, major, minor)
  BY <1>10, StatesApart DEF Reads, InField, InHeader, OtherStates
<1>12. Lacks("header_line_start", r, major, minor)
  BY <1>0, KeepsLacks DEF Told, AfterLine
<1>. QED
  BY <1>11, <1>12 DEF Told

\* The text before a line break.
LEMMA DropBreak ==
  ASSUME NEW y \in Seq(Byte), NEW u, u = y \o <<"CR", "LF">>
  PROVE  SubSeq(u, 1, Len(u) - 2) = y
<1>. DEFINE n == Len(y)
            z == <<"CR", "LF">>
<1>1. z \in Seq(Byte) /\ Len(z) = 2
  BY Marks
<1>. HIDE DEF z
<1>2. n \in Nat /\ u \in Seq(Byte) /\ Len(u) = n + 2 /\ \A k \in 1..n : u[k] = y[k]
  BY <1>1 DEF z
<1>3. Len(u) - 2 = n /\ n <= Len(u)
  BY <1>2
<1>4. SubSeq(u, 1, n) \in Seq(Byte) /\ Len(SubSeq(u, 1, n)) = n /\ \A k \in 1..n : SubSeq(u, 1, n)[k] = u[k]
  BY <1>2, <1>3, FrontIs
<1>5. SubSeq(u, 1, n) = y
  BY <1>2, <1>4, SeqEqual
<1>. QED
  BY <1>3, <1>5

\* White space at the start of a line goes on with the last header.
LEMMA FoldOpens ==
  ASSUME NEW r \in Request, NEW u, NEW major, NEW minor, Told("header_line_start", u, r, major, minor),
         r.headers # <<>>
  PROVE  Told("header_lws", SubSeq(u, 1, Len(u) - 2), r, major, minor)
<1>. DEFINE head == FirstLine(r, major, minor)
            v == SubSeq(u, 1, Len(u) - 2)
<1>1. u = head \o FieldsOf(r.headers) /\ head \in Seq(Byte)
  BY Parts DEF Told, Reads
<1>. HIDE DEF head
<1>2. PICK before \in Seq(Header), h \in Header : r.headers = Append(before, h)
  BY LastIs DEF Request
<1>. DEFINE x == h.name \o <<":", "SP">> \o h.value
<1>3. /\ head \o FieldsOf(before) \o x \in Seq(Byte)
      /\ head \o FieldsOf(r.headers) = head \o FieldsOf(before) \o x \o <<"CR", "LF">>
  <2>1. Placed(head, before, h, x)
    BY <1>1, FieldIs
  <2>. QED
    BY <1>2, <2>1 DEF Placed
<1>4. Entry("header_lws", h) = x
  BY DEF Entry
<1>. DEFINE y == head \o FieldsOf(before) \o x
<1>5. v = y
  <2>1. y \in Seq(Byte) /\ u = y \o <<"CR", "LF">>
    BY <1>1, <1>3
  <2>. HIDE DEF y
  <2>. QED
    BY <2>1, DropBreak
<1>. HIDE DEF v, x
<1>6. ReadsField("header_lws", v, head, r.headers)
  BY <1>2, <1>4, <1>5 DEF ReadsField
<1>7. "header_lws" \in InField
  BY DEF InField, InHeader
<1>8. Reads("header_lws", v, r, major, minor)
  BY <1>6, <1>7, ReadsInField DEF head
<1>9. Lacks("header_lws", r, major, minor)
  BY <1>7, KeepsLacks DEF Told, AfterLine
<1>. QED
  BY <1>8, <1>9 DEF Told, v

-----------------------------------------------------------------------------

\* major and minor are in u, one byte between them, from that place on.
Sliced(u, from, major, minor) ==
  LET dot == from + Len(major)
      end == dot + 1 + Len(minor)
  IN  /\ dot \in from..Len(u) /\ end \in from..Len(u)
      /\ SubSeq(u, from, dot - 1) = major /\ SubSeq(u, dot + 1, end - 1) = minor

\* Two parts of a text, one byte between them.
LEMMA Slices ==
  ASSUME NEW v \in Seq(Byte), NEW major \in Seq(Byte), NEW point \in Seq(Byte), Len(point) = 1,
         NEW minor \in Seq(Byte), NEW tail \in Seq(Byte), Len(tail) >= 1,
         NEW u, u = v \o major \o point \o minor \o tail, NEW from, from = Len(v) + 1
  PROVE  Sliced(u, from, major, minor)
<1>. DEFINE b == v \o major
            line == b \o point
            m == minor \o tail
            rest == point \o m
            dot == from + Len(major)
            end == dot + 1 + Len(minor)
<1>1. b \in Seq(Byte) /\ Len(v) \in Nat /\ Len(major) \in Nat /\ Len(b) = Len(v) + Len(major)
  BY ConcatLen DEF Concats
<1>2. m \in Seq(Byte) /\ Len(minor) \in Nat /\ Len(tail) \in Nat /\ Len(m) = Len(minor) + Len(tail)
  BY ConcatLen DEF Concats
<1>3. u = line \o minor \o tail
  OBVIOUS
<1>4. line = b \o point /\ rest = point \o m
  OBVIOUS
<1>. HIDE DEF b, m
<1>5. line \in Seq(Byte) /\ Len(line) = Len(b) + 1 /\ rest \in Seq(Byte)
  <2>1. Concats(line, b, point)
    BY <1>1, <1>2, ConcatLen
  <2>2. Concats(rest, point, m)
    BY <1>1, <1>2, ConcatLen
  <2>. QED
    BY <2>1, <2>2 DEF Concats
<1>. HIDE DEF line, rest
<1>6. line \o minor \o tail = line \o m
  <2>1. Regroups(line, minor, tail)
    BY <1>5, Regroup
  <2>. QED
    BY <2>1 DEF m, Regroups
<1>7. b \o point \o m = b \o (point \o m)
  <2>1. Regroups(b, point, m)
    BY <1>1, <1>2, Regroup
  <2>. QED
    BY <2>1 DEF Regroups
<1>8. u = b \o rest
  BY <1>3, <1>4, <1>6, <1>7
<1>9. from - 1 = Len(v) /\ from \in Nat /\ Len(line) = dot /\ dot \in Nat
  BY <1>1, <1>5
<1>10. SubSeq(u, from, dot - 1) = major
  <2>1. from = Len(v) + 1 /\ dot - 1 = Len(v) + Len(major)
    BY <1>1, <1>9
  <2>2. u = v \o major \o rest
    BY <1>8 DEF b
  <2>. HIDE DEF dot
  <2>3. SubSeq(u, Len(v) + 1, Len(v) + Len(major)) = major
    BY <1>5, <2>2, SliceOf
  <2>. QED
    BY <2>1, <2>3
<1>11. SubSeq(u, dot + 1, end - 1) = minor
  <2>1. dot + 1 = Len(line) + 1 /\ end - 1 = Len(line) + Len(minor)
    BY <1>2, <1>9
  <2>. HIDE DEF dot, end
  <2>2. SubSeq(u, Len(line) + 1, Len(line) + Len(minor)) = minor
    BY <1>3, <1>5, SliceOf
  <2>. QED
    BY <2>1, <2>2
<1>12. Len(u) = dot + (Len(minor) + Len(tail))
  <2>1. u = line \o m
    BY <1>3, <1>6
  <2>3. Concats(line \o m, line, m)
    BY <1>2, <1>5, ConcatLen
  <2>2. Len(u) = Len(line) + Len(m)
    BY <2>1, <2>3 DEF Concats
  <2>. HIDE DEF dot
  <2>. QED
    BY <1>2, <1>9, <2>2
<1>13. dot \in from..Len(u) /\ end \in from..Len(u)
  <2>1. dot >= from /\ end = dot + 1 + Len(minor)
    BY <1>1, <1>9
  <2>. HIDE DEF dot, end
  <2>. QED
    BY <1>2, <1>9, <1>12, <2>1
<1>. QED
  BY <1>10, <1>11, <1>13 DEF Sliced

\* The parts of what was written, in their places.
LEMMA WrittenParts ==
  ASSUME NEW r \in Request, NEW major \in Seq(Digit), NEW minor \in Seq(Digit),
         NEW u, u = Written(r, major, minor), NEW from, from = Len(r.method) + Len(r.uri) + 8
  PROVE  Sliced(u, from, major, minor)
<1>. DEFINE v == Start(r) \o Mark
            crlf == <<"CR", "LF">>
            fields == FieldsOf(r.headers)
            tail == crlf \o (fields \o crlf)
            line == RequestLine(r, major, minor)
<1>1. /\ v \in Seq(Byte) /\ major \in Seq(Byte) /\ minor \in Seq(Byte)
      /\ line \in Seq(Byte) /\ fields \in Seq(Byte) /\ crlf \in Seq(Byte)
      /\ <<".">> \in Seq(Byte) /\ Len(crlf) = 2 /\ Len(<<".">>) = 1
  BY Parts, Marks
<1>2. Len(v) = Len(r.method) + 1 + Len(r.uri) + 6 /\ Len(r.method) \in Nat /\ Len(r.uri) \in Nat
  <2>1. /\ r.method \in Seq(Byte) /\ r.uri \in Seq(Byte) /\ Mark \in Seq(Byte) /\ Len(Mark) = 6
        /\ <<"SP">> \in Seq(Byte) /\ Len(<<"SP">>) = 1
    BY Parts, Marks, MarkGrows DEF Mark
  <2>2. /\ Len(r.method \o <<"SP">>) = Len(r.method) + 1 /\ r.method \o <<"SP">> \in Seq(Byte)
        /\ Len(r.method) \in Nat
    BY <2>1, ConcatLen DEF Concats
  <2>3. /\ Start(r) \in Seq(Byte) /\ Len(Start(r)) = Len(r.method \o <<"SP">>) + Len(r.uri)
        /\ Len(r.uri) \in Nat
    BY <2>1, <2>2, ConcatLen DEF Start, Concats
  <2>4. Len(v) = Len(Start(r)) + Len(Mark)
    BY <2>1, <2>3, ConcatLen DEF Concats
  <2>. HIDE DEF v
  <2>. QED
    BY <2>1, <2>2, <2>3, <2>4
<1>3. u = line \o crlf \o fields \o crlf /\ line = v \o major \o <<".">> \o minor
  BY Parts DEF Written, FieldsOf, Version
<1>. HIDE DEF v, crlf, fields, line
<1>4. fields \o crlf \in Seq(Byte) /\ line \o crlf \in Seq(Byte) /\ tail \in Seq(Byte)
  BY <1>1, Bytes
<1>5. Len(tail) >= 1
  <2>1. Len(tail) = Len(crlf) + Len(fields \o crlf) /\ Len(fields \o crlf) \in Nat
    BY <1>1, <1>4, ConcatLen DEF Concats
  <2>. HIDE DEF tail
  <2>. QED
    BY <1>1, <2>1
<1>6. u = line \o tail
  <2>1. line \o crlf \o fields \o crlf = line \o crlf \o (fields \o crlf)
    <3>. DEFINE x == line \o crlf
    <3>1. x \in Seq(Byte)
      BY <1>4
    <3>. HIDE DEF x
    <3>2. x \o fields \o crlf = x \o (fields \o crlf)
      BY <1>1, <3>1, Assoc
    <3>. QED
      BY <3>2 DEF x
  <2>2. line \o crlf \o (fields \o crlf) = line \o (crlf \o (fields \o crlf))
    <3>1. Regroups(line, crlf, fields \o crlf)
      BY <1>1, <1>4, Regroup
    <3>. QED
      BY <3>1 DEF Regroups
  <2>. QED
    BY <1>3, <2>1, <2>2
<1>. HIDE DEF tail
<1>7. from = Len(v) + 1
  <2>1. \A a, b, c \in Nat : c = a + 1 + b + 6 => c + 1 = a + b + 8
    OBVIOUS
  <2>2. Len(v) \in Nat
    BY <1>1
  <2>. QED
    BY <1>2, <2>1, <2>2
<1>8. u = v \o major \o <<".">> \o minor \o tail
  BY <1>3, <1>6
<1>. QED
  BY <1>1, <1>4, <1>5, <1>7, <1>8, Slices

\* The last line break completes the text that the request denotes.
LEMMA Finishes ==
  ASSUME NEW r \in Request, NEW u, NEW major, NEW minor, NEW text,
         Told("expecting_newline_3", u, r, major, minor), Unfolds(text, Append(u, "LF"))
  PROVE  Denotes(text, r)
<1>1. u = FirstLine(r, major, minor) \o FieldsOf(r.headers) \o <<"CR">>
  BY DEF Told, Reads
<1>2. major \in Seq(Digit) /\ minor \in Seq(Digit) /\ Counts(r.major, major) /\ Counts(r.minor, minor)
  BY DEF Told
<1>3. major # <<>> /\ minor # <<>>
  BY AfterLineLacks DEF Told, Lacks, AfterLine
<1>4. IsNumeral(major) /\ IsNumeral(minor)
  BY <1>2, <1>3 DEF IsNumeral, Range
<1>. DEFINE v == Append(u, "LF")
            w == FirstLine(r, major, minor) \o FieldsOf(r.headers)
<1>5. v = Written(r, major, minor)
  <2>1. w \in Seq(Byte) /\ <<"CR">> \in Seq(Byte) /\ "LF" \in Byte
    BY <1>2, Parts, Marks DEF Byte
  <2>2. u = w \o <<"CR">>
    BY <1>1
  <2>. HIDE DEF w
  <2>3. Append(u, "LF") = w \o Append(<<"CR">>, "LF")
    BY <2>1, <2>2, AppendConcat
  <2>4. v = w \o <<"CR", "LF">>
    BY <2>3, Marks
  <2>. QED
    BY <2>4 DEF w, Written, FirstLine, FieldsOf
<1>6. Unfolded(text) = v
  BY UnfoldedIs
<1>. HIDE DEF v
<1>. DEFINE from == Len(r.method) + Len(r.uri) + 8
            dot == from + Len(major)
            end == dot + 1 + Len(minor)
<1>7. /\ dot \in from..Len(v) /\ end \in from..Len(v)
      /\ SubSeq(v, from, dot - 1) = major /\ SubSeq(v, dot + 1, end - 1) = minor
  <2>. HIDE DEF from
  <2>0. from = Len(r.method) + Len(r.uri) + 8
    BY DEF from
  <2>1. Sliced(v, from, major, minor)
    BY <1>2, <1>5, <2>0, WrittenParts
  <2>. QED
    BY <2>1 DEF Sliced
<1>. HIDE DEF dot, end
<1>8. \E d, e \in from..Len(v) :
        /\ IsNumeral(SubSeq(v, from, d - 1)) /\ Counts(r.major, SubSeq(v, from, d - 1))
        /\ IsNumeral(SubSeq(v, d + 1, e - 1)) /\ Counts(r.minor, SubSeq(v, d + 1, e - 1))
        /\ v = Written(r, SubSeq(v, from, d - 1), SubSeq(v, d + 1, e - 1))
  <2>. HIDE DEF from
  <2>. QED
    BY <1>2, <1>4, <1>5, <1>7
<1>. QED
  BY <1>6, <1>8 DEF Denotes

\* What has been read, unfolded, is what the request holds.
Held(s, text, r) ==
  \E u, major, minor : Unfolding(s, text, u) /\ Told(s, u, r, major, minor)

\* While the parser reads, what it has read is what the request holds; so the text of a
\* good request denotes it.
FaithInv ==
  /\ result = "indeterminate" => Held(state, consumed, request)
  /\ GoodIsFaithful

\* The bytes that are no white space, or no part of a line break.
LEMMA NotLws ==
  ASSUME NEW ch \in Char
  PROVE  /\ ch \in Token => ch \notin Lws /\ ch # "LF" /\ ch # "CR"
         /\ ch \in UriByte => ch \notin Lws \/ ch = "HT"
         /\ ch \in UriByte => ch # "LF"
         /\ ch \in Digit => ch \notin Lws /\ ch # "LF"
         /\ ch \in ValueByte => ch # "LF"
BY DEF Token, Lws, UriByte, Digit, ValueByte, Ctl, Tspecial

\* Where a row leads, and with which byte.
Led(b, ch) ==
  \/ b[1] \in {"method_start", "method"} /\ b[3] = "method" /\ b[4] = "method"
  \/ b[1] = "method" /\ ch = "SP" /\ b[3] = "uri" /\ b[4] = "-"
  \/ b[1] = "uri" /\ b[3] = "uri" /\ b[4] = "uri"
  \/ b[1] = "uri" /\ ch = "SP" /\ b[3] = "http_version_h" /\ b[4] = "-"
  \/ \E k \in 1..4 : b[1] = VersionStates[k] /\ ch = Mark[k + 1] /\ b[3] = VersionStates[k + 1] /\ b[4] = "-"
  \/ b[1] = "http_version_slash" /\ ch = "/" /\ b[3] = "http_version_major_start" /\ b[4] = "version"
  \/ b[1] \in {"http_version_major_start", "http_version_major"} /\ b[3] = "http_version_major" /\ b[4] = "major"
  \/ b[1] = "http_version_major" /\ ch = "." /\ b[3] = "http_version_minor_start" /\ b[4] = "-"
  \/ b[1] \in {"http_version_minor_start", "http_version_minor"} /\ b[3] = "http_version_minor" /\ b[4] = "minor"
  \/ b[1] = "http_version_minor" /\ ch = "CR" /\ b[3] = "expecting_newline_1" /\ b[4] = "-"
  \/ b[1] = "header_line_start" /\ ch = "CR" /\ b[3] = "expecting_newline_3" /\ b[4] = "-"
  \/ b[1] = "header_line_start" /\ b[3] = "header_name" /\ b[4] = "header"
  \/ b[1] = "header_name" /\ b[3] = "header_name" /\ b[4] = "name"
  \/ b[1] = "header_name" /\ ch = ":" /\ b[3] = "space_before_header_value" /\ b[4] = "-"
  \/ b[1] = "space_before_header_value" /\ ch = "SP" /\ b[3] = "header_value" /\ b[4] = "-"
  \/ b[1] \in {"header_value", "header_lws"} /\ b[3] = "header_value" /\ b[4] = "value"
  \/ b[1] \in {"header_value", "header_lws"} /\ ch = "CR" /\ b[3] = "expecting_newline_2" /\ b[4] = "-"

\* A row that takes a byte for good, one that ends a line, and one that folds.
Keeps(b, ch) ==
  /\ ch # "LF"
  /\ ch \in Lws => b[1] \notin {"header_line_start", "header_lws"}
  /\ b[3] \notin {"header_line_start", "header_lws"}
  /\ b[3] \in LineEnds => ch = "CR"
  /\ Led(b, ch)

Breaking(b, ch) ==
  ch = "LF" /\ b[1] \in {"expecting_newline_1", "expecting_newline_2"} /\ b[3] = "header_line_start" /\ b[4] = "-"

FoldingRow(b, ch) ==
  ch \in Lws /\ b[1] \in {"header_line_start", "header_lws"} /\ b[3] = "header_lws" /\ b[4] = "-"

\* Every row is of one of the three kinds.
LEMMA RowKinds ==
  ASSUME NEW b \in Branches \cup {FoldBranch}, NEW ch \in Char, ch \in b[2]
  PROVE  Keeps(b, ch) \/ Breaking(b, ch) \/ FoldingRow(b, ch)
<1>2. CASE b = FoldBranch
  BY <1>2 DEF FoldBranch, FoldingRow
<1>3. CASE b \in Branches /\ b[4] # "-"
  BY <1>3, NotLws DEF Branches, Keeps, Led, LineEnds
<1>4. CASE b \in Branches /\ b[4] = "-" /\ b[1] \in {VersionStates[k] : k \in 1..4}
  <2>1. \E k \in 1..4 : b[1] = VersionStates[k] /\ ch = Mark[k + 1] /\ b[3] = VersionStates[k + 1]
    BY <1>4 DEF Branches, VersionStates, Mark
  <2>2. ch # "LF" /\ ch \notin Lws /\ b[3] \notin LineEnds /\ b[3] \notin {"header_line_start", "header_lws"}
    BY <1>4 DEF Branches, VersionStates, Lws, LineEnds
  <2>. QED
    BY <1>4, <2>1, <2>2 DEF Keeps, Led
<1>5. CASE b \in Branches /\ b[4] = "-" /\ b[1] \notin {VersionStates[k] : k \in 1..4}
  BY <1>5 DEF Branches, Keeps, Led, Breaking, FoldingRow, VersionStates, LineEnds, Lws
<1>. QED
  BY <1>2, <1>3, <1>4, <1>5

\* A row that takes a byte for good puts it where Written has it.
LEMMA ToldMore ==
  ASSUME ParserTypeOK, NEW ch \in Char, NEW b, Led(b, ch), NEW u, NEW major, NEW minor,
         Told(b[1], u, request, major, minor), NEW n \in Counted(b[4], ch),
         b[4] \in {"major", "minor"} => ch \in Digit
  PROVE  \E ma, mi : Told(b[3], Append(u, ch), Collected(b[4], ch, n), ma, mi)
<1>0. request \in Request
  BY DEF ParserTypeOK
<1>. DEFINE Same == Told(b[3], Append(u, ch), request, major, minor)
            More == Told(b[3], Append(u, ch), Collected(b[4], ch, n), major, minor)
<1>1. b[4] = "-" => Collected(b[4], ch, n) = request
  BY DEF Collected
<1>2. CASE b[1] \in {"method_start", "method"} /\ b[3] = "method" /\ b[4] = "method"
  <2>1. More
    BY <1>0, <1>2, MethodRow
  <2>. QED
    BY <2>1
<1>3. CASE b[1] = "method" /\ ch = "SP" /\ b[3] = "uri" /\ b[4] = "-"
  <2>1. Same
    BY <1>0, <1>3, UriOpens
  <2>. QED
    BY <1>1, <1>3, <2>1
<1>4. CASE b[1] = "uri" /\ b[3] = "uri" /\ b[4] = "uri"
  <2>1. More
    BY <1>0, <1>4, UriRow
  <2>. QED
    BY <2>1
<1>5. CASE b[1] = "uri" /\ ch = "SP" /\ b[3] = "http_version_h" /\ b[4] = "-"
  <2>1. Same
    BY <1>0, <1>5, MarkOpens
  <2>. QED
    BY <1>1, <1>5, <2>1
<1>6. CASE \E k \in 1..4 : b[1] = VersionStates[k] /\ ch = Mark[k + 1] /\ b[3] = VersionStates[k + 1] /\ b[4] = "-"
  <2>1. Same
    BY <1>0, <1>6, MarkRow
  <2>. QED
    BY <1>1, <1>6, <2>1
<1>7. CASE b[1] = "http_version_slash" /\ ch = "/" /\ b[3] = "http_version_major_start" /\ b[4] = "version"
  <2>1. More
    BY <1>0, <1>7, VersionRow
  <2>. QED
    BY <2>1
<1>8. CASE b[1] \in {"http_version_major_start", "http_version_major"} /\ b[3] = "http_version_major" /\ b[4] = "major"
  <2>1. n \in Shifted(request.major, ch) /\ ch \in Digit
    BY <1>8 DEF Counted
  <2>2. Told(b[3], Append(u, ch), Collected(b[4], ch, n), Append(major, ch), minor)
    BY <1>0, <1>8, <2>1, MajorRow
  <2>. QED
    BY <2>2
<1>9. CASE b[1] = "http_version_major" /\ ch = "." /\ b[3] = "http_version_minor_start" /\ b[4] = "-"
  <2>1. Same
    BY <1>0, <1>9, DotRow
  <2>. QED
    BY <1>1, <1>9, <2>1
<1>10. CASE b[1] \in {"http_version_minor_start", "http_version_minor"} /\ b[3] = "http_version_minor" /\ b[4] = "minor"
  <2>1. n \in Shifted(request.minor, ch) /\ ch \in Digit
    BY <1>10 DEF Counted
  <2>2. Told(b[3], Append(u, ch), Collected(b[4], ch, n), major, Append(minor, ch))
    BY <1>0, <1>10, <2>1, MinorRow
  <2>. QED
    BY <2>2
<1>11. CASE b[1] = "http_version_minor" /\ ch = "CR" /\ b[3] = "expecting_newline_1" /\ b[4] = "-"
  <2>1. Same
    BY <1>0, <1>11, LineEndsRow
  <2>. QED
    BY <1>1, <1>11, <2>1
<1>12. CASE b[1] = "header_line_start" /\ ch = "CR" /\ b[3] = "expecting_newline_3" /\ b[4] = "-"
  <2>1. Same
    BY <1>0, <1>12, EmptyLine
  <2>. QED
    BY <1>1, <1>12, <2>1
<1>13. CASE b[1] = "header_line_start" /\ b[3] = "header_name" /\ b[4] = "header"
  <2>1. More
    BY <1>0, <1>13, HeaderOpens
  <2>. QED
    BY <2>1
<1>14. CASE b[1] = "header_name" /\ b[3] = "header_name" /\ b[4] = "name"
  <2>1. More
    BY <1>0, <1>14, NameRow
  <2>. QED
    BY <2>1
<1>15. CASE b[1] = "header_name" /\ ch = ":" /\ b[3] = "space_before_header_value" /\ b[4] = "-"
  <2>1. Same
    BY <1>0, <1>15, NameEnds
  <2>. QED
    BY <1>1, <1>15, <2>1
<1>16. CASE b[1] = "space_before_header_value" /\ ch = "SP" /\ b[3] = "header_value" /\ b[4] = "-"
  <2>1. Same
    BY <1>0, <1>16, ValueOpens
  <2>. QED
    BY <1>1, <1>16, <2>1
<1>17. CASE b[1] \in {"header_value", "header_lws"} /\ b[3] = "header_value" /\ b[4] = "value"
  <2>1. More
    BY <1>0, <1>17, ValueRow
  <2>. QED
    BY <2>1
<1>18. CASE b[1] \in {"header_value", "header_lws"} /\ ch = "CR" /\ b[3] = "expecting_newline_2" /\ b[4] = "-"
  <2>1. Same
    BY <1>0, <1>18, ValueEnds
  <2>. QED
    BY <1>1, <1>18, <2>1
<1>. QED
  BY <1>2, <1>3, <1>4, <1>5, <1>6, <1>7, <1>8, <1>9, <1>10, <1>11, <1>12, <1>13, <1>14, <1>15, <1>16,
     <1>17, <1>18 DEF Led

\* So does every row, with the text unfolded.
LEMMA HeldMore ==
  ASSUME ParserTypeOK, HeaderIsThere, NEW ch \in Char, NEW b \in Taking(ch), NEW n \in Counted(b[4], ch),
         Held(state, consumed, request)
  PROVE  Held(b[3], Append(consumed, ch), Collected(b[4], ch, n))
<1>0. /\ b \in Branches \cup {FoldBranch} /\ b[1] = state /\ ch \in b[2]
      /\ b[4] \in {"major", "minor"} => ch \in Digit
      /\ b[3] \in InHeader => request.headers # <<>> \/ b[4] = "header"
  BY Taken
<1>1. PICK u, major, minor : Unfolding(state, consumed, u) /\ Told(state, u, request, major, minor)
  BY DEF Held
<1>2. b[4] = "-" => Collected(b[4], ch, n) = request
  BY DEF Collected
<1>3. request \in Request
  BY DEF ParserTypeOK
<1>4. CASE Keeps(b, ch)
  <2>1. Unfolding(b[3], Append(consumed, ch), Append(u, ch))
    BY <1>0, <1>1, <1>4, TakesByte DEF Keeps
  <2>2. Led(b, ch) /\ Told(b[1], u, request, major, minor)
    BY <1>0, <1>1, <1>4 DEF Keeps
  <2>3. \E ma, mi : Told(b[3], Append(u, ch), Collected(b[4], ch, n), ma, mi)
    BY <1>0, <2>2, ToldMore
  <2>. QED
    BY <2>1, <2>3 DEF Held
<1>5. CASE Breaking(b, ch)
  <2>1. ch = "LF" /\ state \in LineEnds /\ b[3] = "header_line_start" /\ b[4] = "-"
    BY <1>0, <1>5 DEF Breaking, LineEnds
  <2>2. Unfolding(b[3], Append(consumed, ch), Append(u, ch))
    BY <1>1, <2>1, TakesBreak
  <2>3. Told("header_line_start", Append(u, "LF"), request, major, minor)
    BY <1>0, <1>1, <1>3, <1>5, HeadersBegin, FieldEnds DEF Breaking
  <2>. QED
    BY <1>2, <2>1, <2>2, <2>3 DEF Held
<1>6. CASE FoldingRow(b, ch)
  <2>1. ch \in Lws \cap Char /\ b[3] = "header_lws" /\ b[4] = "-"
    BY <1>6 DEF FoldingRow
  <2>2. CASE state = "header_lws"
    <3>1. Unfolding("header_lws", Append(consumed, ch), u)
      BY <1>1, <2>1, <2>2, TakesFold
    <3>. QED
      BY <1>1, <1>2, <2>1, <2>2, <3>1 DEF Held
  <2>3. CASE state = "header_line_start"
    <3>1. Unfolding("header_lws", Append(consumed, ch), SubSeq(u, 1, Len(u) - 2))
      BY <1>1, <2>1, <2>3, OpensFold
    <3>2. request.headers # <<>>
      BY <1>0, <2>1 DEF InHeader
    <3>3. Told("header_lws", SubSeq(u, 1, Len(u) - 2), request, major, minor)
      BY <1>1, <1>3, <2>3, <3>2, FoldOpens
    <3>. QED
      BY <1>2, <2>1, <3>1, <3>3 DEF Held
  <2>. QED
    BY <1>0, <1>6, <2>2, <2>3 DEF FoldingRow
<1>. QED
  BY <1>0, <1>4, <1>5, <1>6, RowKinds

\* Every step keeps that, and the last one makes the text complete.
LEMMA FaithStep ==
  ASSUME ParserTypeOK, HeaderIsThere, FaithInv, [ParserNext]_pvars
  PROVE  FaithInv'
<1>1. CASE UNCHANGED pvars
  BY <1>1 DEF pvars, FaithInv, GoodIsFaithful
<1>2. ASSUME NEW ch \in Char, Consume(ch) PROVE FaithInv'
  <2>0. result = "indeterminate" /\ consumed' = Append(consumed, ch) /\ Held(state, consumed, request)
    BY <1>2 DEF Consume, FaithInv
  <2>1. CASE Advance(ch)
    <3>0. PICK b \in Taking(ch) :
            /\ state' = b[3] /\ UNCHANGED result
            /\ \E n \in Counted(b[4], ch) : request' = Collected(b[4], ch, n)
      BY <2>1 DEF Advance
    <3>1. PICK n \in Counted(b[4], ch) : request' = Collected(b[4], ch, n)
      BY <3>0
    <3>2. Held(b[3], Append(consumed, ch), Collected(b[4], ch, n))
      BY <2>0, HeldMore
    <3>. QED
      BY <2>0, <3>0, <3>1, <3>2 DEF FaithInv, GoodIsFaithful
  <2>2. CASE Finish(ch)
    <3>1. state = "expecting_newline_3" /\ ch = "LF" /\ result' = "good" /\ request' = request
      BY <2>2 DEF Finish, Completes
    <3>2. PICK u, major, minor : Unfolding(state, consumed, u) /\ Told(state, u, request, major, minor)
      BY <2>0 DEF Held
    <3>3. Unfolding("header_line_start", Append(consumed, "LF"), Append(u, "LF"))
      BY <3>1, <3>2, TakesBreak DEF LineEnds
    <3>4. Denotes(Append(consumed, "LF"), request)
      BY <3>1, <3>2, <3>3, Finishes DEF Unfolding, ParserTypeOK
    <3>. QED
      BY <2>0, <3>1, <3>4 DEF FaithInv, GoodIsFaithful
  <2>3. CASE Reject(ch)
    BY <2>3 DEF Reject, FaithInv, GoodIsFaithful
  <2>. QED
    BY <1>2, <2>1, <2>2, <2>3 DEF Consume
<1>. QED
  BY <1>1, <1>2 DEF ParserNext

\* A request called good is the one its text denotes, whatever the bytes are and wherever
\* the lines are folded.
THEOREM GoodIsAlwaysFaithful == ParserSpec => []GoodIsFaithful
<1>1. ParserInit => FaithInv
  <2> SUFFICES ASSUME ParserInit PROVE FaithInv
    OBVIOUS
  <2>1. Held("method_start", <<>>, request)
    BY UnfoldingStarts, StartsEmpty DEF Held
  <2>. QED
    BY <2>1 DEF ParserInit, FaithInv, GoodIsFaithful
<1>2. FaithInv => GoodIsFaithful
  BY DEF FaithInv
<1>. QED
  BY <1>1, <1>2, ShapeInit, ShapeStep, FaithStep, PTL DEF ParserSpec

-----------------------------------------------------------------------------
(***************************************************************************)
(* Which texts are accepted.  A text leads from a set of states and        *)
(* requests into another when each of its bytes is taken on the way; texts *)
(* that follow each other are put together, and what a well-formed request *)
(* leads into is a request that means it.                                  *)
(***************************************************************************)
\* The rows consume() has for a byte in the state s, r the request so far.
TakingIn(s, r, ch) ==
  {b \in Branches \cup (IF r.headers # <<>> THEN {FoldBranch} ELSE {}) : b[1] = s /\ ch \in b[2]}

\* The numbers it may make.
CountedIn(r, field, ch) ==
  CASE field = "major" -> Shifted(r.major, ch)
    [] field = "minor" -> Shifted(r.minor, ch)
    [] OTHER           -> {0}

\* The request it makes.
CollectedIn(r, field, ch, n) ==
  LET last == Len(r.headers)
  IN  CASE field = "-"       -> r
        [] field = "method"  -> [r EXCEPT !.method = Append(@, ch)]
        [] field = "uri"     -> [r EXCEPT !.uri = Append(@, ch)]
        [] field = "version" -> [r EXCEPT !.major = 0, !.minor = 0]
        [] field = "major"   -> [r EXCEPT !.major = n]
        [] field = "minor"   -> [r EXCEPT !.minor = n]
        [] field = "header"  -> [r EXCEPT !.headers = Append(@, [name |-> <<ch>>, value |-> <<>>])]
        [] field = "name"    -> [r EXCEPT !.headers[last].name = Append(@, ch)]
        [] field = "value"   -> [r EXCEPT !.headers[last].value = Append(@, ch)]

\* In the parser's state it is what the parser makes of it.
LEMMA InState ==
  ASSUME NEW ch, NEW field, NEW n
  PROVE  /\ Taking(ch) = TakingIn(state, request, ch)
         /\ Counted(field, ch) = CountedIn(request, field, ch)
         /\ Collected(field, ch, n) = CollectedIn(request, field, ch, n)
BY DEF Taking, TakingIn, Counted, CountedIn, Collected, CollectedIn

\* From everywhere in C, a set of pairs of a state and a request, the byte is taken,
\* and leads into D.
Passes(C, ch, D) ==
  ch \in Char =>
    \A c \in C :
      /\ TakingIn(c[1], c[2], ch) # {}
      /\ \A b \in TakingIn(c[1], c[2], ch) : \A n \in CountedIn(c[2], b[4], ch) :
           <<b[3], CollectedIn(c[2], b[4], ch, n)>> \in D

\* So does the text, byte by byte.
Along(p, text) == \A k \in 1..Len(text) : Passes(p[k - 1], text[k], p[k])

\* From C the whole of it is taken, and leads into D.
Leads(C, text, D) == \E p : C \subseteq p[0] /\ p[Len(text)] \subseteq D /\ Along(p, text)

\* What is taken from everywhere in B is taken from everywhere in less, and leads into more.
LEMMA PassesMore ==
  ASSUME NEW A, NEW B, NEW C, NEW D, NEW ch, Passes(B, ch, C), A \subseteq B, C \subseteq D
  PROVE  Passes(A, ch, D)
BY DEF Passes

\* No text leads nowhere.
LEMMA LeadsNowhere ==
  ASSUME NEW C, NEW D, C \subseteq D
  PROVE  Leads(C, <<>>, D)
<1>1. Len(<<>>) = 0
  OBVIOUS
<1>. DEFINE p == [k \in 0..0 |-> C]
<1>2. p[0] = C
  OBVIOUS
<1>3. Along(p, <<>>)
  BY <1>1 DEF Along
<1>. QED
  BY <1>1, <1>2, <1>3 DEF Leads

\* A text of one byte.
LEMMA LeadsByte ==
  ASSUME NEW C, NEW D, NEW ch, Passes(C, ch, D)
  PROVE  Leads(C, <<ch>>, D)
<1>1. Len(<<ch>>) = 1 /\ <<ch>>[1] = ch
  OBVIOUS
<1>. DEFINE p == [k \in 0..1 |-> IF k = 0 THEN C ELSE D]
<1>2. p[0] = C /\ p[1] = D
  OBVIOUS
<1>. HIDE DEF p
<1>3. Along(p, <<ch>>)
  <2> SUFFICES ASSUME NEW k \in 1..1 PROVE Passes(p[k - 1], <<ch>>[k], p[k])
    BY <1>1 DEF Along
  <2>1. k = 1 /\ k - 1 = 0
    OBVIOUS
  <2>. QED
    BY <1>1, <1>2, <2>1
<1>. QED
  BY <1>1, <1>2, <1>3 DEF Leads

\* One text after the other.
LEMMA LeadsOn ==
  ASSUME NEW S, NEW s \in Seq(S), NEW t \in Seq(S), NEW A, NEW B, NEW C, Leads(A, s, B), Leads(B, t, C)
  PROVE  Leads(A, s \o t, C)
<1>1. PICK p : A \subseteq p[0] /\ p[Len(s)] \subseteq B /\ Along(p, s)
  BY DEF Leads
<1>2. PICK q : B \subseteq q[0] /\ q[Len(t)] \subseteq C /\ Along(q, t)
  BY DEF Leads
<1>. DEFINE n == Len(s)
            m == Len(t)
            u == s \o t
            r == [k \in 0..(n + m) |-> IF k <= n /\ (k < n \/ m = 0) THEN p[k] ELSE q[k - n]]
<1>3. /\ n \in Nat /\ m \in Nat /\ Len(u) = n + m
      /\ \A k \in 1..n : u[k] = s[k]
      /\ \A k \in 1..m : u[n + k] = t[k]
  OBVIOUS
<1>4. \A k \in 0..(n + m) : r[k] = IF k <= n /\ (k < n \/ m = 0) THEN p[k] ELSE q[k - n]
  OBVIOUS
<1>5. p[n] \subseteq q[0]
  BY <1>1, <1>2
<1>. HIDE DEF r, u, n, m
<1>6. A \subseteq r[0]
  <2>1. 0 \in 0..(n + m) /\ (n # 0 => 0 < n) /\ 0 - n = 0 - n
    BY <1>3
  <2>2. CASE n # 0 \/ m = 0
    BY <1>1, <1>3, <1>4, <2>1, <2>2
  <2>3. CASE n = 0 /\ m # 0
    <3>1. r[0] = q[0]
      BY <1>3, <1>4, <2>1, <2>3
    <3>. QED
      BY <1>1, <1>5, <2>3, <3>1
  <2>. QED
    BY <2>2, <2>3
<1>7. r[n + m] \subseteq C
  <2>1. n + m \in 0..(n + m) /\ (n + m) - n = m
    BY <1>3
  <2>2. CASE m = 0
    <3>1. r[n + m] = p[n]
      BY <1>3, <1>4, <2>1, <2>2
    <3>. QED
      BY <1>2, <1>5, <2>2, <3>1 DEF m
  <2>3. CASE m # 0
    <3>1. r[n + m] = q[m]
      BY <1>3, <1>4, <2>1, <2>3
    <3>. QED
      BY <1>2, <3>1 DEF m
  <2>. QED
    BY <2>2, <2>3
<1>8. Along(r, u)
  <2> SUFFICES ASSUME NEW k \in 1..(n + m) PROVE Passes(r[k - 1], u[k], r[k])
    BY <1>3 DEF Along
  <2>0. k \in 0..(n + m) /\ k - 1 \in 0..(n + m) /\ k \in Nat
    BY <1>3
  <2>1. CASE k <= n
    <3>1. k \in 1..n /\ k - 1 < n /\ k - 1 <= n
      BY <1>3, <2>1
    <3>2. Passes(p[k - 1], u[k], p[k])
      BY <1>1, <1>3, <3>1 DEF Along, n
    <3>3. r[k - 1] = p[k - 1]
      BY <1>4, <2>0, <3>1
    <3>4. p[k] \subseteq r[k]
      <4>1. CASE k < n \/ m = 0
        BY <1>4, <2>0, <2>1, <4>1
      <4>2. CASE k = n /\ m # 0
        <5>1. r[k] = q[0]
          BY <1>3, <1>4, <2>0, <4>2
        <5>. QED
          BY <1>5, <4>2, <5>1
      <4>. QED
        BY <1>3, <2>1, <4>1, <4>2
    <3>. QED
      BY <3>2, <3>3, <3>4, PassesMore
  <2>2. CASE n < k
    <3>1. k - n \in 1..m /\ n + (k - n) = k /\ m # 0 /\ (k - n) - 1 = (k - 1) - n /\ ~(k <= n) /\ ~(k - 1 < n)
      BY <1>3, <2>2
    <3>2. Passes(q[(k - n) - 1], t[k - n], q[k - n])
      BY <1>2, <3>1 DEF Along, m
    <3>3. u[k] = t[k - n]
      BY <1>3, <3>1
    <3>4. r[k - 1] = q[(k - n) - 1]
      BY <1>4, <2>0, <3>1
    <3>5. r[k] = q[k - n]
      BY <1>4, <2>0, <3>1
    <3>. QED
      BY <3>2, <3>3, <3>4, <3>5
  <2>. QED
    BY <1>3, <2>1, <2>2
<1>9. A \subseteq r[0] /\ r[Len(u)] \subseteq C /\ Along(r, u)
  BY <1>3, <1>6, <1>7, <1>8
<1>10. Leads(A, u, C)
  BY <1>9 DEF Leads
<1>. QED
  BY <1>10 DEF u

\* From less, and into more.
LEMMA LeadsMore ==
  ASSUME NEW A, NEW B, NEW C, NEW D, NEW text, Leads(B, text, C), A \subseteq B, C \subseteq D
  PROVE  Leads(A, text, D)
BY DEF Leads

\* So do several in a row.
LEMMA LeadsThrough ==
  ASSUME NEW S, NEW seqs \in Seq(Seq(S)), NEW X,
         \A k \in 1..Len(seqs) : Leads(X[k - 1], seqs[k], X[k])
  PROVE  Leads(X[0], FlattenSeq(seqs), X[Len(seqs)])
<1>. DEFINE P(n) == Leads(X[0], FlattenSeq(SubSeq(seqs, 1, n)), X[n])
            T == {n \in Nat : P(n)}
<1>1. P(0)
  <2>1. SubSeq(seqs, 1, 0) = <<>>
    OBVIOUS
  <2>. QED
    BY <2>1, FlattenEmpty, LeadsNowhere
<1>2. ASSUME NEW n \in Nat, n < Len(seqs), P(n) PROVE P(n + 1)
  <2>1. FlattenSeq(SubSeq(seqs, 1, n + 1)) = FlattenSeq(SubSeq(seqs, 1, n)) \o seqs[n + 1]
    BY <1>2, FlattenNext
  <2>2. n + 1 \in 1..Len(seqs) /\ (n + 1) - 1 = n
    BY <1>2
  <2>3. Leads(X[n], seqs[n + 1], X[n + 1])
    BY <2>2
  <2>4. SubSeq(seqs, 1, n) \in Seq(Seq(S)) /\ seqs[n + 1] \in Seq(S)
    BY <2>2
  <2>5. FlattenSeq(SubSeq(seqs, 1, n)) \in Seq(S)
    BY <2>4, FlattenType
  <2>. QED
    BY <1>2, <2>1, <2>3, <2>4, <2>5, LeadsOn
<1>. HIDE DEF P
<1>3. Len(seqs) \in T
  <2>1. 0 \in T
    BY <1>1
  <2>2. \A n \in Nat : n < Len(seqs) /\ n \in T => n + 1 \in T
    BY <1>2
  <2>. HIDE DEF T
  <2>3. Len(seqs) \in Nat
    OBVIOUS
  <2>. QED
    BY <2>1, <2>2, <2>3, InductionTo
<1>4. SubSeq(seqs, 1, Len(seqs)) = seqs
  BY PrefixWhole
<1>. QED
  BY <1>3, <1>4 DEF P

-----------------------------------------------------------------------------
\* Of the rows for the states, those that take the byte all do the same with it.
RowsTake(S, ch, t, field) ==
  ch \in Char =>
    /\ \A s \in S : \E b \in Branches : b[1] = s /\ ch \in b[2]
    /\ \A b \in Branches \cup {FoldBranch} : b[1] \in S /\ ch \in b[2] => b[3] = t /\ b[4] = field

\* The requests R become some of Q.
Collects(R, ch, field, Q) == \A r \in R : \A n \in CountedIn(r, field, ch) : CollectedIn(r, field, ch, n) \in Q

\* So they are passed by the rows that take the byte.
LEMMA PassesRow ==
  ASSUME NEW S, NEW ch, NEW t, NEW field, NEW R, NEW Q, RowsTake(S, ch, t, field), Collects(R, ch, field, Q)
  PROVE  Passes(S \X R, ch, {t} \X Q)
<1> SUFFICES ASSUME ch \in Char, NEW s \in S, NEW r \in R
             PROVE  /\ TakingIn(s, r, ch) # {}
                    /\ \A b \in TakingIn(s, r, ch) : \A n \in CountedIn(r, b[4], ch) :
                         <<b[3], CollectedIn(r, b[4], ch, n)>> \in {t} \X Q
  BY DEF Passes
<1>1. PICK b \in Branches : b[1] = s /\ ch \in b[2]
  BY DEF RowsTake
<1>2. b \in TakingIn(s, r, ch)
  BY <1>1 DEF TakingIn
<1>3. ASSUME NEW d \in TakingIn(s, r, ch), NEW n \in CountedIn(r, d[4], ch)
      PROVE  <<d[3], CollectedIn(r, d[4], ch, n)>> \in {t} \X Q
  <2>1. d \in Branches \cup {FoldBranch} /\ d[1] = s /\ ch \in d[2]
    BY DEF TakingIn
  <2>2. d[3] = t /\ d[4] = field
    BY <2>1 DEF RowsTake
  <2>3. CollectedIn(r, field, ch, n) \in Q
    BY <1>3, <2>2 DEF Collects
  <2>. QED
    BY <2>2, <2>3
<1>. QED
  BY <1>2, <1>3

\* A byte that goes nowhere changes nothing.
LEMMA CollectsNone ==
  ASSUME NEW R, NEW ch
  PROVE  Collects(R, ch, "-", R)
BY DEF Collects, CollectedIn

\* A byte of the method.
LEMMA MethodTaken ==
  ASSUME NEW ch \in Token
  PROVE  RowsTake({"method_start"}, ch, "method", "method") /\ RowsTake({"method"}, ch, "method", "method")
<1>1. ch # "SP"
  BY DEF Token, Tspecial
<1>2. RowsTake({"method_start"}, ch, "method", "method")
  BY <1>1 DEF RowsTake, Branches, FoldBranch
<1>3. RowsTake({"method"}, ch, "method", "method")
  BY <1>1 DEF RowsTake, Branches, FoldBranch
<1>. QED
  BY <1>2, <1>3

\* The space after the method.
LEMMA MethodEnds == RowsTake({"method"}, "SP", "uri", "-")
<1>1. "SP" \notin Token
  BY DEF Token, Tspecial
<1>. QED
  BY <1>1 DEF RowsTake, Branches, FoldBranch

\* A byte of the uri.
LEMMA UriTaken ==
  ASSUME NEW ch \in UriByte
  PROVE  RowsTake({"uri"}, ch, "uri", "uri")
<1>1. ch # "SP"
  BY DEF UriByte
<1>. QED
  BY <1>1 DEF RowsTake, Branches, FoldBranch

\* The space after the uri.
LEMMA UriEnds == RowsTake({"uri"}, "SP", "http_version_h", "-")
<1>1. "SP" \notin UriByte
  BY DEF UriByte
<1>. QED
  BY <1>1 DEF RowsTake, Branches, FoldBranch

\* The bytes of the mark after it.
LEMMA MarkTaken ==
  /\ \A k \in 1..4 : RowsTake({VersionStates[k]}, Mark[k + 1], VersionStates[k + 1], "-")
  /\ RowsTake({"http_version_slash"}, "/", "http_version_major_start", "version")
<1>1. RowsTake({"http_version_slash"}, "/", "http_version_major_start", "version")
  BY DEF RowsTake, Branches, FoldBranch
<1>2. ASSUME NEW k \in 1..4 PROVE RowsTake({VersionStates[k]}, Mark[k + 1], VersionStates[k + 1], "-")
  <2>1. k = 1 \/ k = 2 \/ k = 3 \/ k = 4
    OBVIOUS
  <2>2. /\ RowsTake({"http_version_h"}, "H", "http_version_t_1", "-")
        /\ RowsTake({"http_version_t_1"}, "T", "http_version_t_2", "-")
        /\ RowsTake({"http_version_t_2"}, "T", "http_version_p", "-")
        /\ RowsTake({"http_version_p"}, "P", "http_version_slash", "-")
    BY DEF RowsTake, Branches, FoldBranch
  <2>. QED
    BY <2>1, <2>2 DEF VersionStates, Mark
<1>. QED
  BY <1>1, <1>2

\* A digit of the version.
LEMMA DigitTaken ==
  ASSUME NEW ch \in Digit
  PROVE  /\ RowsTake({"http_version_major_start"}, ch, "http_version_major", "major")
         /\ RowsTake({"http_version_major"}, ch, "http_version_major", "major")
         /\ RowsTake({"http_version_minor_start"}, ch, "http_version_minor", "minor")
         /\ RowsTake({"http_version_minor"}, ch, "http_version_minor", "minor")
<1>1. ch # "." /\ ch # "CR"
  BY DEF Digit
<1>2. RowsTake({"http_version_major_start"}, ch, "http_version_major", "major")
  BY <1>1 DEF RowsTake, Branches, FoldBranch
<1>3. RowsTake({"http_version_major"}, ch, "http_version_major", "major")
  BY <1>1 DEF RowsTake, Branches, FoldBranch
<1>4. RowsTake({"http_version_minor_start"}, ch, "http_version_minor", "minor")
  BY <1>1 DEF RowsTake, Branches, FoldBranch
<1>5. RowsTake({"http_version_minor"}, ch, "http_version_minor", "minor")
  BY <1>1 DEF RowsTake, Branches, FoldBranch
<1>. QED
  BY <1>2, <1>3, <1>4, <1>5

\* The bytes between and after the digits, and the last line.
LEMMA VersionTaken ==
  /\ RowsTake({"http_version_major"}, ".", "http_version_minor_start", "-")
  /\ RowsTake({"http_version_minor"}, "CR", "expecting_newline_1", "-")
  /\ RowsTake({"expecting_newline_1"}, "LF", "header_line_start", "-")
  /\ RowsTake({"header_line_start"}, "CR", "expecting_newline_3", "-")
<1>1. "." \notin Digit /\ "CR" \notin Digit /\ "CR" \notin Token /\ "CR" \notin Lws
  BY DEF Digit, Token, Ctl, Lws
<1>2. RowsTake({"http_version_major"}, ".", "http_version_minor_start", "-")
  BY <1>1 DEF RowsTake, Branches, FoldBranch
<1>3. RowsTake({"http_version_minor"}, "CR", "expecting_newline_1", "-")
  BY <1>1 DEF RowsTake, Branches, FoldBranch
<1>4. RowsTake({"expecting_newline_1"}, "LF", "header_line_start", "-")
  BY <1>1 DEF RowsTake, Branches, FoldBranch
<1>5. RowsTake({"header_line_start"}, "CR", "expecting_newline_3", "-")
  BY <1>1 DEF RowsTake, Branches, FoldBranch
<1>. QED
  BY <1>2, <1>3, <1>4, <1>5

\* A byte of the name of a header.
LEMMA NameTaken ==
  ASSUME NEW ch \in Token
  PROVE  /\ RowsTake({"header_line_start"}, ch, "header_name", "header")
         /\ RowsTake({"header_name"}, ch, "header_name", "name")
<1>1. ch # "CR" /\ ch # ":" /\ ch \notin Lws
  BY DEF Token, Ctl, Tspecial, Lws
<1>2. RowsTake({"header_line_start"}, ch, "header_name", "header")
  BY <1>1 DEF RowsTake, Branches, FoldBranch
<1>3. RowsTake({"header_name"}, ch, "header_name", "name")
  BY <1>1 DEF RowsTake, Branches, FoldBranch
<1>. QED
  BY <1>2, <1>3

\* The states in a value, and at its beginning or behind a fold.
LEMMA ValueTaken ==
  /\ RowsTake({"header_name"}, ":", "space_before_header_value", "-")
  /\ RowsTake({"space_before_header_value"}, "SP", "header_value", "-")
  /\ RowsTake({"header_value", "header_lws"}, "CR", "expecting_newline_2", "-")
  /\ RowsTake({"expecting_newline_2"}, "LF", "header_line_start", "-")
  /\ \A ch \in ValueByte : RowsTake({"header_value"}, ch, "header_value", "value")
  /\ \A ch \in ValueByte \ Lws : RowsTake({"header_lws"}, ch, "header_value", "value")
  /\ \A ch \in Lws : RowsTake({"header_lws"}, ch, "header_lws", "-")
<1>1. ":" \notin Token /\ "CR" \notin ValueByte /\ "CR" \notin Lws
  BY DEF Token, Tspecial, ValueByte, Ctl, Lws
<1>2. RowsTake({"header_name"}, ":", "space_before_header_value", "-")
  BY <1>1 DEF RowsTake, Branches, FoldBranch
<1>3. RowsTake({"space_before_header_value"}, "SP", "header_value", "-")
  BY <1>1 DEF RowsTake, Branches, FoldBranch
<1>4. RowsTake({"header_value", "header_lws"}, "CR", "expecting_newline_2", "-")
  BY <1>1 DEF RowsTake, Branches, FoldBranch
<1>5. RowsTake({"expecting_newline_2"}, "LF", "header_line_start", "-")
  BY <1>1 DEF RowsTake, Branches, FoldBranch
<1>6. ASSUME NEW ch \in ValueByte PROVE RowsTake({"header_value"}, ch, "header_value", "value")
  BY <1>1 DEF RowsTake, Branches, FoldBranch
<1>7. ASSUME NEW ch \in ValueByte \ Lws PROVE RowsTake({"header_lws"}, ch, "header_value", "value")
  BY <1>1 DEF RowsTake, Branches, FoldBranch
<1>8. ASSUME NEW ch \in Lws PROVE RowsTake({"header_lws"}, ch, "header_lws", "-")
  BY <1>1 DEF RowsTake, Branches, FoldBranch
<1>. QED
  BY <1>2, <1>3, <1>4, <1>5, <1>6, <1>7, <1>8

-----------------------------------------------------------------------------
\* The requests with these fields, and one of these numbers in each part of the version.
Some(method, uri, majors, minors, headers) ==
  [method : {method}, uri : {uri}, major : majors, minor : minors, headers : {headers}]

\* The numbers the digits may have come to.
Worth(digits) == {n \in Int : Counts(n, digits)}

\* What the fields become, one after the other: the method,
LEMMA CollectsMethod ==
  ASSUME NEW m, NEW u, NEW A, NEW B, NEW hs, NEW ch
  PROVE  Collects(Some(m, u, A, B, hs), ch, "method", Some(Append(m, ch), u, A, B, hs))
BY DEF Collects, CollectedIn, Some

\* the uri,
LEMMA CollectsUri ==
  ASSUME NEW m, NEW u, NEW A, NEW B, NEW hs, NEW ch
  PROVE  Collects(Some(m, u, A, B, hs), ch, "uri", Some(m, Append(u, ch), A, B, hs))
BY DEF Collects, CollectedIn, Some

\* the version before its digits,
LEMMA CollectsVersion ==
  ASSUME NEW m, NEW u, NEW A, NEW B, NEW hs, NEW ch
  PROVE  Collects(Some(m, u, A, B, hs), ch, "version", Some(m, u, {0}, {0}, hs))
BY DEF Collects, CollectedIn, Some

\* a digit of the major number,
LEMMA CollectsMajor ==
  ASSUME NEW m, NEW u, NEW digits \in Seq(Digit), NEW B, NEW hs, NEW ch \in Digit
  PROVE  Collects(Some(m, u, Worth(digits), B, hs), ch, "major", Some(m, u, Worth(Append(digits, ch)), B, hs))
<1> SUFFICES ASSUME NEW r \in Some(m, u, Worth(digits), B, hs), NEW n \in CountedIn(r, "major", ch)
             PROVE  CollectedIn(r, "major", ch, n) \in Some(m, u, Worth(Append(digits, ch)), B, hs)
  BY DEF Collects
<1>1. n \in Shifted(r.major, ch) /\ r.major \in Int /\ Counts(r.major, digits)
  BY DEF CountedIn, Some, Worth
<1>2. n \in Int
  BY <1>1, DigitValue
<1>3. Counts(n, Append(digits, ch))
  BY <1>1, CountsMore
<1>4. n \in Worth(Append(digits, ch))
  BY <1>2, <1>3 DEF Worth
<1>5. CollectedIn(r, "major", ch, n) = [r EXCEPT !.major = n]
  BY DEF CollectedIn
<1>. QED
  BY <1>4, <1>5 DEF Some

\* a digit of the minor number,
LEMMA CollectsMinor ==
  ASSUME NEW m, NEW u, NEW A, NEW digits \in Seq(Digit), NEW hs, NEW ch \in Digit
  PROVE  Collects(Some(m, u, A, Worth(digits), hs), ch, "minor", Some(m, u, A, Worth(Append(digits, ch)), hs))
<1> SUFFICES ASSUME NEW r \in Some(m, u, A, Worth(digits), hs), NEW n \in CountedIn(r, "minor", ch)
             PROVE  CollectedIn(r, "minor", ch, n) \in Some(m, u, A, Worth(Append(digits, ch)), hs)
  BY DEF Collects
<1>1. n \in Shifted(r.minor, ch) /\ r.minor \in Int /\ Counts(r.minor, digits)
  BY DEF CountedIn, Some, Worth
<1>2. n \in Int
  BY <1>1, DigitValue
<1>3. Counts(n, Append(digits, ch))
  BY <1>1, CountsMore
<1>4. n \in Worth(Append(digits, ch))
  BY <1>2, <1>3 DEF Worth
<1>5. CollectedIn(r, "minor", ch, n) = [r EXCEPT !.minor = n]
  BY DEF CollectedIn
<1>. QED
  BY <1>4, <1>5 DEF Some

\* the first byte of a header,
LEMMA CollectsHeader ==
  ASSUME NEW m, NEW u, NEW A, NEW B, NEW hs, NEW ch
  PROVE  Collects(Some(m, u, A, B, hs), ch, "header",
                  Some(m, u, A, B, Append(hs, [name |-> <<ch>>, value |-> <<>>])))
BY DEF Collects, CollectedIn, Some

\* A header of this name and value.
Named(name, value) == [name |-> name, value |-> value]

\* Changing the last header of a list.
LEMMA LastHeaderIs ==
  ASSUME NEW before \in Seq(Header), NEW h \in Header, NEW g \in Header
  PROVE  /\ Len(Append(before, h)) = Len(before) + 1
         /\ Append(before, h)[Len(before) + 1] = h
         /\ [Append(before, h) EXCEPT ![Len(before) + 1] = g] = Append(before, g)
<1>. DEFINE n == Len(before) + 1
            hs == Append(before, h)
            x == [hs EXCEPT ![n] = g]
            y == Append(before, g)
<1>1. /\ n \in Nat /\ hs \in Seq(Header) /\ Len(hs) = n /\ hs[n] = h /\ n \in 1..n
      /\ y \in Seq(Header) /\ Len(y) = n /\ y[n] = g
      /\ \A k \in 1..(n - 1) : hs[k] = before[k] /\ y[k] = before[k]
  OBVIOUS
<1>. HIDE DEF hs, y, n
<1>2. x \in Seq(Header) /\ Len(x) = n /\ x[n] = g /\ \A k \in 1..(n - 1) : x[k] = hs[k]
  BY <1>1
<1>3. \A k \in 1..n : k = n \/ k \in 1..(n - 1)
  BY <1>1
<1>. HIDE DEF x
<1>4. \A k \in 1..n : x[k] = y[k]
  BY <1>1, <1>2, <1>3
<1>5. x = y
  BY <1>1, <1>2, <1>4, SeqEqual
<1>. QED
  BY <1>1, <1>5 DEF x, y, hs, n

\* another of its name,
LEMMA CollectsName ==
  ASSUME NEW m, NEW u, NEW A, NEW B, NEW before \in Seq(Header), NEW name \in Text, NEW value \in Text, NEW ch \in Char
  PROVE  Collects(Some(m, u, A, B, Append(before, Named(name, value))), ch, "name",
                  Some(m, u, A, B, Append(before, Named(Append(name, ch), value))))
<1>. DEFINE h == Named(name, value)
            g == Named(Append(name, ch), value)
            hs == Append(before, h)
<1> SUFFICES ASSUME NEW r \in Some(m, u, A, B, hs), NEW n
             PROVE  CollectedIn(r, "name", ch, n) \in Some(m, u, A, B, Append(before, g))
  BY DEF Collects
<1>1. h \in Header /\ g \in Header
  BY TextGrows DEF Header, Named
<1>2. r.headers = hs
  BY DEF Some
<1>. DEFINE last == Len(before) + 1
<1>3. Len(hs) = last /\ hs[last] = h /\ [hs EXCEPT ![last] = g] = Append(before, g)
  BY <1>1, LastHeaderIs
<1>4. CollectedIn(r, "name", ch, n) = [r EXCEPT !.headers = [hs EXCEPT ![last] = [hs[last] EXCEPT !.name = Append(@, ch)]]]
  BY <1>2, <1>3 DEF CollectedIn
<1>5. [hs[last] EXCEPT !.name = Append(@, ch)] = g
  <2>. DEFINE x == Append(name, ch)
  <2>0. [[name |-> name, value |-> value] EXCEPT !.name = x] = [name |-> x, value |-> value]
    <3>. HIDE DEF x
    <3>. QED
      OBVIOUS
  <2>1. h.name = name /\ [h EXCEPT !.name = Append(name, ch)] = g
    BY <2>0 DEF Named
  <2>. HIDE DEF h, g, hs, last
  <2>2. hs[last].name = name /\ [hs[last] EXCEPT !.name = Append(name, ch)] = g
    BY <1>3, <2>1
  <2>. QED
    BY <2>2
<1>6. CollectedIn(r, "name", ch, n) = [r EXCEPT !.headers = Append(before, g)]
  BY <1>3, <1>4, <1>5
<1>. HIDE DEF g, hs
<1>. QED
  BY <1>6 DEF Some

\* and one of its value.
LEMMA CollectsValue ==
  ASSUME NEW m, NEW u, NEW A, NEW B, NEW before \in Seq(Header), NEW name \in Text, NEW value \in Text, NEW ch \in Char
  PROVE  Collects(Some(m, u, A, B, Append(before, Named(name, value))), ch, "value",
                  Some(m, u, A, B, Append(before, Named(name, Append(value, ch)))))
<1>. DEFINE h == Named(name, value)
            g == Named(name, Append(value, ch))
            hs == Append(before, h)
<1> SUFFICES ASSUME NEW r \in Some(m, u, A, B, hs), NEW n
             PROVE  CollectedIn(r, "value", ch, n) \in Some(m, u, A, B, Append(before, g))
  BY DEF Collects
<1>1. h \in Header /\ g \in Header
  BY TextGrows DEF Header, Named
<1>2. r.headers = hs
  BY DEF Some
<1>. DEFINE last == Len(before) + 1
<1>3. Len(hs) = last /\ hs[last] = h /\ [hs EXCEPT ![last] = g] = Append(before, g)
  BY <1>1, LastHeaderIs
<1>4. CollectedIn(r, "value", ch, n) = [r EXCEPT !.headers = [hs EXCEPT ![last] = [hs[last] EXCEPT !.value = Append(@, ch)]]]
  BY <1>2, <1>3 DEF CollectedIn
<1>5. [hs[last] EXCEPT !.value = Append(@, ch)] = g
  <2>1. h.value = value /\ [h EXCEPT !.value = Append(value, ch)] = g
    BY DEF Named
  <2>. HIDE DEF h, g, hs, last
  <2>2. hs[last].value = value /\ [hs[last] EXCEPT !.value = Append(value, ch)] = g
    BY <1>3, <2>1
  <2>. QED
    BY <2>2
<1>6. CollectedIn(r, "value", ch, n) = [r EXCEPT !.headers = Append(before, g)]
  BY <1>3, <1>4, <1>5
<1>. HIDE DEF g, hs
<1>. QED
  BY <1>6 DEF Some

-----------------------------------------------------------------------------
\* The text leads through X.
LEMMA LeadsAlong ==
  ASSUME NEW text, NEW X, \A k \in 1..Len(text) : Passes(X[k - 1], text[k], X[k])
  PROVE  Leads(X[0], text, X[Len(text)])
<1>1. Along(X, text)
  BY DEF Along
<1>. QED
  BY <1>1 DEF Leads

\* The first so many bytes of a text, and one more.
LEMMA PrefixMore ==
  ASSUME NEW S, NEW text \in Seq(S), NEW k \in 1..Len(text)
  PROVE  /\ SubSeq(text, 1, k - 1) \in Seq(S) /\ text[k] \in S
         /\ SubSeq(text, 1, k) = Append(SubSeq(text, 1, k - 1), text[k])
<1>1. k - 1 \in Nat /\ k - 1 < Len(text) /\ (k - 1) + 1 = k
  OBVIOUS
<1>2. SubSeq(text, 1, k - 1) \in Seq(S) /\ SubSeq(text, 1, (k - 1) + 1) = Append(SubSeq(text, 1, k - 1), text[(k - 1) + 1])
  BY <1>1, PrefixGrows
<1>. QED
  BY <1>1, <1>2, ElementOfSeq

\* None of them, and all.
LEMMA PrefixEnds ==
  ASSUME NEW S, NEW text \in Seq(S)
  PROVE  SubSeq(text, 1, 0) = <<>> /\ SubSeq(text, 1, Len(text)) = text
OBVIOUS

\* A method.
LEMMA LeadsMethod ==
  ASSUME NEW m \in Seq(Token), m # <<>>, NEW u, NEW A, NEW B, NEW hs
  PROVE  Leads({"method_start"} \X Some(<<>>, u, A, B, hs), m, {"method"} \X Some(m, u, A, B, hs))
<1>. DEFINE R(k) == Some(SubSeq(m, 1, k), u, A, B, hs)
            X == [k \in 0..Len(m) |-> (IF k = 0 THEN {"method_start"} ELSE {"method"}) \X R(k)]
<1>1. ASSUME NEW k \in 1..Len(m) PROVE Passes(X[k - 1], m[k], X[k])
  <2>1. m[k] \in Token /\ SubSeq(m, 1, k) = Append(SubSeq(m, 1, k - 1), m[k])
    BY PrefixMore
  <2>2. Collects(R(k - 1), m[k], "method", R(k))
    BY <2>1, CollectsMethod
  <2>. HIDE DEF R
  <2>3. /\ Passes({"method_start"} \X R(k - 1), m[k], {"method"} \X R(k))
        /\ Passes({"method"} \X R(k - 1), m[k], {"method"} \X R(k))
    BY <2>1, <2>2, MethodTaken, PassesRow
  <2>4. k \in 0..Len(m) /\ k - 1 \in 0..Len(m) /\ k # 0
    OBVIOUS
  <2>5. X[k] = {"method"} \X R(k)
    BY <2>4
  <2>6. X[k - 1] = {"method_start"} \X R(k - 1) \/ X[k - 1] = {"method"} \X R(k - 1)
    BY <2>4
  <2>. HIDE DEF X
  <2>. QED
    BY <2>3, <2>5, <2>6
<1>2. Len(m) \in Nat /\ Len(m) # 0 /\ 0 \in 0..Len(m) /\ Len(m) \in 0..Len(m)
  OBVIOUS
<1>3. SubSeq(m, 1, 0) = <<>> /\ SubSeq(m, 1, Len(m)) = m
  BY PrefixEnds
<1>4. X[0] = {"method_start"} \X R(0) /\ X[Len(m)] = {"method"} \X R(Len(m))
  BY <1>2
<1>. HIDE DEF X
<1>5. Leads(X[0], m, X[Len(m)])
  BY <1>1, LeadsAlong
<1>. QED
  BY <1>3, <1>4, <1>5

\* A sequence whose elements are in S.
LEMMA ElementsIn ==
  ASSUME NEW B, NEW s \in Seq(B), NEW S, Range(s) \subseteq S
  PROVE  s \in Seq(S)
<1>1. \A k \in 1..Len(s) : s[k] \in S
  <2>1. DOMAIN s = 1..Len(s)
    OBVIOUS
  <2>. QED
    BY <2>1 DEF Range
<1>2. s = [k \in 1..Len(s) |-> s[k]] /\ Len(s) \in Nat
  OBVIOUS
<1>3. [k \in 1..Len(s) |-> s[k]] \in Seq(S)
  BY <1>1, <1>2, IsASeq
<1>. QED
  BY <1>2, <1>3

\* A uri.
LEMMA LeadsUri ==
  ASSUME NEW uri \in Seq(UriByte), NEW m, NEW A, NEW B, NEW hs
  PROVE  Leads({"uri"} \X Some(m, <<>>, A, B, hs), uri, {"uri"} \X Some(m, uri, A, B, hs))
<1>. DEFINE R(k) == Some(m, SubSeq(uri, 1, k), A, B, hs)
            X == [k \in 0..Len(uri) |-> {"uri"} \X R(k)]
<1>1. ASSUME NEW k \in 1..Len(uri) PROVE Passes(X[k - 1], uri[k], X[k])
  <2>1. uri[k] \in UriByte /\ SubSeq(uri, 1, k) = Append(SubSeq(uri, 1, k - 1), uri[k])
    BY PrefixMore
  <2>2. Collects(R(k - 1), uri[k], "uri", R(k))
    BY <2>1, CollectsUri
  <2>. HIDE DEF R
  <2>3. Passes({"uri"} \X R(k - 1), uri[k], {"uri"} \X R(k))
    BY <2>1, <2>2, UriTaken, PassesRow
  <2>4. k \in 0..Len(uri) /\ k - 1 \in 0..Len(uri)
    OBVIOUS
  <2>5. X[k] = {"uri"} \X R(k) /\ X[k - 1] = {"uri"} \X R(k - 1)
    BY <2>4
  <2>. HIDE DEF X
  <2>. QED
    BY <2>3, <2>5
<1>2. Len(uri) \in Nat /\ 0 \in 0..Len(uri) /\ Len(uri) \in 0..Len(uri)
  OBVIOUS
<1>3. SubSeq(uri, 1, 0) = <<>> /\ SubSeq(uri, 1, Len(uri)) = uri
  BY PrefixEnds
<1>4. X[0] = {"uri"} \X R(0) /\ X[Len(uri)] = {"uri"} \X R(Len(uri))
  BY <1>2
<1>. HIDE DEF X
<1>5. Leads(X[0], uri, X[Len(uri)])
  BY <1>1, LeadsAlong
<1>. QED
  BY <1>3, <1>4, <1>5

\* The space after the method.
LEMMA LeadsSpace ==
  ASSUME NEW m, NEW u, NEW A, NEW B, NEW hs
  PROVE  Leads({"method"} \X Some(m, u, A, B, hs), <<"SP">>, {"uri"} \X Some(m, u, A, B, hs))
<1>1. Passes({"method"} \X Some(m, u, A, B, hs), "SP", {"uri"} \X Some(m, u, A, B, hs))
  BY MethodEnds, CollectsNone, PassesRow
<1>. QED
  BY <1>1, LeadsByte

\* The mark after the uri.
LEMMA LeadsMark ==
  ASSUME NEW m, NEW u, NEW A, NEW B, NEW hs
  PROVE  Leads({"uri"} \X Some(m, u, A, B, hs), Mark,
               {"http_version_major_start"} \X Some(m, u, {0}, {0}, hs))
<1>. DEFINE R == Some(m, u, A, B, hs)
            Q == Some(m, u, {0}, {0}, hs)
            X == [k \in 0..6 |-> CASE k = 0 -> {"uri"} \X R
                                   [] k \in 1..5 -> {VersionStates[k]} \X R
                                   [] k = 6 -> {"http_version_major_start"} \X Q]
<1>1. Len(Mark) = 6 /\ Mark[1] = "SP" /\ Mark[6] = "/" /\ VersionStates[1] = "http_version_h"
      /\ VersionStates[5] = "http_version_slash"
  BY DEF Mark, VersionStates
<1>2. /\ Passes({"uri"} \X R, "SP", {"http_version_h"} \X R)
      /\ \A k \in 1..4 : Passes({VersionStates[k]} \X R, Mark[k + 1], {VersionStates[k + 1]} \X R)
  BY UriEnds, MarkTaken, CollectsNone, PassesRow
<1>3. Collects(R, "/", "version", Q)
  BY CollectsVersion
<1>4. Passes({"http_version_slash"} \X R, "/", {"http_version_major_start"} \X Q)
  BY <1>3, MarkTaken, PassesRow
<1>. HIDE DEF R, Q
<1>5. /\ X[0] = {"uri"} \X R /\ X[6] = {"http_version_major_start"} \X Q
      /\ \A k \in 1..5 : X[k] = {VersionStates[k]} \X R
  OBVIOUS
<1>. HIDE DEF X
<1>6. ASSUME NEW k \in 1..6 PROVE Passes(X[k - 1], Mark[k], X[k])
  <2>1. CASE k = 1
    <3>1. k - 1 = 0 /\ X[1] = {"http_version_h"} \X R /\ Mark[k] = "SP"
      BY <1>1, <1>5, <2>1
    <3>. QED
      BY <1>2, <1>5, <2>1, <3>1
  <2>2. CASE k = 6
    <3>1. k - 1 = 5 /\ X[5] = {"http_version_slash"} \X R /\ Mark[k] = "/"
      BY <1>1, <1>5, <2>2
    <3>. QED
      BY <1>4, <1>5, <2>2, <3>1
  <2>3. CASE k \in 2..5
    <3>1. k - 1 \in 1..4 /\ k - 1 \in 1..5 /\ k \in 1..5 /\ (k - 1) + 1 = k
      BY <2>3
    <3>2. Passes({VersionStates[k - 1]} \X R, Mark[(k - 1) + 1], {VersionStates[(k - 1) + 1]} \X R)
      BY <1>2, <3>1
    <3>. QED
      BY <1>5, <3>1, <3>2
  <2>4. k = 1 \/ k = 6 \/ k \in 2..5
    OBVIOUS
  <2>. QED
    BY <2>1, <2>2, <2>3, <2>4
<1>7. Leads(X[0], Mark, X[6])
  BY <1>1, <1>6, LeadsAlong
<1>. QED
  BY <1>5, <1>7 DEF R, Q

\* Nothing is worth no digits.
LEMMA WorthNone == {0} \subseteq Worth(<<>>)
BY NumberEmpty DEF Worth, Counts

\* The digits of the version.
LEMMA LeadsMajor ==
  ASSUME NEW digits \in Seq(Digit), digits # <<>>, NEW m, NEW u, NEW B, NEW hs
  PROVE  Leads({"http_version_major_start"} \X Some(m, u, Worth(<<>>), B, hs), digits,
               {"http_version_major"} \X Some(m, u, Worth(digits), B, hs))
<1>. DEFINE R(k) == Some(m, u, Worth(SubSeq(digits, 1, k)), B, hs)
            X == [k \in 0..Len(digits) |->
                    (IF k = 0 THEN {"http_version_major_start"} ELSE {"http_version_major"}) \X R(k)]
<1>1. ASSUME NEW k \in 1..Len(digits) PROVE Passes(X[k - 1], digits[k], X[k])
  <2>1. /\ digits[k] \in Digit /\ SubSeq(digits, 1, k - 1) \in Seq(Digit)
        /\ SubSeq(digits, 1, k) = Append(SubSeq(digits, 1, k - 1), digits[k])
    BY PrefixMore
  <2>2. Collects(R(k - 1), digits[k], "major", R(k))
    BY <2>1, CollectsMajor
  <2>. HIDE DEF R
  <2>3. /\ Passes({"http_version_major_start"} \X R(k - 1), digits[k], {"http_version_major"} \X R(k))
        /\ Passes({"http_version_major"} \X R(k - 1), digits[k], {"http_version_major"} \X R(k))
    BY <2>1, <2>2, DigitTaken, PassesRow
  <2>4. k \in 0..Len(digits) /\ k - 1 \in 0..Len(digits) /\ k # 0
    OBVIOUS
  <2>5. X[k] = {"http_version_major"} \X R(k)
    BY <2>4
  <2>6. X[k - 1] = {"http_version_major_start"} \X R(k - 1) \/ X[k - 1] = {"http_version_major"} \X R(k - 1)
    BY <2>4
  <2>. HIDE DEF X
  <2>. QED
    BY <2>3, <2>5, <2>6
<1>2. Len(digits) \in Nat /\ Len(digits) # 0 /\ 0 \in 0..Len(digits) /\ Len(digits) \in 0..Len(digits)
  OBVIOUS
<1>3. SubSeq(digits, 1, 0) = <<>> /\ SubSeq(digits, 1, Len(digits)) = digits
  BY PrefixEnds
<1>4. X[0] = {"http_version_major_start"} \X R(0) /\ X[Len(digits)] = {"http_version_major"} \X R(Len(digits))
  BY <1>2
<1>. HIDE DEF X
<1>5. Leads(X[0], digits, X[Len(digits)])
  BY <1>1, LeadsAlong
<1>. QED
  BY <1>3, <1>4, <1>5

\* and minor,
LEMMA LeadsMinor ==
  ASSUME NEW digits \in Seq(Digit), digits # <<>>, NEW m, NEW u, NEW A, NEW hs
  PROVE  Leads({"http_version_minor_start"} \X Some(m, u, A, Worth(<<>>), hs), digits,
               {"http_version_minor"} \X Some(m, u, A, Worth(digits), hs))
<1>. DEFINE R(k) == Some(m, u, A, Worth(SubSeq(digits, 1, k)), hs)
            X == [k \in 0..Len(digits) |->
                    (IF k = 0 THEN {"http_version_minor_start"} ELSE {"http_version_minor"}) \X R(k)]
<1>1. ASSUME NEW k \in 1..Len(digits) PROVE Passes(X[k - 1], digits[k], X[k])
  <2>1. /\ digits[k] \in Digit /\ SubSeq(digits, 1, k - 1) \in Seq(Digit)
        /\ SubSeq(digits, 1, k) = Append(SubSeq(digits, 1, k - 1), digits[k])
    BY PrefixMore
  <2>2. Collects(R(k - 1), digits[k], "minor", R(k))
    BY <2>1, CollectsMinor
  <2>. HIDE DEF R
  <2>3. /\ Passes({"http_version_minor_start"} \X R(k - 1), digits[k], {"http_version_minor"} \X R(k))
        /\ Passes({"http_version_minor"} \X R(k - 1), digits[k], {"http_version_minor"} \X R(k))
    BY <2>1, <2>2, DigitTaken, PassesRow
  <2>4. k \in 0..Len(digits) /\ k - 1 \in 0..Len(digits) /\ k # 0
    OBVIOUS
  <2>5. X[k] = {"http_version_minor"} \X R(k)
    BY <2>4
  <2>6. X[k - 1] = {"http_version_minor_start"} \X R(k - 1) \/ X[k - 1] = {"http_version_minor"} \X R(k - 1)
    BY <2>4
  <2>. HIDE DEF X
  <2>. QED
    BY <2>3, <2>5, <2>6
<1>2. Len(digits) \in Nat /\ Len(digits) # 0 /\ 0 \in 0..Len(digits) /\ Len(digits) \in 0..Len(digits)
  OBVIOUS
<1>3. SubSeq(digits, 1, 0) = <<>> /\ SubSeq(digits, 1, Len(digits)) = digits
  BY PrefixEnds
<1>4. X[0] = {"http_version_minor_start"} \X R(0) /\ X[Len(digits)] = {"http_version_minor"} \X R(Len(digits))
  BY <1>2
<1>. HIDE DEF X
<1>5. Leads(X[0], digits, X[Len(digits)])
  BY <1>1, LeadsAlong
<1>. QED
  BY <1>3, <1>4, <1>5

\* with a point between them.
LEMMA LeadsDot ==
  ASSUME NEW m, NEW u, NEW A, NEW B, NEW hs
  PROVE  Leads({"http_version_major"} \X Some(m, u, A, B, hs), <<".">>,
               {"http_version_minor_start"} \X Some(m, u, A, B, hs))
<1>1. Passes({"http_version_major"} \X Some(m, u, A, B, hs), ".", {"http_version_minor_start"} \X Some(m, u, A, B, hs))
  BY VersionTaken, CollectsNone, PassesRow
<1>. QED
  BY <1>1, LeadsByte

\* Two bytes.
LEMMA LeadsPair ==
  ASSUME NEW A, NEW B, NEW C, NEW a \in Byte, NEW b \in Byte, Passes(A, a, B), Passes(B, b, C)
  PROVE  Leads(A, <<a, b>>, C)
<1>1. Leads(A, <<a>>, B) /\ Leads(B, <<b>>, C)
  BY LeadsByte
<1>2. <<a>> \in Seq(Byte) /\ <<b>> \in Seq(Byte)
  OBVIOUS
<1>3. <<a>> \o <<b>> = <<a, b>>
  BY <1>2, PairAppend, AppendSingle
<1>. QED
  BY <1>1, <1>2, <1>3, LeadsOn

\* The end of the request line.
LEMMA LeadsLineEnd ==
  ASSUME NEW m, NEW u, NEW A, NEW B, NEW hs
  PROVE  Leads({"http_version_minor"} \X Some(m, u, A, B, hs), <<"CR", "LF">>,
               {"header_line_start"} \X Some(m, u, A, B, hs))
<1>1. /\ Passes({"http_version_minor"} \X Some(m, u, A, B, hs), "CR", {"expecting_newline_1"} \X Some(m, u, A, B, hs))
      /\ Passes({"expecting_newline_1"} \X Some(m, u, A, B, hs), "LF", {"header_line_start"} \X Some(m, u, A, B, hs))
  BY VersionTaken, CollectsNone, PassesRow
<1>. QED
  BY <1>1, LeadsPair DEF Byte

\* Names and values are texts.
LEMMA TokenText == Seq(Token) \subseteq Text /\ Seq(ValueByte) \subseteq Text
<1>1. Token \subseteq Char /\ ValueByte \subseteq Char
  BY DEF Token, ValueByte
<1>. QED
  BY <1>1, SeqMonotone DEF Text

\* The requests with a header behind the others.
With(m, u, A, B, before, name, value) == Some(m, u, A, B, Append(before, Named(name, value)))

\* The first byte of a header,
LEMMA OpensName ==
  ASSUME NEW m, NEW u, NEW A, NEW B, NEW before, NEW ch \in Token
  PROVE  Passes({"header_line_start"} \X Some(m, u, A, B, before), ch,
                {"header_name"} \X With(m, u, A, B, before, <<ch>>, <<>>))
<1>1. Collects(Some(m, u, A, B, before), ch, "header", With(m, u, A, B, before, <<ch>>, <<>>))
  BY CollectsHeader DEF With, Named
<1>. QED
  BY <1>1, NameTaken, PassesRow

\* another of its name,
LEMMA GrowsName ==
  ASSUME NEW m, NEW u, NEW A, NEW B, NEW before \in Seq(Header), NEW name \in Text, NEW ch \in Token
  PROVE  Passes({"header_name"} \X With(m, u, A, B, before, name, <<>>), ch,
                {"header_name"} \X With(m, u, A, B, before, Append(name, ch), <<>>))
<1>1. ch \in Char /\ <<>> \in Text
  BY DEF Token, Text
<1>2. Collects(With(m, u, A, B, before, name, <<>>), ch, "name", With(m, u, A, B, before, Append(name, ch), <<>>))
  BY <1>1, CollectsName DEF With
<1>. QED
  BY <1>2, NameTaken, PassesRow

\* and one of its value, which after a fold is no white space.
LEMMA GrowsValue ==
  ASSUME NEW m, NEW u, NEW A, NEW B, NEW before \in Seq(Header), NEW name \in Text, NEW value \in Text,
         NEW ch \in ValueByte
  PROVE  /\ Passes({"header_value"} \X With(m, u, A, B, before, name, value), ch,
                   {"header_value"} \X With(m, u, A, B, before, name, Append(value, ch)))
         /\ ch \notin Lws => Passes({"header_lws"} \X With(m, u, A, B, before, name, value), ch,
                                    {"header_value"} \X With(m, u, A, B, before, name, Append(value, ch)))
<1>1. ch \in Char
  BY DEF ValueByte
<1>2. Collects(With(m, u, A, B, before, name, value), ch, "value", With(m, u, A, B, before, name, Append(value, ch)))
  BY <1>1, CollectsValue DEF With
<1>3. Passes({"header_value"} \X With(m, u, A, B, before, name, value), ch,
             {"header_value"} \X With(m, u, A, B, before, name, Append(value, ch)))
  BY <1>2, ValueTaken, PassesRow
<1>4. ASSUME ch \notin Lws
      PROVE  Passes({"header_lws"} \X With(m, u, A, B, before, name, value), ch,
                    {"header_value"} \X With(m, u, A, B, before, name, Append(value, ch)))
  <2>1. RowsTake({"header_lws"}, ch, "header_value", "value")
    BY <1>4, ValueTaken
  <2>. QED
    BY <1>2, <2>1, PassesRow
<1>. QED
  BY <1>3, <1>4

\* A name.
LEMMA LeadsName ==
  ASSUME NEW name \in Seq(Token), name # <<>>, NEW m, NEW u, NEW A, NEW B, NEW before \in Seq(Header)
  PROVE  Leads({"header_line_start"} \X Some(m, u, A, B, before), name,
               {"header_name"} \X With(m, u, A, B, before, name, <<>>))
<1>. DEFINE R(k) == With(m, u, A, B, before, SubSeq(name, 1, k), <<>>)
            X == [k \in 0..Len(name) |-> IF k = 0 THEN {"header_line_start"} \X Some(m, u, A, B, before)
                                                  ELSE {"header_name"} \X R(k)]
<1>1. Len(name) \in Nat /\ Len(name) # 0 /\ 0 \in 0..Len(name) /\ Len(name) \in 0..Len(name)
  OBVIOUS
<1>2. SubSeq(name, 1, 0) = <<>> /\ SubSeq(name, 1, Len(name)) = name
  BY PrefixEnds
<1>3. ASSUME NEW k \in 1..Len(name) PROVE Passes(X[k - 1], name[k], X[k])
  <2>1. /\ name[k] \in Token /\ SubSeq(name, 1, k - 1) \in Seq(Token)
        /\ SubSeq(name, 1, k) = Append(SubSeq(name, 1, k - 1), name[k])
    BY PrefixMore
  <2>2. k \in 0..Len(name) /\ k - 1 \in 0..Len(name) /\ k # 0
    OBVIOUS
  <2>3. X[k] = {"header_name"} \X R(k)
    BY <2>2
  <2>4. CASE k = 1
    <3>1. k - 1 = 0
      BY <2>4
    <3>2. SubSeq(name, 1, k) = <<name[k]>>
      <4>1. SubSeq(name, 1, k - 1) = <<>>
        BY <1>2, <3>1
      <4>2. Append(<<>>, name[k]) = <<name[k]>>
        OBVIOUS
      <4>. QED
        BY <2>1, <4>1, <4>2
    <3>3. X[k - 1] = {"header_line_start"} \X Some(m, u, A, B, before)
      BY <2>2, <3>1
    <3>4. Passes({"header_line_start"} \X Some(m, u, A, B, before), name[k], {"header_name"} \X R(k))
      BY <2>1, <3>2, OpensName
    <3>. HIDE DEF X, R
    <3>. QED
      BY <2>3, <3>3, <3>4
  <2>5. CASE k # 1
    <3>1. X[k - 1] = {"header_name"} \X R(k - 1)
      BY <2>2, <2>5
    <3>2. SubSeq(name, 1, k - 1) \in Text
      BY <2>1, TokenText
    <3>3. Passes({"header_name"} \X R(k - 1), name[k], {"header_name"} \X R(k))
      BY <2>1, <3>2, GrowsName
    <3>. HIDE DEF X, R
    <3>. QED
      BY <2>3, <3>1, <3>3
  <2>. QED
    BY <2>4, <2>5
<1>4. X[0] = {"header_line_start"} \X Some(m, u, A, B, before) /\ X[Len(name)] = {"header_name"} \X R(Len(name))
  BY <1>1
<1>. HIDE DEF X
<1>5. Leads(X[0], name, X[Len(name)])
  BY <1>3, LeadsAlong
<1>. QED
  BY <1>2, <1>4, <1>5

\* The colon after it.
LEMMA LeadsColon ==
  ASSUME NEW R
  PROVE  Leads({"header_name"} \X R, <<":", "SP">>, {"header_value"} \X R)
<1>1. /\ Passes({"header_name"} \X R, ":", {"space_before_header_value"} \X R)
      /\ Passes({"space_before_header_value"} \X R, "SP", {"header_value"} \X R)
  BY ValueTaken, CollectsNone, PassesRow
<1>. QED
  BY <1>1, LeadsPair DEF Byte

\* The states behind a line of a value: the white space of a fold may have been all of it.
Behind == {"header_value", "header_lws"}

\* The end of a line.
LEMMA LeadsBreak ==
  ASSUME NEW R
  PROVE  Leads(Behind \X R, <<"CR", "LF">>, {"header_line_start"} \X R)
<1>1. /\ Passes(Behind \X R, "CR", {"expecting_newline_2"} \X R)
      /\ Passes({"expecting_newline_2"} \X R, "LF", {"header_line_start"} \X R)
  BY ValueTaken, CollectsNone, PassesRow DEF Behind
<1>. QED
  BY <1>1, LeadsPair DEF Byte

\* A text in a value, behind a byte of it.
LEMMA ConcatMore ==
  ASSUME NEW value \in Text, NEW text \in Text, NEW k \in 1..Len(text)
  PROVE  /\ value \o SubSeq(text, 1, k - 1) \in Text
         /\ value \o SubSeq(text, 1, k) = Append(value \o SubSeq(text, 1, k - 1), text[k])
<1>1. /\ SubSeq(text, 1, k - 1) \in Seq(Char) /\ text[k] \in Char
      /\ SubSeq(text, 1, k) = Append(SubSeq(text, 1, k - 1), text[k])
  BY PrefixMore DEF Text
<1>2. value \in Seq(Byte) /\ SubSeq(text, 1, k - 1) \in Seq(Byte) /\ text[k] \in Byte
  BY <1>1, Bytes DEF Text, Byte
<1>3. Append(value \o SubSeq(text, 1, k - 1), text[k]) = value \o Append(SubSeq(text, 1, k - 1), text[k])
  BY <1>2, AppendConcat
<1>4. value \o SubSeq(text, 1, k - 1) \in Text
  BY <1>1 DEF Text
<1>. QED
  BY <1>1, <1>3, <1>4

\* A text in a value, at its beginning, behind another or behind a fold.
LEMMA LeadsValue ==
  ASSUME NEW text \in Seq(ValueByte), NEW s \in Behind, NEW m, NEW u, NEW A, NEW B,
         NEW before \in Seq(Header), NEW name \in Text, NEW value \in Text,
         s = "header_lws" => text # <<>> /\ text[1] \notin Lws
  PROVE  Leads({s} \X With(m, u, A, B, before, name, value), text,
               {"header_value"} \X With(m, u, A, B, before, name, value \o text))
<1>. DEFINE R(k) == With(m, u, A, B, before, name, value \o SubSeq(text, 1, k))
            X == [k \in 0..Len(text) |-> (IF k = 0 THEN {s} ELSE {"header_value"}) \X R(k)]
<1>0. text \in Text
  BY TokenText
<1>1. Len(text) \in Nat /\ 0 \in 0..Len(text) /\ Len(text) \in 0..Len(text) /\ (text # <<>> => Len(text) # 0)
  OBVIOUS
<1>2. SubSeq(text, 1, 0) = <<>> /\ SubSeq(text, 1, Len(text)) = text
  BY PrefixEnds
<1>3. ASSUME NEW k \in 1..Len(text) PROVE Passes(X[k - 1], text[k], X[k])
  <2>1. text[k] \in ValueByte
    BY PrefixMore
  <2>2. value \o SubSeq(text, 1, k - 1) \in Text
        /\ value \o SubSeq(text, 1, k) = Append(value \o SubSeq(text, 1, k - 1), text[k])
    BY <1>0, ConcatMore
  <2>3. Passes({"header_value"} \X R(k - 1), text[k], {"header_value"} \X R(k))
    BY <2>1, <2>2, GrowsValue
  <2>4. text[k] \notin Lws => Passes({"header_lws"} \X R(k - 1), text[k], {"header_value"} \X R(k))
    BY <2>1, <2>2, GrowsValue
  <2>. HIDE DEF R
  <2>5. k \in 0..Len(text) /\ k - 1 \in 0..Len(text) /\ k # 0 /\ (k - 1 = 0 => k = 1)
    OBVIOUS
  <2>6. X[k] = {"header_value"} \X R(k)
    BY <2>5
  <2>7. X[k - 1] = {"header_value"} \X R(k - 1) \/ (X[k - 1] = {s} \X R(k - 1) /\ k = 1)
    BY <2>5
  <2>. HIDE DEF X
  <2>. QED
    BY <2>3, <2>4, <2>6, <2>7 DEF Behind
<1>4. X[0] = {s} \X R(0) /\ X[Len(text)] = (IF Len(text) = 0 THEN {s} ELSE {"header_value"}) \X R(Len(text))
  BY <1>1
<1>5. X[Len(text)] = {"header_value"} \X R(Len(text))
  BY <1>1, <1>4 DEF Behind
<1>. HIDE DEF X
<1>6. Leads(X[0], text, X[Len(text)])
  BY <1>3, LeadsAlong
<1>7. value \o <<>> = value
  BY DEF Text
<1>. QED
  BY <1>2, <1>4, <1>5, <1>6, <1>7

\* White space behind a line break: a header is there, and the fold drops it.
LEMMA PassesFold ==
  ASSUME NEW R, \A r \in R : r.headers # <<>>, NEW ch \in Lws
  PROVE  Passes({"header_line_start"} \X R, ch, {"header_lws"} \X R)
<1>1. ch # "CR" /\ ch \notin Token
  BY DEF Lws, Token, Tspecial, Ctl
<1> SUFFICES ASSUME NEW r \in R
             PROVE  /\ TakingIn("header_line_start", r, ch) # {}
                    /\ \A b \in TakingIn("header_line_start", r, ch) : \A n \in CountedIn(r, b[4], ch) :
                         <<b[3], CollectedIn(r, b[4], ch, n)>> \in {"header_lws"} \X R
  BY DEF Passes
<1>2. r.headers # <<>>
  OBVIOUS
<1>3. \A b \in Branches : ~(b[1] = "header_line_start" /\ ch \in b[2])
  BY <1>1 DEF Branches
<1>4. FoldBranch[1] = "header_line_start" /\ ch \in FoldBranch[2] /\ FoldBranch[3] = "header_lws" /\ FoldBranch[4] = "-"
  BY DEF FoldBranch
<1>5. FoldBranch \in TakingIn("header_line_start", r, ch)
  BY <1>2, <1>4 DEF TakingIn
<1>6. \A b \in TakingIn("header_line_start", r, ch) : b = FoldBranch
  BY <1>3 DEF TakingIn
<1>7. \A n : CollectedIn(r, "-", ch, n) = r
  BY DEF CollectedIn
<1>. QED
  BY <1>4, <1>5, <1>6, <1>7

\* The white space of a fold.
LEMMA LeadsLws ==
  ASSUME NEW lws \in Seq(Lws), lws # <<>>, NEW R, \A r \in R : r.headers # <<>>
  PROVE  Leads({"header_line_start"} \X R, lws, {"header_lws"} \X R)
<1>. DEFINE X == [k \in 0..Len(lws) |-> (IF k = 0 THEN {"header_line_start"} ELSE {"header_lws"}) \X R]
<1>1. Len(lws) \in Nat /\ Len(lws) # 0 /\ 0 \in 0..Len(lws) /\ Len(lws) \in 0..Len(lws)
  OBVIOUS
<1>2. ASSUME NEW k \in 1..Len(lws) PROVE Passes(X[k - 1], lws[k], X[k])
  <2>1. lws[k] \in Lws
    BY PrefixMore
  <2>2. Passes({"header_line_start"} \X R, lws[k], {"header_lws"} \X R)
    BY <2>1, PassesFold
  <2>3. Passes({"header_lws"} \X R, lws[k], {"header_lws"} \X R)
    <3>1. RowsTake({"header_lws"}, lws[k], "header_lws", "-")
      BY <2>1, ValueTaken
    <3>. QED
      BY <3>1, CollectsNone, PassesRow
  <2>4. k \in 0..Len(lws) /\ k - 1 \in 0..Len(lws) /\ k # 0
    OBVIOUS
  <2>5. X[k] = {"header_lws"} \X R
    BY <2>4
  <2>6. X[k - 1] = {"header_line_start"} \X R \/ X[k - 1] = {"header_lws"} \X R
    BY <2>4
  <2>. HIDE DEF X
  <2>. QED
    BY <2>2, <2>3, <2>5, <2>6
<1>3. X[0] = {"header_line_start"} \X R /\ X[Len(lws)] = {"header_lws"} \X R
  BY <1>1
<1>. HIDE DEF X
<1>4. Leads(X[0], lws, X[Len(lws)])
  BY <1>2, LeadsAlong
<1>. QED
  BY <1>3, <1>4

\* Inside a header there is one.
LEMMA WithHasHeaders ==
  ASSUME NEW m, NEW u, NEW A, NEW B, NEW before \in Seq(Header), NEW name \in Text, NEW value \in Text
  PROVE  \A r \in With(m, u, A, B, before, name, value) : r.headers # <<>>
<1>1. Named(name, value) \in Header
  BY DEF Named, Header
<1>2. Len(Append(before, Named(name, value))) = Len(before) + 1 /\ Len(before) \in Nat
  BY <1>1
<1>3. Append(before, Named(name, value)) # <<>>
  BY <1>2
<1>. QED
  BY <1>3 DEF With, Some

\* A line more of a value.
LEMMA LeadsFold ==
  ASSUME NEW fold \in Folded, WellFolded(fold), NEW m, NEW u, NEW A, NEW B,
         NEW before \in Seq(Header), NEW name \in Text, NEW value \in Text
  PROVE  Leads(Behind \X With(m, u, A, B, before, name, value), Continuation(fold),
               Behind \X With(m, u, A, B, before, name, value \o fold.text))
<1>. DEFINE R == With(m, u, A, B, before, name, value)
            Q == With(m, u, A, B, before, name, value \o fold.text)
<1>1. fold.lws \in Text /\ fold.text \in Text
  BY DEF Folded
<1>2. fold.lws \in Seq(Lws) /\ fold.lws # <<>> /\ fold.text \in Seq(ValueByte)
      /\ (fold.text # <<>> => fold.text[1] \notin Lws)
  BY <1>1, ElementsIn DEF WellFolded, Text
<1>3. Leads(Behind \X R, <<"CR", "LF">>, {"header_line_start"} \X R)
  BY LeadsBreak
<1>4. Leads({"header_line_start"} \X R, fold.lws, {"header_lws"} \X R)
  BY <1>2, LeadsLws, WithHasHeaders
<1>5. Leads({"header_lws"} \X R, fold.text, Behind \X Q)
  <2>1. CASE fold.text = <<>>
    <3>1. value \o <<>> = value
      BY DEF Text
    <3>2. {"header_lws"} \X R \subseteq Behind \X Q
      BY <2>1, <3>1 DEF Behind
    <3>. HIDE DEF R, Q
    <3>. QED
      BY <2>1, <3>2, LeadsNowhere
  <2>2. CASE fold.text # <<>>
    <3>1. Leads({"header_lws"} \X R, fold.text, {"header_value"} \X Q)
      BY <1>2, <2>2, LeadsValue DEF Behind
    <3>. HIDE DEF R, Q
    <3>2. {"header_value"} \X Q \subseteq Behind \X Q
      BY DEF Behind
    <3>. QED
      BY <3>1, <3>2, LeadsMore
  <2>. QED
    BY <2>1, <2>2
<1>6. <<"CR", "LF">> \in Seq(Byte) /\ fold.lws \in Seq(Byte) /\ fold.text \in Seq(Byte)
      /\ <<"CR", "LF">> \o fold.lws \in Seq(Byte)
  BY <1>1, Bytes, Marks
<1>. HIDE DEF R, Q
<1>7. Leads(Behind \X R, <<"CR", "LF">> \o fold.lws, {"header_lws"} \X R)
  BY <1>3, <1>4, <1>6, LeadsOn
<1>8. Leads(Behind \X R, (<<"CR", "LF">> \o fold.lws) \o fold.text, Behind \X Q)
  BY <1>5, <1>6, <1>7, LeadsOn
<1>. QED
  BY <1>8 DEF Continuation, R, Q

\* A fold is made of bytes.
LEMMA ContinuationType ==
  ASSUME NEW fold \in Folded
  PROVE  Continuation(fold) \in Seq(Byte)
<1>1. fold.lws \in Seq(Byte) /\ fold.text \in Seq(Byte)
  BY Bytes DEF Folded
<1>2. <<"CR", "LF">> \o fold.lws \in Seq(Byte)
  BY <1>1, Bytes, Marks
<1>. QED
  BY <1>1, <1>2, Bytes DEF Continuation

\* The texts of the folds, in one.
TextsOf(folds) == [k \in DOMAIN folds |-> folds[k].text]
\* The folds, as they are sent.
ContinuationsOf(folds) == [k \in DOMAIN folds |-> Continuation(folds[k])]

\* These are sequences of texts.
LEMMA FoldsType ==
  ASSUME NEW folds \in Seq(Folded)
  PROVE  /\ TextsOf(folds) \in Seq(Text) /\ Len(TextsOf(folds)) = Len(folds)
         /\ ContinuationsOf(folds) \in Seq(Seq(Byte)) /\ Len(ContinuationsOf(folds)) = Len(folds)
<1>1. DOMAIN folds = 1..Len(folds) /\ Len(folds) \in Nat /\ \A k \in 1..Len(folds) : folds[k] \in Folded
  OBVIOUS
<1>2. \A k \in 1..Len(folds) : folds[k].text \in Text /\ Continuation(folds[k]) \in Seq(Byte)
  BY <1>1, ContinuationType DEF Folded
<1>3. TextsOf(folds) = [k \in 1..Len(folds) |-> folds[k].text]
      /\ ContinuationsOf(folds) = [k \in 1..Len(folds) |-> Continuation(folds[k])]
  BY <1>1 DEF TextsOf, ContinuationsOf
<1>4. [k \in 1..Len(folds) |-> folds[k].text] \in Seq(Text)
  BY <1>1, <1>2, IsASeq
<1>5. [k \in 1..Len(folds) |-> Continuation(folds[k])] \in Seq(Seq(Byte))
  BY <1>1, <1>2, IsASeq
<1>. QED
  BY <1>1, <1>3, <1>4, <1>5

\* All folds of a value.
LEMMA LeadsFolds ==
  ASSUME NEW folds \in Seq(Folded), \A k \in DOMAIN folds : WellFolded(folds[k]), NEW m, NEW u, NEW A, NEW B,
         NEW before \in Seq(Header), NEW name \in Text, NEW value \in Text
  PROVE  Leads(Behind \X With(m, u, A, B, before, name, value), FlattenSeq(ContinuationsOf(folds)),
               Behind \X With(m, u, A, B, before, name, value \o FlattenSeq(TextsOf(folds))))
<1>. DEFINE n == Len(folds)
            texts == TextsOf(folds)
            lines == ContinuationsOf(folds)
            V(k) == value \o FlattenSeq(SubSeq(texts, 1, k))
            X == [k \in 0..n |-> Behind \X With(m, u, A, B, before, name, V(k))]
<1>1. n \in Nat /\ texts \in Seq(Text) /\ Len(texts) = n /\ lines \in Seq(Seq(Byte)) /\ Len(lines) = n
  BY FoldsType
<1>2. \A k \in 1..n : folds[k] \in Folded /\ WellFolded(folds[k]) /\ texts[k] = folds[k].text
                      /\ lines[k] = Continuation(folds[k])
  BY DEF TextsOf, ContinuationsOf
<1>. HIDE DEF texts, lines, n
<1>3. \A k \in 0..n : V(k) \in Text
  <2> SUFFICES ASSUME NEW k \in 0..n PROVE V(k) \in Text
    OBVIOUS
  <2>1. SubSeq(texts, 1, k) \in Seq(Text)
    BY <1>1
  <2>2. FlattenSeq(SubSeq(texts, 1, k)) \in Text
    BY <2>1, FlattenType DEF Text
  <2>. QED
    BY <2>2 DEF Text
<1>4. ASSUME NEW k \in 1..n PROVE Leads(X[k - 1], lines[k], X[k])
  <2>1. k - 1 \in 0..n /\ k \in 0..n /\ k - 1 \in Nat /\ k - 1 < n /\ (k - 1) + 1 = k
    BY <1>1
  <2>2. texts \in Seq(Seq(Char))
    BY <1>1 DEF Text
  <2>3. FlattenSeq(SubSeq(texts, 1, (k - 1) + 1)) = FlattenSeq(SubSeq(texts, 1, k - 1)) \o texts[(k - 1) + 1]
    BY <1>1, <2>1, <2>2, FlattenNext
  <2>4. FlattenSeq(SubSeq(texts, 1, k - 1)) \in Text /\ texts[k] \in Text
    <3>1. SubSeq(texts, 1, k - 1) \in Seq(Seq(Char)) /\ texts[k] \in Text
      BY <1>1, <2>1, <2>2
    <3>. QED
      BY <3>1, FlattenType DEF Text
  <2>5. V(k) = V(k - 1) \o texts[k]
    <3>1. value \in Seq(Byte) /\ FlattenSeq(SubSeq(texts, 1, k - 1)) \in Seq(Byte) /\ texts[k] \in Seq(Byte)
      BY <2>4, Bytes
    <3>2. (value \o FlattenSeq(SubSeq(texts, 1, k - 1))) \o texts[k] = value \o (FlattenSeq(SubSeq(texts, 1, k - 1)) \o texts[k])
      BY <3>1, Assoc
    <3>. QED
      BY <2>1, <2>3, <3>2
  <2>6. V(k - 1) \in Text
    BY <1>3, <2>1
  <2>7. X[k] = Behind \X With(m, u, A, B, before, name, V(k))
        /\ X[k - 1] = Behind \X With(m, u, A, B, before, name, V(k - 1))
    BY <2>1
  <2>. HIDE DEF V, X
  <2>8. Leads(Behind \X With(m, u, A, B, before, name, V(k - 1)), Continuation(folds[k]),
              Behind \X With(m, u, A, B, before, name, V(k - 1) \o folds[k].text))
    BY <1>2, <2>6, LeadsFold
  <2>. QED
    BY <1>2, <2>5, <2>7, <2>8
<1>5. SubSeq(texts, 1, 0) = <<>> /\ SubSeq(texts, 1, n) = texts /\ value \o <<>> = value
  BY <1>1, PrefixEnds DEF Text
<1>6. V(0) = value /\ V(n) = value \o FlattenSeq(texts)
  BY <1>5, FlattenEmpty
<1>7. X[0] = Behind \X With(m, u, A, B, before, name, V(0)) /\ X[n] = Behind \X With(m, u, A, B, before, name, V(n))
  BY <1>1
<1>. HIDE DEF X, V
<1>8. Leads(X[0], FlattenSeq(lines), X[n])
  BY <1>1, <1>4, LeadsThrough
<1>. QED
  BY <1>6, <1>7, <1>8 DEF texts, lines

\* The lines of a header, and what it is then.
LEMMA LaidTypes ==
  ASSUME NEW h \in LaidHeader
  PROVE  /\ h.name \in Text /\ h.first \in Text /\ h.folds \in Seq(Folded)
         /\ FieldLines(h) = h.name \o <<":", "SP">> \o h.first \o FlattenSeq(ContinuationsOf(h.folds)) \o <<"CR", "LF">>
         /\ Value(h) = h.first \o FlattenSeq(TextsOf(h.folds))
         /\ Value(h) \in Text
         /\ FlattenSeq(ContinuationsOf(h.folds)) \in Seq(Byte)
         /\ h.name \o <<":", "SP">> \in Seq(Byte)
         /\ h.name \o <<":", "SP">> \o h.first \in Seq(Byte)
         /\ h.name \o <<":", "SP">> \o h.first \o FlattenSeq(ContinuationsOf(h.folds)) \in Seq(Byte)
         /\ FieldLines(h) \in Seq(Byte)
<1>1. h.name \in Text /\ h.first \in Text /\ h.folds \in Seq(Folded)
  BY DEF LaidHeader
<1>2. FieldLines(h) = h.name \o <<":", "SP">> \o h.first \o FlattenSeq(ContinuationsOf(h.folds)) \o <<"CR", "LF">>
  BY DEF FieldLines, ContinuationsOf
<1>3. Value(h) = h.first \o FlattenSeq(TextsOf(h.folds))
  BY DEF Value, TextsOf
<1>4. FlattenSeq(ContinuationsOf(h.folds)) \in Seq(Byte) /\ FlattenSeq(TextsOf(h.folds)) \in Text
  <2>1. ContinuationsOf(h.folds) \in Seq(Seq(Byte)) /\ TextsOf(h.folds) \in Seq(Text)
    BY <1>1, FoldsType
  <2>. QED
    BY <2>1, FlattenType DEF Text
<1>5. Value(h) \in Text
  BY <1>1, <1>3, <1>4 DEF Text
<1>6. h.name \o <<":", "SP">> \in Seq(Byte)
  BY <1>1, Bytes, Marks
<1>7. h.name \o <<":", "SP">> \o h.first \in Seq(Byte)
  BY <1>1, <1>6, Bytes
<1>8. h.name \o <<":", "SP">> \o h.first \o FlattenSeq(ContinuationsOf(h.folds)) \in Seq(Byte)
  BY <1>4, <1>7, Bytes
<1>9. FieldLines(h) \in Seq(Byte)
  BY <1>2, <1>8, Bytes, Marks
<1>. QED
  BY <1>1, <1>2, <1>3, <1>4, <1>5, <1>6, <1>7, <1>8, <1>9

\* A header.
LEMMA LeadsField ==
  ASSUME NEW h \in LaidHeader, WellLaid(h), NEW m, NEW u, NEW A, NEW B, NEW before \in Seq(Header)
  PROVE  Leads({"header_line_start"} \X Some(m, u, A, B, before), FieldLines(h),
               {"header_line_start"} \X Some(m, u, A, B, Append(before, Named(h.name, Value(h)))))
<1>. DEFINE R(value) == With(m, u, A, B, before, h.name, value)
<1>1. h.name \in Text /\ h.first \in Text /\ h.folds \in Seq(Folded)
  BY LaidTypes
<1>2. h.name \in Seq(Token) /\ h.name # <<>> /\ h.first \in Seq(ValueByte)
      /\ \A k \in DOMAIN h.folds : WellFolded(h.folds[k])
  BY <1>1, ElementsIn DEF WellLaid, Text
<1>3. Leads({"header_line_start"} \X Some(m, u, A, B, before), h.name, {"header_name"} \X R(<<>>))
  BY <1>2, LeadsName
<1>4. Leads({"header_name"} \X R(<<>>), <<":", "SP">>, {"header_value"} \X R(<<>>))
  BY LeadsColon
<1>5. Leads({"header_value"} \X R(<<>>), h.first, {"header_value"} \X R(h.first))
  <2>1. <<>> \in Text /\ <<>> \o h.first = h.first
    BY <1>1 DEF Text
  <2>2. "header_value" \in Behind
    BY DEF Behind
  <2>3. Leads({"header_value"} \X R(<<>>), h.first, {"header_value"} \X R(<<>> \o h.first))
    BY <1>1, <1>2, <2>1, <2>2, LeadsValue
  <2>. QED
    BY <2>1, <2>3
<1>6. Leads(Behind \X R(h.first), FlattenSeq(ContinuationsOf(h.folds)), Behind \X R(Value(h)))
  <2>1. Leads(Behind \X R(h.first), FlattenSeq(ContinuationsOf(h.folds)), Behind \X R(h.first \o FlattenSeq(TextsOf(h.folds))))
    BY <1>1, <1>2, LeadsFolds
  <2>. QED
    BY <2>1, LaidTypes
<1>7. Leads(Behind \X R(Value(h)), <<"CR", "LF">>, {"header_line_start"} \X R(Value(h)))
  BY LeadsBreak
<1>. HIDE DEF R
<1>. DEFINE b == h.name \o <<":", "SP">>
            c == b \o h.first
            d == c \o FlattenSeq(ContinuationsOf(h.folds))
<1>8. /\ h.name \in Seq(Byte) /\ h.first \in Seq(Byte) /\ <<":", "SP">> \in Seq(Byte) /\ <<"CR", "LF">> \in Seq(Byte)
      /\ b \in Seq(Byte) /\ c \in Seq(Byte) /\ d \in Seq(Byte)
      /\ FlattenSeq(ContinuationsOf(h.folds)) \in Seq(Byte) /\ FieldLines(h) = d \o <<"CR", "LF">>
  BY <1>1, Bytes, Marks, LaidTypes
<1>9. Leads({"header_line_start"} \X Some(m, u, A, B, before), b, {"header_value"} \X R(<<>>))
  BY <1>3, <1>4, <1>8, LeadsOn
<1>10. Leads({"header_line_start"} \X Some(m, u, A, B, before), c, Behind \X R(h.first))
  <2>. HIDE DEF b
  <2>1. Leads({"header_line_start"} \X Some(m, u, A, B, before), b \o h.first, {"header_value"} \X R(h.first))
    BY <1>5, <1>8, <1>9, LeadsOn
  <2>2. {"header_value"} \X R(h.first) \subseteq Behind \X R(h.first)
    BY DEF Behind
  <2>3. Leads({"header_line_start"} \X Some(m, u, A, B, before), b \o h.first, Behind \X R(h.first))
    BY <2>1, <2>2, LeadsMore
  <2>. QED
    BY <2>3
<1>. HIDE DEF c
<1>11. Leads({"header_line_start"} \X Some(m, u, A, B, before), d, Behind \X R(Value(h)))
  BY <1>6, <1>8, <1>10, LeadsOn
<1>. HIDE DEF d
<1>12. Leads({"header_line_start"} \X Some(m, u, A, B, before), d \o <<"CR", "LF">>, {"header_line_start"} \X R(Value(h)))
  BY <1>7, <1>8, <1>11, LeadsOn
<1>. QED
  BY <1>8, <1>12 DEF R, With

\* The headers, and what they are then.
LinesOf(headers) == [k \in DOMAIN headers |-> FieldLines(headers[k])]
\* The headers that are meant.
Meant(headers) == [k \in DOMAIN headers |-> Named(headers[k].name, Value(headers[k]))]

\* These are sequences of texts, and of headers.
LEMMA HeadersTypes ==
  ASSUME NEW headers \in Seq(LaidHeader)
  PROVE  /\ LinesOf(headers) \in Seq(Seq(Byte)) /\ Len(LinesOf(headers)) = Len(headers)
         /\ Meant(headers) \in Seq(Header) /\ Len(Meant(headers)) = Len(headers)
<1>1. DOMAIN headers = 1..Len(headers) /\ Len(headers) \in Nat /\ \A k \in 1..Len(headers) : headers[k] \in LaidHeader
  OBVIOUS
<1>2. \A k \in 1..Len(headers) : Named(headers[k].name, Value(headers[k])) \in Header /\ FieldLines(headers[k]) \in Seq(Byte)
  BY <1>1, LaidTypes DEF Named, Header
<1>3. LinesOf(headers) = [k \in 1..Len(headers) |-> FieldLines(headers[k])]
      /\ Meant(headers) = [k \in 1..Len(headers) |-> Named(headers[k].name, Value(headers[k]))]
  BY <1>1 DEF LinesOf, Meant
<1>4. [k \in 1..Len(headers) |-> FieldLines(headers[k])] \in Seq(Seq(Byte))
  BY <1>1, <1>2, IsASeq
<1>5. [k \in 1..Len(headers) |-> Named(headers[k].name, Value(headers[k]))] \in Seq(Header)
  BY <1>1, <1>2, IsASeq
<1>. QED
  BY <1>1, <1>3, <1>4, <1>5

\* All headers.
LEMMA LeadsFields ==
  ASSUME NEW headers \in Seq(LaidHeader), \A k \in DOMAIN headers : WellLaid(headers[k]), NEW m, NEW u, NEW A, NEW B
  PROVE  Leads({"header_line_start"} \X Some(m, u, A, B, <<>>), FlattenSeq(LinesOf(headers)),
               {"header_line_start"} \X Some(m, u, A, B, Meant(headers)))
<1>. DEFINE n == Len(headers)
            meant == Meant(headers)
            lines == LinesOf(headers)
            X == [k \in 0..n |-> {"header_line_start"} \X Some(m, u, A, B, SubSeq(meant, 1, k))]
<1>1. n \in Nat /\ meant \in Seq(Header) /\ Len(meant) = n /\ lines \in Seq(Seq(Byte)) /\ Len(lines) = n
  BY HeadersTypes
<1>2. \A k \in 1..n : headers[k] \in LaidHeader /\ WellLaid(headers[k])
                      /\ meant[k] = Named(headers[k].name, Value(headers[k])) /\ lines[k] = FieldLines(headers[k])
  BY DEF Meant, LinesOf
<1>. HIDE DEF meant, lines, n
<1>3. ASSUME NEW k \in 1..n PROVE Leads(X[k - 1], lines[k], X[k])
  <2>1. k - 1 \in 0..n /\ k \in 0..n /\ k \in 1..Len(meant)
    BY <1>1
  <2>2. SubSeq(meant, 1, k - 1) \in Seq(Header) /\ SubSeq(meant, 1, k) = Append(SubSeq(meant, 1, k - 1), meant[k])
    BY <1>1, <2>1, PrefixMore
  <2>3. Leads({"header_line_start"} \X Some(m, u, A, B, SubSeq(meant, 1, k - 1)), FieldLines(headers[k]),
              {"header_line_start"} \X Some(m, u, A, B,
                 Append(SubSeq(meant, 1, k - 1), Named(headers[k].name, Value(headers[k])))))
    BY <1>2, <2>2, LeadsField
  <2>4. X[k] = {"header_line_start"} \X Some(m, u, A, B, SubSeq(meant, 1, k))
        /\ X[k - 1] = {"header_line_start"} \X Some(m, u, A, B, SubSeq(meant, 1, k - 1))
    BY <2>1
  <2>. HIDE DEF X
  <2>. QED
    BY <1>2, <2>2, <2>3, <2>4
<1>4. SubSeq(meant, 1, 0) = <<>> /\ SubSeq(meant, 1, n) = meant
  BY <1>1, PrefixEnds
<1>5. /\ X[0] = {"header_line_start"} \X Some(m, u, A, B, SubSeq(meant, 1, 0))
      /\ X[n] = {"header_line_start"} \X Some(m, u, A, B, SubSeq(meant, 1, n))
  BY <1>1
<1>. HIDE DEF X
<1>6. Leads(X[0], FlattenSeq(lines), X[n])
  BY <1>1, <1>3, LeadsThrough
<1>. QED
  BY <1>4, <1>5, <1>6 DEF meant, lines

\* All of a request but the last byte.
Upto(r) ==
  RequestLine(r, r.major, r.minor) \o <<"CR", "LF">> \o FlattenSeq(LinesOf(r.headers)) \o <<"CR">>

\* The requests that mean it.
Meaning(r) == Some(r.method, r.uri, Worth(r.major), Worth(r.minor), Meant(r.headers))
\* The empty request the parser begins with.
Fresh == Some(<<>>, <<>>, {0}, {0}, <<>>)

\* The parts of a request.
LEMMA LayoutTypes ==
  ASSUME NEW r \in Layout
  PROVE  /\ r.method \in Text /\ r.uri \in Text /\ r.major \in Text /\ r.minor \in Text
         /\ r.headers \in Seq(LaidHeader)
BY DEF Layout

\* The request line is made of bytes, and leads to the headers.
LEMMA LeadsLine ==
  ASSUME NEW r \in Layout, WellFormed(r)
  PROVE  /\ RequestLine(r, r.major, r.minor) \in Seq(Byte)
         /\ Leads({"method_start"} \X Fresh, RequestLine(r, r.major, r.minor),
                  {"http_version_minor"} \X Some(r.method, r.uri, Worth(r.major), Worth(r.minor), <<>>))
<1>. DEFINE m == r.method
            u == r.uri
            W == Worth(r.major)
            V == Worth(r.minor)
            S0 == {"method_start"} \X Fresh
            S1 == {"method"} \X Some(m, <<>>, {0}, {0}, <<>>)
            S2 == {"uri"} \X Some(m, <<>>, {0}, {0}, <<>>)
            S3 == {"uri"} \X Some(m, u, {0}, {0}, <<>>)
            S4 == {"http_version_major_start"} \X Some(m, u, Worth(<<>>), Worth(<<>>), <<>>)
            S5 == {"http_version_major"} \X Some(m, u, W, Worth(<<>>), <<>>)
            S6 == {"http_version_minor_start"} \X Some(m, u, W, Worth(<<>>), <<>>)
            S7 == {"http_version_minor"} \X Some(m, u, W, V, <<>>)
<1>1. /\ m \in Seq(Token) /\ m # <<>> /\ u \in Seq(UriByte)
      /\ r.major \in Seq(Digit) /\ r.major # <<>> /\ r.minor \in Seq(Digit) /\ r.minor # <<>>
  BY LayoutTypes, ElementsIn DEF WellFormed, IsNumeral, Text
<1>2. Leads(S0, m, S1)
  BY <1>1, LeadsMethod DEF Fresh
<1>3. Leads(S1, <<"SP">>, S2)
  BY LeadsSpace
<1>4. Leads(S2, u, S3)
  BY <1>1, LeadsUri
<1>5. Leads(S3, Mark, S4)
  <2>1. Leads(S3, Mark, {"http_version_major_start"} \X Some(m, u, {0}, {0}, <<>>))
    BY LeadsMark
  <2>2. {"http_version_major_start"} \X Some(m, u, {0}, {0}, <<>>) \subseteq S4
    BY WorthNone DEF Some
  <2>. HIDE DEF S3, S4
  <2>. QED
    BY <2>1, <2>2, LeadsMore
<1>6. Leads(S4, r.major, S5)
  BY <1>1, LeadsMajor
<1>7. Leads(S5, <<".">>, S6)
  BY LeadsDot
<1>8. Leads(S6, r.minor, S7)
  BY <1>1, LeadsMinor
<1>. DEFINE t1 == m \o <<"SP">>
            t2 == t1 \o u
            t3 == t2 \o Mark
            t4 == t3 \o r.major
            t5 == t4 \o <<".">>
            t6 == t5 \o r.minor
<1>9. /\ m \in Seq(Byte) /\ u \in Seq(Byte) /\ r.major \in Seq(Byte) /\ r.minor \in Seq(Byte)
      /\ <<"SP">> \in Seq(Byte) /\ <<".">> \in Seq(Byte) /\ Mark \in Seq(Byte)
  BY LayoutTypes, Bytes, Marks, MarkGrows
<1>10. /\ t1 \in Seq(Byte) /\ t2 \in Seq(Byte) /\ t3 \in Seq(Byte) /\ t4 \in Seq(Byte) /\ t5 \in Seq(Byte)
       /\ t6 \in Seq(Byte)
  <2>. DEFINE x(a, b) == a \o b
  <2>1. t1 \in Seq(Byte)
    BY <1>9, Bytes
  <2>2. t2 \in Seq(Byte)
    BY <1>9, <2>1, Bytes
  <2>3. t3 \in Seq(Byte)
    BY <1>9, <2>2, Bytes
  <2>4. t4 \in Seq(Byte)
    BY <1>9, <2>3, Bytes
  <2>5. t5 \in Seq(Byte)
    BY <1>9, <2>4, Bytes
  <2>6. t6 \in Seq(Byte)
    BY <1>9, <2>5, Bytes
  <2>. QED
    BY <2>1, <2>2, <2>3, <2>4, <2>5, <2>6
<1>11. t6 = RequestLine(r, r.major, r.minor)
  BY DEF RequestLine, Mark
<1>. HIDE DEF m, u, S0, S1, S2, S3, S4, S5, S6, S7
<1>12. Leads(S0, t1, S2)
  BY <1>2, <1>3, <1>9, LeadsOn
<1>. HIDE DEF t1
<1>13. Leads(S0, t2, S3)
  BY <1>4, <1>9, <1>10, <1>12, LeadsOn
<1>. HIDE DEF t2
<1>14. Leads(S0, t3, S4)
  BY <1>5, <1>9, <1>10, <1>13, LeadsOn
<1>. HIDE DEF t3
<1>15. Leads(S0, t4, S5)
  BY <1>6, <1>9, <1>10, <1>14, LeadsOn
<1>. HIDE DEF t4
<1>16. Leads(S0, t5, S6)
  BY <1>7, <1>9, <1>10, <1>15, LeadsOn
<1>. HIDE DEF t5
<1>17. Leads(S0, t6, S7)
  BY <1>8, <1>9, <1>10, <1>16, LeadsOn
<1>. HIDE DEF t6
<1>. QED
  BY <1>10, <1>11, <1>17 DEF S0, S7, m, u

\* All of a request but its last byte.
LEMMA LeadsUpto ==
  ASSUME NEW r \in Layout, WellFormed(r)
  PROVE  /\ Upto(r) \in Seq(Byte)
         /\ Leads({"method_start"} \X Fresh, Upto(r), {"expecting_newline_3"} \X Meaning(r))
<1>. DEFINE line == RequestLine(r, r.major, r.minor)
            fields == FlattenSeq(LinesOf(r.headers))
            t1 == line \o <<"CR", "LF">>
            t2 == t1 \o fields
            Q == Some(r.method, r.uri, Worth(r.major), Worth(r.minor), <<>>)
            S0 == {"method_start"} \X Fresh
            S1 == {"http_version_minor"} \X Q
            S2 == {"header_line_start"} \X Q
            S3 == {"header_line_start"} \X Meaning(r)
            S4 == {"expecting_newline_3"} \X Meaning(r)
<1>1. line \in Seq(Byte) /\ Leads(S0, line, S1)
  BY LeadsLine
<1>2. Leads(S1, <<"CR", "LF">>, S2)
  BY LeadsLineEnd
<1>3. Leads(S2, fields, S3)
  <2>1. r.headers \in Seq(LaidHeader) /\ \A k \in DOMAIN r.headers : WellLaid(r.headers[k])
    BY LayoutTypes DEF WellFormed
  <2>. QED
    BY <2>1, LeadsFields DEF Meaning
<1>4. Leads(S3, <<"CR">>, S4)
  <2>1. Passes(S3, "CR", S4)
    BY VersionTaken, CollectsNone, PassesRow
  <2>. QED
    BY <2>1, LeadsByte
<1>5. fields \in Seq(Byte)
  BY LayoutTypes, HeadersTypes, FlattenType
<1>6. t1 \in Seq(Byte) /\ t2 \in Seq(Byte) /\ <<"CR", "LF">> \in Seq(Byte) /\ <<"CR">> \in Seq(Byte)
  <2>1. <<"CR", "LF">> \in Seq(Byte) /\ <<"CR">> \in Seq(Byte)
    BY Marks
  <2>2. t1 \in Seq(Byte)
    BY <1>1, <2>1, Bytes
  <2>3. t2 \in Seq(Byte)
    BY <1>5, <2>2, Bytes
  <2>. QED
    BY <2>1, <2>2, <2>3
<1>7. t2 \o <<"CR">> = Upto(r)
  BY DEF Upto
<1>8. t2 \o <<"CR">> \in Seq(Byte)
  BY <1>6, Bytes
<1>. HIDE DEF line, fields, S0, S1, S2, S3, S4
<1>9. Leads(S0, t1, S2)
  BY <1>1, <1>2, <1>6, LeadsOn
<1>. HIDE DEF t1
<1>10. Leads(S0, t2, S3)
  BY <1>3, <1>5, <1>6, <1>9, LeadsOn
<1>. HIDE DEF t2
<1>11. Leads(S0, t2 \o <<"CR">>, S4)
  BY <1>4, <1>6, <1>10, LeadsOn
<1>. QED
  BY <1>7, <1>8, <1>11 DEF S0, S4

\* The last byte.
LEMMA LaidIs ==
  ASSUME NEW r \in Layout, WellFormed(r)
  PROVE  Laid(r) = Append(Upto(r), "LF")
<1>. DEFINE line == RequestLine(r, r.major, r.minor)
            fields == FlattenSeq(LinesOf(r.headers))
            t == line \o <<"CR", "LF">> \o fields
<1>1. t \in Seq(Byte)
  <2>1. line \in Seq(Byte) /\ fields \in Seq(Byte)
    BY LeadsLine, LayoutTypes, HeadersTypes, FlattenType
  <2>2. line \o <<"CR", "LF">> \in Seq(Byte)
    BY <2>1, Marks, Bytes
  <2>. QED
    BY <2>1, <2>2, Bytes
<1>2. Laid(r) = t \o <<"CR", "LF">> /\ Upto(r) = t \o <<"CR">>
  BY DEF Laid, Upto, LinesOf
<1>. HIDE DEF t
<1>3. "LF" \in Byte /\ <<"CR">> \in Seq(Byte) /\ Append(<<"CR">>, "LF") = <<"CR", "LF">>
  BY Marks DEF Byte
<1>4. Append(t \o <<"CR">>, "LF") = t \o Append(<<"CR">>, "LF")
  BY <1>1, <1>3, AppendConcat
<1>. QED
  BY <1>2, <1>3, <1>4

\* What is meant.
LEMMA MeaningMeans ==
  ASSUME NEW r \in Layout, NEW q \in Meaning(r)
  PROVE  Means(r, q)
<1>1. Meant(r.headers) = [k \in DOMAIN r.headers |-> [name |-> r.headers[k].name, value |-> Value(r.headers[k])]]
  BY DEF Meant, Named
<1>2. q.method = r.method /\ q.uri = r.uri /\ q.major \in Worth(r.major) /\ q.minor \in Worth(r.minor)
      /\ q.headers = Meant(r.headers)
  BY DEF Meaning, Some
<1>. QED
  BY <1>1, <1>2 DEF Means, Worth

Beginning == {"method_start"} \X Fresh
End(r) == {"expecting_newline_3"} \X Meaning(r)

\* The states on the way through the text, and where it ends.
Route(p, text, E) == Along(p, text) /\ Beginning \subseteq p[0] /\ p[Len(text)] \subseteq E

\* There the byte is the last one the parser looks at, and this is what it returns.
Decides(E, byte, verdict) ==
  \A c \in E : /\ TakingIn(c[1], c[2], byte) = {}
              /\ verdict = IF c[1] = "expecting_newline_3" /\ byte = "LF" THEN "good" ELSE "bad"

\* As long as the bytes so far begin the text and that byte, the parser is on the way.
OnRoute(p, text, byte, verdict) ==
  IsPrefix(consumed, Append(text, byte)) =>
    \/ result = "indeterminate" /\ Len(consumed) <= Len(text) /\ <<state, request>> \in p[Len(consumed)]
    \/ result = verdict /\ consumed = Append(text, byte) /\ <<state, request>> \in p[Len(text)]

\* The text, when the parser gets it, leads to E, and the byte to the verdict.
Followed(text, E, byte, verdict) == \E p : Route(p, text, E) /\ OnRoute(p, text, byte, verdict)

\* So the request r is understood, if it is well-formed.
Understood(r) == WellFormed(r) => Followed(Upto(r), End(r), "LF", "good")

\* A text that is continued begins the same texts.
LEMMA PrefixBefore ==
  ASSUME NEW S, NEW s \in Seq(S), NEW ch, NEW t \in Seq(S), ch \in S, IsPrefix(Append(s, ch), t)
  PROVE  IsPrefix(s, t) /\ Len(s) < Len(t) /\ ch = t[Len(s) + 1]
<1>. DEFINE more == Append(s, ch)
            n == Len(s)
<1>1. n \in Nat /\ Len(more) = n + 1 /\ more \in Seq(S) /\ more[n + 1] = ch /\ \A k \in 1..n : more[k] = s[k]
  OBVIOUS
<1>2. n + 1 <= Len(t) /\ SubSeq(more, 1, n + 1) = SubSeq(t, 1, n + 1)
  BY <1>1 DEF IsPrefix
<1>. HIDE DEF more
<1>3. \A k \in 1..(n + 1) : SubSeq(more, 1, n + 1)[k] = more[k] /\ SubSeq(t, 1, n + 1)[k] = t[k]
  BY <1>1, <1>2
<1>4. \A k \in 1..n : s[k] = t[k]
  <2> SUFFICES ASSUME NEW k \in 1..n PROVE s[k] = t[k]
    OBVIOUS
  <2>1. k \in 1..(n + 1)
    BY <1>1
  <2>. QED
    BY <1>1, <1>2, <1>3, <2>1
<1>5. ch = t[n + 1]
  <2>1. n + 1 \in 1..(n + 1)
    BY <1>1
  <2>. QED
    BY <1>1, <1>2, <1>3, <2>1
<1>6. SubSeq(s, 1, n) = s /\ s = [k \in 1..n |-> s[k]]
  OBVIOUS
<1>7. SubSeq(t, 1, n) = [k \in 1..n |-> t[k]]
  BY <1>1, <1>2
<1>8. SubSeq(s, 1, n) = SubSeq(t, 1, n)
  BY <1>4, <1>6, <1>7
<1>. QED
  BY <1>1, <1>2, <1>5, <1>8 DEF IsPrefix

\* A text as long as the one it begins is that one.
LEMMA PrefixAll ==
  ASSUME NEW S, NEW s \in Seq(S), NEW t \in Seq(S), IsPrefix(s, t), Len(s) >= Len(t)
  PROVE  s = t
<1>1. Len(s) = Len(t) /\ SubSeq(s, 1, Len(s)) = SubSeq(t, 1, Len(s))
  BY DEF IsPrefix
<1>. QED
  BY <1>1, PrefixWhole

\* That is so for some texts: each byte is taken, and the last one decides.
Settles(text, E, byte, verdict) ==
  text \in Seq(Byte) /\ byte \in Byte /\ Leads(Beginning, text, E) /\ Decides(E, byte, verdict)

\* What comes of it, as long as the bytes begin the text: no verdict, and then that one.
Settled(text, E, byte, verdict) ==
  IsPrefix(consumed, Append(text, byte)) =>
    IF consumed = Append(text, byte) THEN result = verdict /\ <<state, request>> \in E
    ELSE result = "indeterminate"

\* Nothing begins everything.
LEMMA RouteStarts ==
  ASSUME ParserInit, NEW text, NEW E, NEW byte, NEW verdict, Settles(text, E, byte, verdict)
  PROVE  Followed(text, E, byte, verdict)
<1>0. text \in Seq(Byte)
  BY DEF Settles
<1>1. PICK p : Route(p, text, E)
  BY DEF Settles, Leads, Route
<1>2. request \in Fresh /\ state = "method_start" /\ result = "indeterminate" /\ consumed = <<>>
  BY DEF ParserInit, Fresh, Some
<1>3. Len(consumed) = 0 /\ 0 <= Len(text)
  BY <1>0, <1>2
<1>4. <<state, request>> \in p[0]
  BY <1>1, <1>2 DEF Route, Beginning
<1>5. OnRoute(p, text, byte, verdict)
  BY <1>2, <1>3, <1>4 DEF OnRoute
<1>. QED
  BY <1>1, <1>5 DEF Followed

\* No row leads on from the end.
LEMMA NoRowAtTheEnd ==
  ASSUME NEW r, NEW ch
  PROVE  TakingIn("expecting_newline_3", r, ch) = {}
BY DEF TakingIn, Branches, FoldBranch

\* A byte: on the way, or the last one.
LEMMA RouteStep ==
  ASSUME NEW text \in Seq(Byte), NEW byte \in Byte, NEW verdict, NEW p, NEW E, Route(p, text, E),
         Decides(E, byte, verdict), OnRoute(p, text, byte, verdict), ParserTypeOK, NEW ch \in Char, Consume(ch)
  PROVE  OnRoute(p, text, byte, verdict)'
<1>. DEFINE n == Len(consumed)
            whole == Append(text, byte)
<1> SUFFICES ASSUME IsPrefix(consumed', whole)
             PROVE  \/ result' = "indeterminate" /\ Len(consumed') <= Len(text) /\ <<state', request'>> \in p[Len(consumed')]
                    \/ result' = verdict /\ consumed' = whole /\ <<state', request'>> \in p[Len(text)]
  BY DEF OnRoute
<1>1. /\ result = "indeterminate" /\ consumed' = Append(consumed, ch)
      /\ Advance(ch) \/ Finish(ch) \/ Reject(ch)
  BY DEF Consume
<1>2. /\ consumed \in Seq(Byte) /\ ch \in Byte /\ whole \in Seq(Byte) /\ n \in Nat /\ Len(consumed') = n + 1
      /\ Len(whole) = Len(text) + 1 /\ Len(text) \in Nat /\ whole[Len(text) + 1] = byte
      /\ \A k \in 1..Len(text) : whole[k] = text[k]
  <2>1. consumed \in Seq(Byte) /\ ch \in Byte
    BY Bytes DEF ParserTypeOK, Byte
  <2>. QED
    BY <1>1, <2>1
<1>. HIDE DEF whole
<1>3. IsPrefix(consumed, whole) /\ n < Len(whole) /\ ch = whole[n + 1]
  BY <1>1, <1>2, PrefixBefore
<1>. HIDE DEF n
<1>4. consumed # whole
  BY <1>3 DEF n
<1>5. n <= Len(text) /\ <<state, request>> \in p[n]
  BY <1>1, <1>3, <1>4 DEF OnRoute, whole, n
<1>6. CASE n < Len(text)
  <2>1. n + 1 \in 1..Len(text) /\ (n + 1) - 1 = n /\ n + 1 <= Len(text)
    BY <1>2, <1>6
  <2>2. Passes(p[n], ch, p[n + 1])
    BY <1>2, <1>3, <2>1 DEF Route, Along
  <2>3. /\ TakingIn(state, request, ch) # {}
        /\ \A b \in TakingIn(state, request, ch) : \A k \in CountedIn(request, b[4], ch) :
             <<b[3], CollectedIn(request, b[4], ch, k)>> \in p[n + 1]
    BY <1>5, <2>2 DEF Passes
  <2>4. Taking(ch) # {} /\ Taking(ch) = TakingIn(state, request, ch)
    BY <2>3, InState
  <2>5. ~Completes(ch)
    BY <2>3, NoRowAtTheEnd DEF Completes
  <2>6. Advance(ch)
    BY <1>1, <2>4, <2>5 DEF Finish, Reject
  <2>7. PICK b \in Taking(ch) : state' = b[3] /\ UNCHANGED result
                                /\ \E k \in Counted(b[4], ch) : request' = Collected(b[4], ch, k)
    BY <2>6 DEF Advance
  <2>8. PICK k \in Counted(b[4], ch) : request' = Collected(b[4], ch, k)
    BY <2>7
  <2>9. Counted(b[4], ch) = CountedIn(request, b[4], ch) /\ Collected(b[4], ch, k) = CollectedIn(request, b[4], ch, k)
    BY InState
  <2>10. <<state', request'>> \in p[n + 1]
    BY <2>3, <2>4, <2>7, <2>8, <2>9
  <2>. QED
    BY <1>1, <1>2, <2>1, <2>7, <2>10
<1>7. CASE n = Len(text)
  <2>1. <<state, request>> \in E /\ ch = byte
    BY <1>2, <1>3, <1>5, <1>7 DEF Route
  <2>2. Taking(ch) = {} /\ verdict = IF Completes(ch) THEN "good" ELSE "bad"
    BY <2>1, InState DEF Decides, Completes
  <2>3. Finish(ch) \/ Reject(ch)
    BY <1>1, <2>2 DEF Advance
  <2>4. result' = verdict /\ state' = state /\ request' = request
    BY <2>2, <2>3 DEF Finish, Reject
  <2>5. consumed' = whole
    <3>1. consumed' \in Seq(Byte)
      BY <1>1, <1>2
    <3>2. Len(consumed') >= Len(whole)
      BY <1>2, <1>7
    <3>. QED
      BY <1>2, <3>1, <3>2, PrefixAll
  <2>. QED
    BY <1>5, <1>7, <2>4, <2>5
<1>. QED
  BY <1>2, <1>5, <1>6, <1>7

\* A step of the parser stays on the way.
LEMMA FollowedStep ==
  ASSUME ParserTypeOK, [ParserNext]_pvars, NEW text, NEW E, NEW byte, NEW verdict,
         Settles(text, E, byte, verdict), Followed(text, E, byte, verdict)
  PROVE  Followed(text, E, byte, verdict)'
<1>0. text \in Seq(Byte) /\ byte \in Byte /\ Decides(E, byte, verdict)
  BY DEF Settles
<1>1. PICK p : Route(p, text, E) /\ OnRoute(p, text, byte, verdict)
  BY DEF Followed
<1>2. CASE UNCHANGED pvars
  <2>1. OnRoute(p, text, byte, verdict)'
    BY <1>1, <1>2 DEF OnRoute, pvars
  <2>. QED
    BY <1>1, <2>1 DEF Followed
<1>3. ASSUME NEW ch \in Char, Consume(ch) PROVE Followed(text, E, byte, verdict)'
  <2>1. OnRoute(p, text, byte, verdict)'
    BY <1>0, <1>1, <1>3, RouteStep
  <2>. QED
    BY <1>1, <2>1 DEF Followed
<1>. QED
  BY <1>2, <1>3 DEF ParserNext

\* On the way there is no verdict, and at its end there is.
LEMMA FollowedNow ==
  ASSUME NEW text, NEW E, NEW byte, NEW verdict, Settles(text, E, byte, verdict), Followed(text, E, byte, verdict)
  PROVE  Settled(text, E, byte, verdict)
<1>1. PICK p : Route(p, text, E) /\ OnRoute(p, text, byte, verdict)
  BY DEF Followed
<1>2. Len(Append(text, byte)) = Len(text) + 1 /\ Len(text) \in Nat
  BY DEF Settles
<1>3. CASE IsPrefix(consumed, Append(text, byte)) /\ consumed = Append(text, byte)
  <2>1. ~(Len(consumed) <= Len(text))
    BY <1>2, <1>3
  <2>2. result = verdict /\ <<state, request>> \in p[Len(text)]
    BY <1>1, <1>3, <2>1 DEF OnRoute
  <2>. QED
    BY <1>1, <1>3, <2>2 DEF Route, Settled
<1>4. CASE IsPrefix(consumed, Append(text, byte)) /\ consumed # Append(text, byte)
  BY <1>1, <1>4 DEF OnRoute, Settled
<1>. QED
  BY <1>3, <1>4 DEF Settled

\* The end of a request is the end.
LEMMA EndDecides ==
  ASSUME NEW r
  PROVE  Decides(End(r), "LF", "good")
<1> SUFFICES ASSUME NEW c \in End(r)
             PROVE  TakingIn(c[1], c[2], "LF") = {} /\ c[1] = "expecting_newline_3"
  BY DEF Decides
<1>1. c[1] = "expecting_newline_3"
  BY DEF End
<1>. QED
  BY <1>1, NoRowAtTheEnd

\* So a well-formed request settles it, and well.
LEMMA WellFormedSettles ==
  ASSUME NEW r \in Layout, WellFormed(r)
  PROVE  Settles(Upto(r), End(r), "LF", "good")
<1>1. Upto(r) \in Seq(Byte) /\ Leads(Beginning, Upto(r), End(r)) /\ "LF" \in Byte
  BY LeadsUpto DEF Beginning, End, Byte
<1>. QED
  BY <1>1, EndDecides DEF Settles

\* So every request is understood, before the first byte and after each one.
LEMMA UnderstoodInit ==
  ASSUME ParserInit, NEW r \in Layout
  PROVE  Understood(r)
BY WellFormedSettles, RouteStarts DEF Understood

\* A step of the parser keeps every request understood.
LEMMA UnderstoodStep ==
  ASSUME ParserTypeOK, NEW r \in Layout, Understood(r), [ParserNext]_pvars
  PROVE  Understood(r)'
BY WellFormedSettles, FollowedStep DEF Understood

\* Understanding a request is accepting it.
LEMMA UnderstoodAccepts ==
  ASSUME NEW r \in Layout, WellFormed(r), Understood(r)
  PROVE  Accepts(r)
<1>1. Laid(r) = Append(Upto(r), "LF")
  BY LaidIs
<1>2. Settled(Upto(r), End(r), "LF", "good")
  BY WellFormedSettles, FollowedNow DEF Understood
<1>3. ASSUME <<state, request>> \in End(r) PROVE Means(r, request)
  BY <1>3, MeaningMeans DEF End
<1>. QED
  BY <1>1, <1>2, <1>3 DEF Settled, Accepts

\* No request clients write as RFC 1945 says is refused, none is taken for one before
\* its last byte, and what is handed over then is what was written.
THEOREM WellFormedIsAccepted == ParserSpec => [](\A r \in Layout : WellFormed(r) => Accepts(r))
<1>. DEFINE IInv == \A r \in Layout : Understood(r)
            Inv == \A r \in Layout : WellFormed(r) => Accepts(r)
<1>1. ParserInit => IInv
  BY UnderstoodInit
<1>2. ParserTypeOK /\ IInv /\ [ParserNext]_pvars => IInv'
  BY UnderstoodStep
<1>3. IInv => Inv
  BY UnderstoodAccepts
<1>. QED
  BY <1>1, <1>2, <1>3, ParserTypeCorrect, PTL DEF ParserSpec

-----------------------------------------------------------------------------
\* A request up to the end of its uri.
UriLine(r) == r.method \o <<"SP">> \o r.uri

\* It leads to the end of the uri.
LEMMA LeadsUriLine ==
  ASSUME NEW r \in Layout, WellFormed(r)
  PROVE  /\ UriLine(r) \in Seq(Byte)
         /\ Leads(Beginning, UriLine(r), {"uri"} \X Some(r.method, r.uri, {0}, {0}, <<>>))
<1>. DEFINE m == r.method
            u == r.uri
            S1 == {"method"} \X Some(m, <<>>, {0}, {0}, <<>>)
            S2 == {"uri"} \X Some(m, <<>>, {0}, {0}, <<>>)
            S3 == {"uri"} \X Some(m, u, {0}, {0}, <<>>)
            t == m \o <<"SP">>
<1>1. m \in Seq(Token) /\ m # <<>> /\ u \in Seq(UriByte)
  BY LayoutTypes, ElementsIn DEF WellFormed, Text
<1>2. Leads(Beginning, m, S1)
  BY <1>1, LeadsMethod DEF Fresh, Beginning
<1>3. Leads(S1, <<"SP">>, S2)
  BY LeadsSpace
<1>4. Leads(S2, u, S3)
  BY <1>1, LeadsUri
<1>5. m \in Seq(Byte) /\ u \in Seq(Byte) /\ <<"SP">> \in Seq(Byte)
  BY LayoutTypes, Bytes, Marks
<1>6. t \in Seq(Byte)
  BY <1>5, Bytes
<1>7. t \o u \in Seq(Byte)
  BY <1>5, <1>6, Bytes
<1>. HIDE DEF m, u, S1, S2, S3
<1>8. Leads(Beginning, t, S2)
  BY <1>2, <1>3, <1>5, LeadsOn
<1>. HIDE DEF t
<1>9. Leads(Beginning, t \o u, S3)
  BY <1>4, <1>5, <1>6, <1>8, LeadsOn
<1>. QED
  BY <1>7, <1>9 DEF UriLine, S3, t, m, u

\* The end of the line in place of the version.
LEMMA SimpleIsRefused ==
  ASSUME NEW r \in Layout, WellFormed(r)
  PROVE  \E E : Settles(UriLine(r), E, "CR", "bad")
<1>1. "CR" \notin UriByte
  BY DEF UriByte, Ctl
<1>2. \A q : TakingIn("uri", q, "CR") = {}
  BY <1>1 DEF TakingIn, Branches, FoldBranch
<1>3. Decides({"uri"} \X Some(r.method, r.uri, {0}, {0}, <<>>), "CR", "bad")
  BY <1>2 DEF Decides
<1>4. "CR" \in Byte
  BY DEF Byte
<1>. QED
  BY <1>3, <1>4, LeadsUriLine DEF Settles

\* Three bytes, one after the other.
LEMMA TripleAppend ==
  ASSUME NEW a \in Byte, NEW b \in Byte, NEW c \in Byte
  PROVE  Append(<<a, b>>, c) = <<a, b, c>>
<1>. DEFINE x == Append(<<a, b>>, c)
            y == <<a, b, c>>
<1>1. /\ x \in Seq(Byte) /\ Len(x) = 3 /\ x[1] = a /\ x[2] = b /\ x[3] = c
      /\ y \in Seq(Byte) /\ Len(y) = 3 /\ y[1] = a /\ y[2] = b /\ y[3] = c
  OBVIOUS
<1>. HIDE DEF x, y
<1>2. \A k \in 1..3 : x[k] = y[k]
  <2>1. \A k \in 1..3 : k = 1 \/ k = 2 \/ k = 3
    OBVIOUS
  <2>. QED
    BY <1>1, <2>1
<1>3. x = y
  BY <1>1, <1>2, SeqEqual
<1>. QED
  BY <1>3 DEF x, y

\* A version of another protocol.
LEMMA GarbledIsRefused ==
  ASSUME NEW r \in Layout, WellFormed(r)
  PROVE  \E E : Settles(UriLine(r) \o <<"SP", "H", "T">>, E, "P", "bad")
<1>. DEFINE R == Some(r.method, r.uri, {0}, {0}, <<>>)
            S1 == {"uri"} \X R
            S2 == {"http_version_h"} \X R
            S3 == {"http_version_t_1"} \X R
            S4 == {"http_version_t_2"} \X R
<1>1. /\ RowsTake({"http_version_h"}, "H", "http_version_t_1", "-")
      /\ RowsTake({"http_version_t_1"}, "T", "http_version_t_2", "-")
  BY DEF RowsTake, Branches, FoldBranch
<1>2. Passes(S1, "SP", S2) /\ Passes(S2, "H", S3) /\ Passes(S3, "T", S4)
  BY <1>1, UriEnds, CollectsNone, PassesRow
<1>3. \A q : TakingIn("http_version_t_2", q, "P") = {}
  BY DEF TakingIn, Branches, FoldBranch
<1>4. Decides(S4, "P", "bad")
  BY <1>3 DEF Decides
<1>5. UriLine(r) \in Seq(Byte) /\ Leads(Beginning, UriLine(r), S1)
  BY LeadsUriLine
<1>. HIDE DEF S1, S2, S3, S4
<1>6. "SP" \in Byte /\ "H" \in Byte /\ "T" \in Byte /\ "P" \in Byte
  BY DEF Byte
<1>7. Leads(S1, <<"SP", "H">>, S3) /\ Leads(S3, <<"T">>, S4)
  BY <1>2, <1>6, LeadsPair, LeadsByte
<1>8. <<"SP", "H">> \in Seq(Byte) /\ <<"T">> \in Seq(Byte) /\ <<"SP", "H">> \o <<"T">> = <<"SP", "H", "T">>
  <2>1. <<"SP", "H">> \in Seq(Byte) /\ <<"T">> \in Seq(Byte)
    BY <1>6, Pair, Single
  <2>2. Append(<<"SP", "H">>, "T") = <<"SP", "H", "T">>
    BY <1>6, TripleAppend
  <2>3. Append(<<"SP", "H">>, "T") = <<"SP", "H">> \o <<"T">>
    BY <1>6, <2>1, AppendSingle
  <2>. QED
    BY <2>1, <2>2, <2>3
<1>9. Leads(S1, <<"SP", "H", "T">>, S4)
  <2>1. Leads(S1, <<"SP", "H">> \o <<"T">>, S4)
    BY <1>7, <1>8, LeadsOn
  <2>. QED
    BY <1>8, <2>1
<1>10. <<"SP", "H", "T">> \in Seq(Byte)
  BY <1>6
<1>11. Leads(Beginning, UriLine(r) \o <<"SP", "H", "T">>, S4)
  BY <1>5, <1>9, <1>10, LeadsOn
<1>12. UriLine(r) \o <<"SP", "H", "T">> \in Seq(Byte)
  BY <1>5, <1>10, Bytes
<1>. QED
  BY <1>4, <1>6, <1>11, <1>12 DEF Settles

=============================================================================
