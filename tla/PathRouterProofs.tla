--------------------------- MODULE PathRouterProofs ---------------------------
(***************************************************************************)
(* What path_router guarantees for any locations added in any order: the   *)
(* resources of a method are kept sorted, the one that serves has the      *)
(* longest location that matches, and what it is given is what the uri     *)
(* says.                                                                   *)
(***************************************************************************)
EXTENDS PathRouter, SequenceLemmas

\* The characters of a uri that has been decoded.
Text == STRING \cup {Ascii[code] : code \in 0..255} \cup {"SP"}

-----------------------------------------------------------------------------
(***************************************************************************)
(* url_decode.                                                             *)
(***************************************************************************)
LEMMA HexCharacters ==
  ASSUME NEW high \in HexDigit, NEW low \in HexDigit
  PROVE  HexValue(high) \in 0..15 /\ Escaped(high, low) \in Text
<1>1. \A digit \in HexDigit : HexValue(digit) \in 0..15
  <2> SUFFICES ASSUME NEW digit \in HexDigit PROVE HexValue(digit) \in 0..15
    OBVIOUS
  <2>1. \E i \in 1..16 : Hexadecimal[i] = digit
    BY DEF HexDigit
  <2>. QED
    BY <2>1 DEF HexValue
<1>2. 16 * HexValue(high) + HexValue(low) \in 0..255
  BY <1>1
<1>. QED
  BY <1>1, <1>2 DEF Escaped, Text

\* What the loop adds at i, and where it goes on.
LEMMA UnitType ==
  ASSUME NEW in \in Seq(STRING), NEW i \in 1..Len(in), NEW u \in Unit(in, i)
  PROVE  u[1] \in Text /\ u[2] \in (i + 1)..(Len(in) + 1)
<1>1. in[i] \in Text
  <2>1. in[i] \in STRING
    BY ElementOfSeq
  <2>. QED
    BY <2>1 DEF Text
<1>2. CASE in[i] = "%"
  <2>1. EscapeAt(in, i) /\ u = <<Escaped(in[i + 1], in[i + 2]), i + 3>>
    BY <1>2 DEF Unit
  <2>2. i + 2 <= Len(in) /\ in[i + 1] \in HexDigit /\ in[i + 2] \in HexDigit
    BY <2>1 DEF EscapeAt
  <2>3. Escaped(in[i + 1], in[i + 2]) \in Text
    BY <2>2, HexCharacters
  <2>. QED
    BY <2>1, <2>2, <2>3
<1>3. CASE in[i] = "+"
  <2>1. u = <<"SP", i + 1>>
    BY <1>3 DEF Unit
  <2>. QED
    BY <2>1 DEF Text
<1>4. CASE in[i] \notin {"%", "+"}
  <2>1. u = <<in[i], i + 1>>
    BY <1>4 DEF Unit
  <2>. QED
    BY <1>1, <2>1
<1>. QED
  BY <1>2, <1>3, <1>4

\* The loop from i on, when from is what it is from each later place on.
DecodesFrom(in, from, i) ==
  IF i > Len(in) THEN {<<>>}
  ELSE UNION {{<<u[1]>> \o out : out \in from[u[2]]} : u \in Unit(in, i)}

\* text is a unit at i, and what from has after it.
UnitAndRest(text, in, from, i) == \E u \in Unit(in, i) : \E out \in from[u[2]] : text = <<u[1]>> \o out

LEMMA DecodesFromIs ==
  ASSUME NEW in \in Seq(STRING), NEW i \in 1..Len(in), NEW from, NEW text
  PROVE  text \in DecodesFrom(in, from, i) <=> UnitAndRest(text, in, from, i)
<1>. DEFINE part(u) == {<<u[1]>> \o out : out \in from[u[2]]}
<1>1. ~(i > Len(in))
  OBVIOUS
<1>2. DecodesFrom(in, from, i) = UNION {part(u) : u \in Unit(in, i)}
  BY <1>1 DEF DecodesFrom
<1>3. \A u : text \in part(u) <=> \E out \in from[u[2]] : text = <<u[1]>> \o out
  OBVIOUS
<1>. HIDE DEF part
<1>4. text \in UNION {part(u) : u \in Unit(in, i)} <=> \E u \in Unit(in, i) : text \in part(u)
  OBVIOUS
<1>. QED
  BY <1>2, <1>3, <1>4, Zenon DEF UnitAndRest

LEMMA DecodesFromType ==
  ASSUME NEW in \in Seq(STRING), NEW i \in 1..(Len(in) + 1), NEW from,
         \A j \in (i + 1)..(Len(in) + 1) : from[j] \in SUBSET Seq(Text)
  PROVE  DecodesFrom(in, from, i) \in SUBSET Seq(Text)
<1>1. CASE i > Len(in)
  BY <1>1 DEF DecodesFrom
<1>2. CASE ~(i > Len(in))
  <2>1. i \in 1..Len(in)
    BY <1>2
  <2>2. ASSUME NEW u \in Unit(in, i), NEW out \in from[u[2]] PROVE <<u[1]>> \o out \in Seq(Text)
    <3>1. u[1] \in Text /\ u[2] \in (i + 1)..(Len(in) + 1)
      BY <2>1, UnitType
    <3>2. out \in Seq(Text) /\ <<u[1]>> \in Seq(Text)
      BY <3>1
    <3>. QED
      BY <3>2, ConcatProperties
  <2>3. ASSUME NEW text \in DecodesFrom(in, from, i) PROVE text \in Seq(Text)
    <3>1. UnitAndRest(text, in, from, i)
      BY <2>1, DecodesFromIs
    <3>. QED
      BY <2>2, <3>1 DEF UnitAndRest
  <2>. QED
    BY <2>3
<1>. QED
  BY <1>1, <1>2

LEMMA DecodesFromLater ==
  ASSUME NEW in \in Seq(STRING), NEW i \in 1..(Len(in) + 1), NEW f, NEW g,
         \A j \in (i + 1)..(Len(in) + 1) : f[j] = g[j]
  PROVE  DecodesFrom(in, f, i) = DecodesFrom(in, g, i)
<1>1. CASE ~(i > Len(in))
  <2>1. i \in 1..Len(in)
    BY <1>1
  <2>2. \A u \in Unit(in, i) : f[u[2]] = g[u[2]]
    BY <2>1, UnitType
  <2>3. ASSUME NEW text PROVE text \in DecodesFrom(in, f, i) <=> text \in DecodesFrom(in, g, i)
    <3>1. /\ text \in DecodesFrom(in, f, i) <=> UnitAndRest(text, in, f, i)
          /\ text \in DecodesFrom(in, g, i) <=> UnitAndRest(text, in, g, i)
      BY <2>1, DecodesFromIs
    <3>. QED
      BY <2>2, <3>1, Zenon DEF UnitAndRest
  <2>. QED
    BY <2>3
<1>2. CASE i > Len(in)
  BY <1>2 DEF DecodesFrom
<1>. QED
  BY <1>1, <1>2

\* What url_decode goes through.
Decodes(from, in) ==
  /\ from \in [1..(Len(in) + 1) -> SUBSET Seq(Text)]
  /\ \A i \in 1..(Len(in) + 1) : from[i] = DecodesFrom(in, from, i)

LEMMA DecodesExists ==
  ASSUME NEW in \in Seq(STRING)
  PROVE  \E from : Decodes(from, in)
<1>. DEFINE N == Len(in) + 1
            D == 1..N
            V == SUBSET Seq(Text)
            measure == [i \in D |-> N - i]
            Step == [x \in [D -> V] \X D |-> DecodesFrom(in, x[1], x[2])]
<1>0. N \in Nat /\ measure \in [D -> 0..N] /\ {} \in V
  OBVIOUS
<1>1. \A f \in [D -> V], i \in D : DecodesFrom(in, f, i) \in V
  <2> SUFFICES ASSUME NEW f \in [D -> V], NEW i \in D PROVE DecodesFrom(in, f, i) \in V
    OBVIOUS
  <2>1. \A j \in (i + 1)..N : j \in D
    OBVIOUS
  <2>2. \A j \in (i + 1)..N : f[j] \in V
    BY <2>1
  <2>. QED
    BY <2>2, DecodesFromType
<1>2. /\ Step \in [[D -> V] \X D -> V]
      /\ \A f \in [D -> V], i \in D : Step[<<f, i>>] = DecodesFrom(in, f, i)
  <2>. HIDE DEF D, V
  <2>. QED
    BY <1>1
<1>3. ASSUME NEW f \in [D -> V], NEW g \in [D -> V], NEW i \in D,
             \A e \in D : measure[e] < measure[i] => f[e] = g[e]
      PROVE  Step[<<f, i>>] = Step[<<g, i>>]
  <2>1. \A j \in (i + 1)..N : j \in D /\ measure[j] < measure[i]
    BY <1>0
  <2>2. \A j \in (i + 1)..N : f[j] = g[j]
    BY <1>3, <2>1
  <2>3. DecodesFrom(in, f, i) = DecodesFrom(in, g, i)
    BY <2>2, DecodesFromLater
  <2>. HIDE DEF D, V, Step
  <2>. QED
    BY <1>2, <2>3
<1>4. \E f \in [D -> V] : Solves(f, Step, D)
  <2>. HIDE DEF D, V, Step, measure, N
  <2>1. Grounded(Step, D, V, measure)
    BY <1>3 DEF Grounded
  <2>. QED
    BY <1>0, <1>2, <2>1, Recursion
<1>5. \E f \in [D -> V] : \A i \in D : f[i] = DecodesFrom(in, f, i)
  <2>. HIDE DEF D, V, Step
  <2>. QED
    BY <1>2, <1>4 DEF Solves
<1>. QED
  BY <1>5 DEF Decodes

LEMMA UrlDecodeDef ==
  ASSUME NEW in \in Seq(STRING)
  PROVE  \E from : Decodes(from, in) /\ UrlDecode(in) = from[1]
<1>. DEFINE from == CHOOSE f : f = [i \in 1..(Len(in) + 1) |-> DecodesFrom(in, f, i)]
<1>1. UrlDecode(in) = from[1]
  BY DEF UrlDecode, DecodesFrom
<1>2. from = [i \in 1..(Len(in) + 1) |-> DecodesFrom(in, from, i)]
  <2>1. PICK f : Decodes(f, in)
    BY DecodesExists
  <2>2. f = [i \in 1..(Len(in) + 1) |-> DecodesFrom(in, f, i)]
    BY <2>1 DEF Decodes
  <2>. QED
    BY <2>2
<1>. HIDE DEF from
<1>3. \A i \in 1..(Len(in) + 1) : from[i] = DecodesFrom(in, from, i)
  BY <1>2
<1>. DEFINE N == Len(in) + 1
            D == 1..N
            measure == [i \in D |-> N - i]
            T == {i \in D : from[i] \in SUBSET Seq(Text)}
<1>4. ASSUME NEW i \in D, \A e \in D : measure[e] < measure[i] => e \in T PROVE i \in T
  <2>1. \A j \in (i + 1)..N : j \in D /\ measure[j] < measure[i]
    OBVIOUS
  <2>2. \A j \in (i + 1)..N : j \in T
    BY <1>4, <2>1
  <2>3. DecodesFrom(in, from, i) \in SUBSET Seq(Text)
    BY <2>2, DecodesFromType
  <2>. QED
    BY <1>3, <2>3
<1>5. measure \in [D -> Nat]
  OBVIOUS
<1>6. \A i \in D : i \in T
  <2>. HIDE DEF D, T, measure
  <2>. QED
    BY <1>4, <1>5, MeasureInduction
<1>7. from \in [1..(Len(in) + 1) -> SUBSET Seq(Text)]
  BY <1>2, <1>6
<1>. QED
  BY <1>1, <1>3, <1>7 DEF Decodes

LEMMA DecodeType ==
  ASSUME NEW in \in Seq(STRING)
  PROVE  UrlDecode(in) \subseteq Seq(Text)
<1>1. PICK from : Decodes(from, in) /\ UrlDecode(in) = from[1]
  BY UrlDecodeDef
<1>2. 1 \in 1..(Len(in) + 1)
  OBVIOUS
<1>. QED
  BY <1>1, <1>2 DEF Decodes

-----------------------------------------------------------------------------
(***************************************************************************)
(* text.find and match_pattern.                                            *)
(***************************************************************************)
\* k is the first place of delim from a place on, one past the end without any.
FoundAt(text, delim, from, k) ==
  /\ k \in from..(Len(text) + 1)
  /\ k <= Len(text) => text[k] = delim
  /\ \A j \in from..(k - 1) : text[j] # delim

LEMMA FindIs ==
  ASSUME NEW S, NEW text \in Seq(S), NEW delim, NEW from \in 1..(Len(text) + 1)
  PROVE  FoundAt(text, delim, from, Find(text, delim, from))
<1>. DEFINE places == {i \in from..Len(text) : text[i] = delim} \cup {Len(text) + 1}
            k == CHOOSE n \in places : \A m \in places : n <= m
<1>1. places \in SUBSET Nat /\ places # {} /\ \A m \in places : m \in from..(Len(text) + 1)
  OBVIOUS
<1>2. k \in places /\ \A m \in places : k <= m
  <2>. HIDE DEF places
  <2>. QED
    BY <1>1, LeastChosen
<1>3. Find(text, delim, from) = k
  BY DEF Find, Min
<1>. HIDE DEF k
<1>4. k <= Len(text) => text[k] = delim
  BY <1>2
<1>5. ASSUME NEW j \in from..(k - 1), text[j] = delim PROVE FALSE
  <2>1. k \in from..(Len(text) + 1)
    BY <1>1, <1>2
  <2>2. j \in places /\ ~(k <= j)
    BY <1>5, <2>1
  <2>. QED
    BY <1>2, <2>2
<1>. QED
  BY <1>1, <1>2, <1>3, <1>4, <1>5 DEF FoundAt

\* Parameters with their values, all of them texts over S.
Params(S) == UNION {[names -> Seq(S)] : names \in SUBSET Seq(S)}

LEMMA ParamsAre ==
  ASSUME NEW S, NEW params
  PROVE  params \in Params(S) <=>
           /\ DOMAIN params \subseteq Seq(S)
           /\ params \in [DOMAIN params -> Seq(S)]
<1>1. ASSUME params \in Params(S)
      PROVE  DOMAIN params \subseteq Seq(S) /\ params \in [DOMAIN params -> Seq(S)]
  <2>1. PICK names \in SUBSET Seq(S) : params \in [names -> Seq(S)]
    BY <1>1, Zenon DEF Params
  <2>. QED
    BY <2>1
<1>2. ASSUME DOMAIN params \subseteq Seq(S), params \in [DOMAIN params -> Seq(S)]
      PROVE  params \in Params(S)
  BY <1>2, Zenon DEF Params
<1>. QED
  BY <1>1, <1>2

LEMMA WithDefaultType ==
  ASSUME NEW S, NEW params \in Params(S), NEW name \in Seq(S), NEW value \in Seq(S)
  PROVE  /\ WithDefault(params, name, value) \in Params(S)
         /\ DOMAIN WithDefault(params, name, value) = DOMAIN params \cup {name}
         /\ \A n \in DOMAIN params : WithDefault(params, name, value)[n] = params[n]
         /\ name \notin DOMAIN params => WithDefault(params, name, value)[name] = value
<1>. DEFINE new == WithDefault(params, name, value)
            names == DOMAIN params
<1>1. names \subseteq Seq(S) /\ params \in [names -> Seq(S)]
  BY ParamsAre
<1>2. new = [n \in names \cup {name} |-> IF n \in names THEN params[n] ELSE value]
  BY DEF WithDefault
<1>. HIDE DEF names, new
<1>3. /\ DOMAIN new = names \cup {name} /\ names \cup {name} \subseteq Seq(S)
      /\ new \in [DOMAIN new -> Seq(S)]
      /\ \A n \in names : new[n] = params[n]
      /\ name \notin names => new[name] = value
  BY <1>1, <1>2
<1>4. new \in Params(S)
  BY <1>3, ParamsAre
<1>. QED
  BY <1>3, <1>4 DEF new, names

LEMMA NoParams ==
  ASSUME NEW S
  PROVE  <<>> \in Params(S) /\ DOMAIN <<>> = {}
<1>1. DOMAIN <<>> = {} /\ <<>> \in [{} -> Seq(S)]
  OBVIOUS
<1>. QED
  BY <1>1, ParamsAre

\* A parameter of the pattern at p, with its value in the input at i.
NameAt(pattern, p) == SubSeq(pattern, p + 1, Find(pattern, "/", p + 1) - 1)
ValueAt(input, i) == SubSeq(input, i, Find(input, "/", i) - 1)
Beyond(pattern, input, p, i) == <<Find(pattern, "/", p + 1), Find(input, "/", i)>>

\* match_pattern from p and i on, when match is what it is further on.
MatchFrom(pattern, input, match, p, i) ==
  CASE p > Len(pattern) -> IF TrailingSlash(input, i) THEN {<<>>} ELSE {}
    [] p <= Len(pattern) /\ i > Len(input) -> {}
    [] p <= Len(pattern) /\ i <= Len(input) /\ pattern[p] = ":" ->
         {WithDefault(later, NameAt(pattern, p), ValueAt(input, i)) : later \in match[Beyond(pattern, input, p, i)]}
    [] OTHER -> IF pattern[p] = input[i] THEN match[<<p + 1, i + 1>>] ELSE {}

\* The ways it succeeds.
Ends(params, pattern, input, p, i) == p > Len(pattern) /\ TrailingSlash(input, i) /\ params = <<>>

Takes(params, pattern, input, match, p, i) ==
  /\ p <= Len(pattern) /\ i <= Len(input) /\ pattern[p] = ":"
  /\ \E later \in match[Beyond(pattern, input, p, i)] :
       params = WithDefault(later, NameAt(pattern, p), ValueAt(input, i))

Equals(params, pattern, input, match, p, i) ==
  /\ p <= Len(pattern) /\ i <= Len(input) /\ pattern[p] # ":"
  /\ pattern[p] = input[i] /\ params \in match[<<p + 1, i + 1>>]

LEMMA MatchFromIs ==
  ASSUME NEW S, NEW pattern \in Seq(S), NEW input \in Seq(S), NEW match,
         NEW p \in 1..(Len(pattern) + 1), NEW i \in 1..(Len(input) + 1), NEW params
  PROVE  params \in MatchFrom(pattern, input, match, p, i) <=>
           \/ Ends(params, pattern, input, p, i)
           \/ Takes(params, pattern, input, match, p, i)
           \/ Equals(params, pattern, input, match, p, i)
<1>0. Len(pattern) \in Nat /\ Len(input) \in Nat /\ p \in Nat /\ i \in Nat
  OBVIOUS
<1>. DEFINE lp == Len(pattern)
            li == Len(input)
<1>. HIDE DEF lp, li
<1>1. CASE p > lp
  <2>1. MatchFrom(pattern, input, match, p, i) = IF TrailingSlash(input, i) THEN {<<>>} ELSE {}
    BY <1>0, <1>1 DEF MatchFrom, lp, li
  <2>. QED
    BY <1>0, <1>1, <2>1 DEF Ends, Takes, Equals, lp, li
<1>2. CASE p <= lp /\ i > li
  <2>1. MatchFrom(pattern, input, match, p, i) = {}
    BY <1>0, <1>2 DEF MatchFrom, lp, li
  <2>. QED
    BY <1>0, <1>2, <2>1 DEF Ends, Takes, Equals, lp, li
<1>3. CASE p <= lp /\ i <= li /\ pattern[p] = ":"
  <2>1. MatchFrom(pattern, input, match, p, i) =
          {WithDefault(later, NameAt(pattern, p), ValueAt(input, i)) : later \in match[Beyond(pattern, input, p, i)]}
    BY <1>0, <1>3 DEF MatchFrom, lp, li
  <2>2. ~Ends(params, pattern, input, p, i) /\ ~Equals(params, pattern, input, match, p, i)
    BY <1>0, <1>3 DEF Ends, Equals, lp, li
  <2>. QED
    BY <1>3, <2>1, <2>2, Zenon DEF Takes, lp, li
<1>4. CASE p <= lp /\ i <= li /\ pattern[p] # ":"
  <2>1. MatchFrom(pattern, input, match, p, i) = IF pattern[p] = input[i] THEN match[<<p + 1, i + 1>>] ELSE {}
    BY <1>0, <1>4 DEF MatchFrom, lp, li
  <2>. QED
    BY <1>0, <1>4, <2>1 DEF Ends, Takes, Equals, lp, li
<1>. QED
  BY <1>0, <1>1, <1>2, <1>3, <1>4 DEF lp, li

Places(pattern, input) == (1..(Len(pattern) + 1)) \X (1..(Len(input) + 1))

\* Where it goes on is further on, in both texts.
LEMMA BeyondIs ==
  ASSUME NEW S, NEW pattern \in Seq(S), NEW input \in Seq(S),
         NEW p \in 1..Len(pattern), NEW i \in 1..Len(input)
  PROVE  /\ Beyond(pattern, input, p, i)[1] \in (p + 1)..(Len(pattern) + 1)
         /\ Beyond(pattern, input, p, i)[2] \in i..(Len(input) + 1)
         /\ Beyond(pattern, input, p, i) \in Places(pattern, input)
         /\ NameAt(pattern, p) \in Seq(S) /\ ValueAt(input, i) \in Seq(S)
<1>. DEFINE q == Find(pattern, "/", p + 1)
            j == Find(input, "/", i)
<1>1. q \in (p + 1)..(Len(pattern) + 1)
  <2>1. p + 1 \in 1..(Len(pattern) + 1)
    OBVIOUS
  <2>. QED
    BY <2>1, FindIs DEF FoundAt
<1>2. j \in i..(Len(input) + 1)
  <2>1. i \in 1..(Len(input) + 1)
    OBVIOUS
  <2>. QED
    BY <2>1, FindIs DEF FoundAt
<1>3. Beyond(pattern, input, p, i) = <<q, j>> /\ NameAt(pattern, p) = SubSeq(pattern, p + 1, q - 1)
      /\ ValueAt(input, i) = SubSeq(input, i, j - 1)
  BY DEF Beyond, NameAt, ValueAt
<1>. HIDE DEF q, j
<1>. QED
  BY <1>1, <1>2, <1>3 DEF Places

LEMMA MatchFromType ==
  ASSUME NEW S, NEW pattern \in Seq(S), NEW input \in Seq(S), NEW match,
         NEW p \in 1..(Len(pattern) + 1), NEW i \in 1..(Len(input) + 1),
         \A at \in Places(pattern, input) : at[1] > p => match[at] \in SUBSET Params(S)
  PROVE  MatchFrom(pattern, input, match, p, i) \in SUBSET Params(S)
<1> SUFFICES ASSUME NEW params \in MatchFrom(pattern, input, match, p, i) PROVE params \in Params(S)
  OBVIOUS
<1>1. CASE Ends(params, pattern, input, p, i)
  BY <1>1, NoParams DEF Ends
<1>2. CASE Takes(params, pattern, input, match, p, i)
  <2>1. p \in 1..Len(pattern) /\ i \in 1..Len(input)
    BY <1>2 DEF Takes
  <2>. DEFINE at == Beyond(pattern, input, p, i)
  <2>2. PICK later \in match[at] : params = WithDefault(later, NameAt(pattern, p), ValueAt(input, i))
    BY <1>2 DEF Takes
  <2>3. at \in Places(pattern, input) /\ at[1] > p
    BY <2>1, BeyondIs
  <2>4. later \in Params(S)
    BY <2>2, <2>3
  <2>. HIDE DEF at
  <2>. QED
    BY <2>1, <2>2, <2>4, BeyondIs, WithDefaultType
<1>3. CASE Equals(params, pattern, input, match, p, i)
  <2>1. <<p + 1, i + 1>> \in Places(pattern, input) /\ <<p + 1, i + 1>>[1] > p
    BY <1>3 DEF Equals, Places
  <2>. QED
    BY <1>3, <2>1 DEF Equals
<1>. QED
  BY <1>1, <1>2, <1>3, MatchFromIs

LEMMA MatchFromLater ==
  ASSUME NEW S, NEW pattern \in Seq(S), NEW input \in Seq(S), NEW f, NEW g,
         NEW p \in 1..(Len(pattern) + 1), NEW i \in 1..(Len(input) + 1),
         \A at \in Places(pattern, input) : at[1] > p => f[at] = g[at]
  PROVE  MatchFrom(pattern, input, f, p, i) = MatchFrom(pattern, input, g, p, i)
<1>1. p <= Len(pattern) /\ i <= Len(input)
        => f[Beyond(pattern, input, p, i)] = g[Beyond(pattern, input, p, i)]
  <2> SUFFICES ASSUME p <= Len(pattern), i <= Len(input)
               PROVE  f[Beyond(pattern, input, p, i)] = g[Beyond(pattern, input, p, i)]
    OBVIOUS
  <2>1. Beyond(pattern, input, p, i) \in Places(pattern, input) /\ Beyond(pattern, input, p, i)[1] > p
    BY BeyondIs
  <2>. QED
    BY <2>1
<1>2. p <= Len(pattern) /\ i <= Len(input) => f[<<p + 1, i + 1>>] = g[<<p + 1, i + 1>>]
  BY DEF Places
<1>3. ASSUME NEW params
      PROVE  params \in MatchFrom(pattern, input, f, p, i) <=> params \in MatchFrom(pattern, input, g, p, i)
  <2>1. /\ Takes(params, pattern, input, f, p, i) <=> Takes(params, pattern, input, g, p, i)
        /\ Equals(params, pattern, input, f, p, i) <=> Equals(params, pattern, input, g, p, i)
    BY <1>1, <1>2 DEF Takes, Equals
  <2>. QED
    BY <2>1, MatchFromIs
<1>. QED
  BY <1>3

\* What match_pattern goes through.
Matching(match, pattern, input, S) ==
  /\ match \in [Places(pattern, input) -> SUBSET Params(S)]
  /\ \A at \in Places(pattern, input) : match[at] = MatchFrom(pattern, input, match, at[1], at[2])

LEMMA MatchingExists ==
  ASSUME NEW S, NEW pattern \in Seq(S), NEW input \in Seq(S)
  PROVE  \E match : Matching(match, pattern, input, S)
<1>. DEFINE N == Len(pattern) + 1
            D == Places(pattern, input)
            V == SUBSET Params(S)
            measure == [at \in D |-> N - at[1]]
            Step == [x \in [D -> V] \X D |-> MatchFrom(pattern, input, x[1], x[2][1], x[2][2])]
<1>0. /\ N \in Nat /\ measure \in [D -> 0..N] /\ {} \in V
      /\ \A at \in D : at[1] \in 1..N /\ at[2] \in 1..(Len(input) + 1)
  BY DEF Places
<1>1. \A f \in [D -> V], at \in D : MatchFrom(pattern, input, f, at[1], at[2]) \in V
  <2> SUFFICES ASSUME NEW f \in [D -> V], NEW at \in D PROVE MatchFrom(pattern, input, f, at[1], at[2]) \in V
    OBVIOUS
  <2>. QED
    BY <1>0, MatchFromType
<1>2. /\ Step \in [[D -> V] \X D -> V]
      /\ \A f \in [D -> V], at \in D : Step[<<f, at>>] = MatchFrom(pattern, input, f, at[1], at[2])
  <2>. HIDE DEF D, V
  <2>. QED
    BY <1>1
<1>3. ASSUME NEW f \in [D -> V], NEW g \in [D -> V], NEW at \in D,
             \A e \in D : measure[e] < measure[at] => f[e] = g[e]
      PROVE  Step[<<f, at>>] = Step[<<g, at>>]
  <2>1. \A e \in D : e[1] > at[1] => measure[e] < measure[at]
    BY <1>0
  <2>2. \A e \in D : e[1] > at[1] => f[e] = g[e]
    BY <1>3, <2>1
  <2>3. MatchFrom(pattern, input, f, at[1], at[2]) = MatchFrom(pattern, input, g, at[1], at[2])
    BY <1>0, <2>2, MatchFromLater
  <2>. HIDE DEF D, V, Step
  <2>. QED
    BY <1>2, <2>3
<1>4. \E f \in [D -> V] : Solves(f, Step, D)
  <2>. HIDE DEF D, V, Step, measure, N
  <2>1. Grounded(Step, D, V, measure)
    BY <1>3 DEF Grounded
  <2>. QED
    BY <1>0, <1>2, <2>1, Recursion
<1>5. \E f \in [D -> V] : \A at \in D : f[at] = MatchFrom(pattern, input, f, at[1], at[2])
  <2>. HIDE DEF D, V, Step
  <2>. QED
    BY <1>2, <1>4 DEF Solves
<1>. QED
  BY <1>5 DEF Matching

LEMMA MatchPatternDef ==
  ASSUME NEW S, NEW pattern \in Seq(S), NEW input \in Seq(S)
  PROVE  \E match : Matching(match, pattern, input, S) /\ MatchPattern(pattern, input) = match[<<1, 1>>]
<1>. DEFINE D == Places(pattern, input)
            match == CHOOSE f : f = [at \in D |-> MatchFrom(pattern, input, f, at[1], at[2])]
<1>1. MatchPattern(pattern, input) = match[<<1, 1>>]
  BY DEF MatchPattern, MatchFrom, Places, Beyond, NameAt, ValueAt
<1>2. match = [at \in D |-> MatchFrom(pattern, input, match, at[1], at[2])]
  <2>1. PICK f : Matching(f, pattern, input, S)
    BY MatchingExists
  <2>2. f = [at \in D |-> MatchFrom(pattern, input, f, at[1], at[2])]
    BY <2>1 DEF Matching
  <2>. QED
    BY <2>2
<1>. HIDE DEF match
<1>3. \A at \in D : match[at] = MatchFrom(pattern, input, match, at[1], at[2])
  BY <1>2
<1>. DEFINE N == Len(pattern) + 1
            measure == [at \in D |-> N - at[1]]
            T == {at \in D : match[at] \in SUBSET Params(S)}
<1>4. /\ measure \in [D -> Nat]
      /\ \A at \in D : at[1] \in 1..N /\ at[2] \in 1..(Len(input) + 1)
  BY DEF Places
<1>5. ASSUME NEW at \in D, \A e \in D : measure[e] < measure[at] => e \in T PROVE at \in T
  <2>1. \A e \in D : e[1] > at[1] => measure[e] < measure[at]
    BY <1>4
  <2>2. \A e \in D : e[1] > at[1] => match[e] \in SUBSET Params(S)
    BY <1>5, <2>1
  <2>3. MatchFrom(pattern, input, match, at[1], at[2]) \in SUBSET Params(S)
    BY <1>4, <2>2, MatchFromType
  <2>. QED
    BY <1>3, <2>3
<1>6. \A at \in D : at \in T
  <2>. HIDE DEF D, T, measure
  <2>. QED
    BY <1>4, <1>5, MeasureInduction
<1>7. match \in [D -> SUBSET Params(S)]
  BY <1>2, <1>6
<1>. QED
  BY <1>1, <1>3, <1>7 DEF Matching

-----------------------------------------------------------------------------
(***************************************************************************)
(* The location with its parameters filled in is the path.                 *)
(***************************************************************************)
FilledFrom(location, params, from, p) ==
  IF p > Len(location) THEN <<>>
  ELSE IF location[p] # ":" THEN <<location[p]>> \o from[p + 1]
  ELSE params[NameAt(location, p)] \o from[Find(location, "/", p + 1)]

Fills(from, location, params) ==
  \A p \in 1..(Len(location) + 1) : from[p] = FilledFrom(location, params, from, p)

LEMMA FilledFromLater ==
  ASSUME NEW S, NEW location \in Seq(S), NEW params, NEW f, NEW g, NEW p \in 1..(Len(location) + 1),
         \A q \in (p + 1)..(Len(location) + 1) : f[q] = g[q]
  PROVE  FilledFrom(location, params, f, p) = FilledFrom(location, params, g, p)
<1>1. CASE ~(p > Len(location))
  <2>1. p + 1 \in 1..(Len(location) + 1)
    BY <1>1
  <2>2. Find(location, "/", p + 1) \in (p + 1)..(Len(location) + 1)
    BY <2>1, FindIs DEF FoundAt
  <2>3. p + 1 \in (p + 1)..(Len(location) + 1)
    BY <1>1
  <2>4. f[p + 1] = g[p + 1] /\ f[Find(location, "/", p + 1)] = g[Find(location, "/", p + 1)]
    BY <2>2, <2>3
  <2>. QED
    BY <1>1, <2>4 DEF FilledFrom
<1>2. CASE p > Len(location)
  BY <1>2 DEF FilledFrom
<1>. QED
  BY <1>1, <1>2

LEMMA FilledDef ==
  ASSUME NEW S, NEW location \in Seq(S), NEW params
  PROVE  \E from : Fills(from, location, params) /\ Filled(location, params) = from[1]
<1>. DEFINE N == Len(location) + 1
            D == 1..N
            from == CHOOSE f : f = [p \in D |-> FilledFrom(location, params, f, p)]
            P(n) == \E f : f = [p \in D |-> f[p]]
                          /\ \A p \in D : p > N - n => f[p] = FilledFrom(location, params, f, p)
            T == {n \in Nat : P(n)}
<1>0. N \in Nat /\ N >= 1
  OBVIOUS
<1>1. Filled(location, params) = from[1]
  BY DEF Filled, FilledFrom, NameAt
<1>2. P(0)
  <2>1. \A p \in D : ~(p > N - 0)
    BY <1>0
  <2>. DEFINE f == [p \in D |-> <<>>]
  <2>2. f = [p \in D |-> f[p]]
    OBVIOUS
  <2>. QED
    BY <2>1, <2>2
<1>3. ASSUME NEW n \in Nat, P(n) PROVE P(n + 1)
  <2>1. PICK f : /\ f = [p \in D |-> f[p]]
                 /\ \A p \in D : p > N - n => f[p] = FilledFrom(location, params, f, p)
    BY <1>3
  <2>. DEFINE g == [p \in D |-> FilledFrom(location, params, f, p)]
  <2>2. g = [p \in D |-> g[p]] /\ \A p \in D : g[p] = FilledFrom(location, params, f, p)
    OBVIOUS
  <2>. HIDE DEF g
  <2>3. ASSUME NEW p \in D, p > N - (n + 1) PROVE g[p] = FilledFrom(location, params, g, p)
    <3>1. \A q \in (p + 1)..N : q \in D /\ q > N - n
      BY <1>0, <2>3
    <3>2. \A q \in (p + 1)..N : f[q] = g[q]
      BY <2>1, <2>2, <3>1
    <3>3. FilledFrom(location, params, f, p) = FilledFrom(location, params, g, p)
      BY <3>2, FilledFromLater
    <3>. QED
      BY <2>2, <3>3
  <2>. QED
    BY <2>2, <2>3
<1>. HIDE DEF P
<1>4. 0 \in T /\ \A n \in Nat : n < N /\ n \in T => n + 1 \in T
  BY <1>2, <1>3
<1>5. N \in T
  <2>. HIDE DEF T
  <2>. QED
    BY <1>0, <1>4, InductionTo
<1>6. \E f : f = [p \in D |-> FilledFrom(location, params, f, p)]
  <2>1. PICK f : /\ f = [p \in D |-> f[p]]
                 /\ \A p \in D : p > N - N => f[p] = FilledFrom(location, params, f, p)
    BY <1>5 DEF P
  <2>2. \A p \in D : f[p] = FilledFrom(location, params, f, p)
    BY <1>0, <2>1
  <2>. QED
    BY <2>1, <2>2
<1>7. from = [p \in D |-> FilledFrom(location, params, from, p)]
  BY <1>6
<1>. HIDE DEF from
<1>8. \A p \in D : from[p] = FilledFrom(location, params, from, p)
  BY <1>7
<1>. QED
  BY <1>1, <1>8 DEF Fills

Colons(location, p) == {q \in p..Len(location) : location[q] = ":"}

LEMMA ColonsAre ==
  ASSUME NEW S, NEW location \in Seq(S), NEW p \in 1..(Len(location) + 1)
  PROVE  /\ IsFiniteSet(Colons(location, p))
         /\ Cardinality(Colons(location, p)) \in Nat
         /\ p > Len(location) => Cardinality(Colons(location, p)) = 0
         /\ p <= Len(location) /\ location[p] # ":" => Colons(location, p) = Colons(location, p + 1)
         /\ p <= Len(location) /\ location[p] = ":" =>
              \A q \in (p + 1)..(Len(location) + 1) :
                 Cardinality(Colons(location, q)) + 1 <= Cardinality(Colons(location, p))
<1>1. ASSUME NEW q \in 1..(Len(location) + 1)
      PROVE  IsFiniteSet(Colons(location, q)) /\ Cardinality(Colons(location, q)) \in Nat
  <2>1. Colons(location, q) \subseteq 1..Len(location)
    BY DEF Colons
  <2>2. IsFiniteSet(1..Len(location))
    BY FS_Interval
  <2>. QED
    BY <2>1, <2>2, FS_Subset, FS_CardinalityType
<1>2. CASE p > Len(location)
  <2>1. Colons(location, p) = {}
    BY <1>2 DEF Colons
  <2>. QED
    BY <1>1, <1>2, <2>1, FS_EmptySet
<1>3. CASE p <= Len(location) /\ location[p] # ":"
  BY <1>1, <1>3 DEF Colons
<1>4. CASE p <= Len(location) /\ location[p] = ":"
  <2>1. ASSUME NEW q \in (p + 1)..(Len(location) + 1)
        PROVE  Cardinality(Colons(location, q)) + 1 <= Cardinality(Colons(location, p))
    <3>. DEFINE later == Colons(location, q)
                here == Colons(location, p)
    <3>1. q \in 1..(Len(location) + 1)
      BY <1>4, <2>1
    <3>2. later \cup {p} \subseteq here /\ p \notin later
      BY <1>4, <2>1 DEF Colons
    <3>3. /\ IsFiniteSet(later) /\ Cardinality(later) \in Nat
          /\ IsFiniteSet(here) /\ Cardinality(here) \in Nat
      BY <1>1, <3>1
    <3>. HIDE DEF later, here
    <3>4. Cardinality(later \cup {p}) = Cardinality(later) + 1
      BY <3>2, <3>3, FS_AddElement
    <3>5. Cardinality(later \cup {p}) <= Cardinality(here)
      BY <3>2, <3>3, FS_Subset
    <3>. QED
      BY <3>4, <3>5 DEF later, here
  <2>. QED
    BY <1>1, <1>4, <2>1
<1>. QED
  BY <1>2, <1>3, <1>4

\* The part of the input that is left, from the parameters that have been taken in
\* it: they are no more than the pattern has, and when they are as many, filling
\* them in gives it back.
FitsIn(later, location, p) ==
  /\ IsFiniteSet(DOMAIN later)
  /\ Cardinality(DOMAIN later) \in Nat
  /\ Cardinality(DOMAIN later) <= Cardinality(Colons(location, p))

Keeps(params, later) == \A n \in DOMAIN later : params[n] = later[n]

GivesBack(text, rest, S) ==
  /\ text \in Seq(S)
  /\ \E trailing \in {<<>>, <<"/">>} : text \o trailing = rest

Restores(later, location, input, p, i, S) ==
  /\ FitsIn(later, location, p)
  /\ Cardinality(DOMAIN later) = Cardinality(Colons(location, p)) =>
       \A params, from : Keeps(params, later) /\ Fills(from, location, params) =>
         GivesBack(from[p], SubSeq(input, i, Len(input)), S)

LEMMA EndsRestore ==
  ASSUME NEW S, NEW location \in Seq(S), NEW input \in Seq(S),
         NEW p \in 1..(Len(location) + 1), NEW i \in 1..(Len(input) + 1), NEW later,
         Ends(later, location, input, p, i)
  PROVE  Restores(later, location, input, p, i, S)
<1>1. p > Len(location) /\ later = <<>> /\ TrailingSlash(input, i)
  BY DEF Ends
<1>2. FitsIn(later, location, p)
  BY <1>1, ColonsAre, FS_EmptySet DEF FitsIn
<1>. DEFINE rest == SubSeq(input, i, Len(input))
<1>3. rest \in {<<>>, <<"/">>}
  <2>1. CASE i > Len(input)
    BY <2>1
  <2>2. CASE i = Len(input) /\ input[i] = "/"
    <3>1. rest \in Seq(S) /\ Len(rest) = 1 /\ rest[1] = "/"
      BY <2>2
    <3>. HIDE DEF rest
    <3>. QED
      BY <3>1, SingleIs
  <2>. QED
    BY <1>1, <2>1, <2>2 DEF TrailingSlash
<1>4. rest \in Seq(S)
  OBVIOUS
<1>5. ASSUME NEW params, NEW from, Fills(from, location, params) PROVE GivesBack(from[p], rest, S)
  <2>1. from[p] = <<>>
    BY <1>1, <1>5 DEF Fills, FilledFrom
  <2>2. <<>> \o rest = rest /\ <<>> \in Seq(S)
    BY <1>4
  <2>. HIDE DEF rest
  <2>. QED
    BY <1>3, <2>1, <2>2 DEF GivesBack
<1>. QED
  BY <1>2, <1>5 DEF Restores

\* A part of a text, and what comes after it.
LEMMA CutInTwo ==
  ASSUME NEW S, NEW text \in Seq(S), NEW i \in 1..(Len(text) + 1), NEW j \in i..(Len(text) + 1)
  PROVE  /\ SubSeq(text, i, j - 1) \in Seq(S) /\ SubSeq(text, j, Len(text)) \in Seq(S)
         /\ SubSeq(text, i, j - 1) \o SubSeq(text, j, Len(text)) = SubSeq(text, i, Len(text))
<1>. DEFINE a == SubSeq(text, i, j - 1)
            b == SubSeq(text, j, Len(text))
            c == SubSeq(text, i, Len(text))
<1>1. /\ a \in Seq(S) /\ Len(a) = j - i /\ \A k \in 1..(j - i) : a[k] = text[i + k - 1]
      /\ b \in Seq(S) /\ Len(b) = Len(text) + 1 - j
      /\ \A k \in 1..(Len(text) + 1 - j) : b[k] = text[j + k - 1]
      /\ c \in Seq(S) /\ Len(c) = Len(text) + 1 - i
      /\ \A k \in 1..(Len(text) + 1 - i) : c[k] = text[i + k - 1]
      /\ i \in Nat /\ j \in Nat /\ i >= 1 /\ i <= j /\ j <= Len(text) + 1 /\ Len(text) \in Nat
  OBVIOUS
<1>. HIDE DEF a, b, c
<1>2. a \o b \in Seq(S) /\ InTwo(a \o b, a, b)
  BY <1>1, Concat2
<1>3. Len(a \o b) = Len(c)
  BY <1>1, <1>2 DEF InTwo
<1>4. ASSUME NEW k \in 1..Len(c) PROVE (a \o b)[k] = c[k]
  <2>1. CASE k <= j - i
    <3>1. k \in 1..Len(a) /\ k \in 1..(j - i) /\ k \in 1..(Len(text) + 1 - i)
      BY <1>1, <2>1
    <3>2. (a \o b)[k] = a[k]
      BY <1>2, <3>1 DEF InTwo
    <3>3. a[k] = text[i + k - 1] /\ c[k] = text[i + k - 1]
      BY <1>1, <3>1
    <3>. QED
      BY <3>2, <3>3
  <2>2. CASE k > j - i
    <3>. DEFINE m == k - (j - i)
    <3>1. /\ m \in 1..Len(b) /\ m \in 1..(Len(text) + 1 - j) /\ Len(a) + m = k
          /\ k \in 1..(Len(text) + 1 - i) /\ j + m - 1 = i + k - 1
      BY <1>1, <2>2
    <3>. HIDE DEF m
    <3>2. (a \o b)[k] = b[m]
      BY <1>2, <3>1 DEF InTwo
    <3>3. b[m] = text[j + m - 1] /\ c[k] = text[i + k - 1]
      BY <1>1, <3>1
    <3>. QED
      BY <3>1, <3>2, <3>3
  <2>. QED
    BY <1>1, <2>1, <2>2
<1>5. a \o b = c
  BY <1>1, <1>2, <1>3, <1>4, SeqEqual
<1>. QED
  BY <1>1, <1>5 DEF a, b, c

\* What is put before what gives back a rest, gives back that much more.
LEMMA GivesBackMore ==
  ASSUME NEW S, NEW value \in Seq(S), NEW text, NEW rest \in Seq(S), NEW whole,
         GivesBack(text, rest, S), value \o rest = whole
  PROVE  GivesBack(value \o text, whole, S)
<1>1. PICK trailing \in {<<>>, <<"/">>} : text \o trailing = rest
  BY DEF GivesBack
<1>2. text \in Seq(S)
  BY DEF GivesBack
<1>3. value \o text \in Seq(S)
  BY <1>2
<1>4. trailing \in Seq(S)
  <2>1. CASE trailing = <<>>
    BY <2>1
  <2>2. CASE trailing = <<"/">>
    <3>1. Len(rest) = Len(text) + 1 /\ rest[Len(text) + 1] = "/"
      BY <1>1, <1>2, <2>2
    <3>2. Len(text) + 1 \in 1..Len(rest)
      BY <1>2, <3>1
    <3>3. "/" \in S
      BY <3>1, <3>2, ElementOfSeq
    <3>. QED
      BY <2>2, <3>3
  <2>. QED
    BY <1>1, <2>1, <2>2
<1>5. (value \o text) \o trailing = value \o (text \o trailing)
  BY <1>2, <1>4, ConcatAssociative
<1>. QED
  BY <1>1, <1>3, <1>5 DEF GivesBack

LEMMA EqualsRestore ==
  ASSUME NEW S, NEW location \in Seq(S), NEW input \in Seq(S), NEW match,
         NEW p \in 1..(Len(location) + 1), NEW i \in 1..(Len(input) + 1), NEW later,
         Equals(later, location, input, match, p, i),
         Restores(later, location, input, p + 1, i + 1, S)
  PROVE  Restores(later, location, input, p, i, S)
<1>1. p <= Len(location) /\ i <= Len(input) /\ location[p] # ":" /\ location[p] = input[i]
  BY DEF Equals
<1>2. Colons(location, p) = Colons(location, p + 1)
  BY <1>1, ColonsAre
<1>. DEFINE rest == SubSeq(input, i + 1, Len(input))
            whole == SubSeq(input, i, Len(input))
<1>3. rest \in Seq(S) /\ <<input[i]>> \in Seq(S) /\ <<input[i]>> \o rest = whole
  <2>1. i + 1 \in i..(Len(input) + 1) /\ (i + 1) - 1 = i
    BY <1>1
  <2>2. SubSeq(input, i, i) \o rest = whole /\ rest \in Seq(S)
    BY <2>1, CutInTwo
  <2>3. SubSeq(input, i, i) = <<input[i]>> /\ <<input[i]>> \in Seq(S)
    <3>1. SubSeq(input, i, i) \in Seq(S) /\ Len(SubSeq(input, i, i)) = 1 /\ SubSeq(input, i, i)[1] = input[i]
      BY <1>1
    <3>. QED
      BY <3>1, SingleIs
  <2>. QED
    BY <2>2, <2>3
<1>4. ASSUME Cardinality(DOMAIN later) = Cardinality(Colons(location, p)),
             NEW params, NEW from, Keeps(params, later), Fills(from, location, params)
      PROVE  GivesBack(from[p], whole, S)
  <2>0. ~(p > Len(location))
    BY <1>1
  <2>1. GivesBack(from[p + 1], rest, S)
    BY <1>2, <1>4 DEF Restores
  <2>2. from[p] = <<input[i]>> \o from[p + 1]
    <3>1. from[p] = FilledFrom(location, params, from, p)
      BY <1>4 DEF Fills
    <3>. QED
      BY <1>1, <2>0, <3>1, Zenon DEF FilledFrom
  <2>. HIDE DEF rest, whole
  <2>. QED
    BY <1>3, <2>1, <2>2, GivesBackMore
<1>5. FitsIn(later, location, p)
  BY <1>2 DEF Restores, FitsIn
<1>. QED
  BY <1>4, <1>5 DEF Restores

LEMMA TakesRestore ==
  ASSUME NEW S, NEW location \in Seq(S), NEW input \in Seq(S),
         NEW p \in 1..Len(location), NEW i \in 1..Len(input), location[p] = ":",
         NEW others \in Params(S), NEW q, NEW j, Beyond(location, input, p, i) = <<q, j>>,
         Restores(others, location, input, q, j, S)
  PROVE  Restores(WithDefault(others, NameAt(location, p), ValueAt(input, i)), location, input, p, i, S)
<1>. DEFINE name == NameAt(location, p)
            value == ValueAt(input, i)
            later == WithDefault(others, name, value)
            rest == SubSeq(input, j, Len(input))
            whole == SubSeq(input, i, Len(input))
<1>1. /\ q \in (p + 1)..(Len(location) + 1) /\ j \in i..(Len(input) + 1)
      /\ name \in Seq(S) /\ value \in Seq(S)
      /\ q = Find(location, "/", p + 1) /\ value = SubSeq(input, i, j - 1)
  <2>1. /\ Beyond(location, input, p, i)[1] \in (p + 1)..(Len(location) + 1)
        /\ Beyond(location, input, p, i)[2] \in i..(Len(input) + 1)
        /\ name \in Seq(S) /\ value \in Seq(S)
    BY BeyondIs
  <2>2. q = Find(location, "/", p + 1) /\ j = Find(input, "/", i)
    BY DEF Beyond
  <2>. QED
    BY <2>1, <2>2 DEF ValueAt
<1>2. rest \in Seq(S) /\ value \o rest = whole
  <2>1. i \in 1..(Len(input) + 1)
    OBVIOUS
  <2>. QED
    BY <1>1, <2>1, CutInTwo
<1>3. /\ DOMAIN later = DOMAIN others \cup {name}
      /\ \A n \in DOMAIN others : later[n] = others[n]
      /\ name \notin DOMAIN others => later[name] = value
  <2>. HIDE DEF name, value
  <2>. QED
    BY DEF WithDefault
<1>4. p \in 1..(Len(location) + 1) /\ q \in 1..(Len(location) + 1) /\ p <= Len(location)
  BY <1>1
<1>5. /\ Cardinality(Colons(location, q)) + 1 <= Cardinality(Colons(location, p))
      /\ Cardinality(Colons(location, q)) \in Nat /\ Cardinality(Colons(location, p)) \in Nat
  BY <1>1, <1>4, ColonsAre
<1>6. /\ IsFiniteSet(DOMAIN others) /\ Cardinality(DOMAIN others) \in Nat
      /\ Cardinality(DOMAIN others) <= Cardinality(Colons(location, q))
  BY DEF Restores, FitsIn
<1>. HIDE DEF later, rest, whole, value
<1>7. /\ IsFiniteSet(DOMAIN later)
      /\ Cardinality(DOMAIN later) = IF name \in DOMAIN others THEN Cardinality(DOMAIN others)
                                     ELSE Cardinality(DOMAIN others) + 1
  BY <1>3, <1>6, FS_AddElement
<1>8. FitsIn(later, location, p)
  BY <1>5, <1>6, <1>7 DEF FitsIn
<1>9. ASSUME Cardinality(DOMAIN later) = Cardinality(Colons(location, p)),
             NEW params, NEW from, Keeps(params, later), Fills(from, location, params)
      PROVE  GivesBack(from[p], whole, S)
  <2>1. name \notin DOMAIN others /\ Cardinality(DOMAIN others) = Cardinality(Colons(location, q))
    BY <1>5, <1>6, <1>7, <1>9
  <2>2. Keeps(params, others) /\ params[name] = value
    BY <1>3, <1>9, <2>1 DEF Keeps
  <2>3. GivesBack(from[q], rest, S)
    BY <1>9, <2>1, <2>2 DEF Restores, rest
  <2>4. from[p] = value \o from[q]
    <3>1. from[p] = FilledFrom(location, params, from, p)
      BY <1>4, <1>9 DEF Fills
    <3>2. ~(p > Len(location))
      OBVIOUS
    <3>3. FilledFrom(location, params, from, p) = params[NameAt(location, p)] \o from[Find(location, "/", p + 1)]
      BY <3>2, Zenon DEF FilledFrom
    <3>. QED
      BY <1>1, <2>2, <3>1, <3>3
  <2>. QED
    BY <1>1, <1>2, <2>3, <2>4, GivesBackMore
<1>. QED
  BY <1>8, <1>9 DEF Restores, later, whole, value

\* Every match restores the input.
LEMMA MatchRestores ==
  ASSUME NEW S, NEW location \in Seq(S), NEW input \in Seq(S), NEW params \in MatchPattern(location, input)
  PROVE  params \in Params(S) /\ Restores(params, location, input, 1, 1, S)
<1>1. PICK match : Matching(match, location, input, S) /\ MatchPattern(location, input) = match[<<1, 1>>]
  BY MatchPatternDef
<1>. DEFINE D == Places(location, input)
            measure == [at \in D |-> (Len(location) + 1) - at[1]]
            T == {at \in D : \A later \in match[at] : Restores(later, location, input, at[1], at[2], S)}
<1>2. /\ measure \in [D -> Nat] /\ <<1, 1>> \in D
      /\ \A at \in D : at[1] \in 1..(Len(location) + 1) /\ at[2] \in 1..(Len(input) + 1)
  BY DEF Places
<1>3. ASSUME NEW at \in D, \A e \in D : measure[e] < measure[at] => e \in T PROVE at \in T
  <2>. DEFINE p == at[1]
              i == at[2]
  <2>0. p \in 1..(Len(location) + 1) /\ i \in 1..(Len(input) + 1)
    BY <1>2
  <2>1. \A e \in D : e[1] > p => e \in T
    <3>1. \A e \in D : e[1] > p => measure[e] < measure[at]
      BY <1>2
    <3>. QED
      BY <1>3, <3>1
  <2>2. \A e \in D : e[1] > p => \A later \in match[e] : Restores(later, location, input, e[1], e[2], S)
    BY <2>1
  <2>3. match[at] = MatchFrom(location, input, match, p, i)
    BY <1>1 DEF Matching
  <2>. HIDE DEF p, i
  <2>4. ASSUME NEW later \in match[at] PROVE Restores(later, location, input, p, i, S)
    <3>1. CASE Ends(later, location, input, p, i)
      BY <2>0, <3>1, EndsRestore
    <3>2. CASE Takes(later, location, input, match, p, i)
      <4>1. p \in 1..Len(location) /\ i \in 1..Len(input) /\ location[p] = ":"
        BY <2>0, <3>2 DEF Takes
      <4>. DEFINE further == Beyond(location, input, p, i)
      <4>2. PICK others \in match[further] : later = WithDefault(others, NameAt(location, p), ValueAt(input, i))
        BY <3>2 DEF Takes
      <4>3. further \in D /\ further[1] > p
        BY <4>1, BeyondIs
      <4>4. others \in Params(S)
        BY <1>1, <4>2, <4>3 DEF Matching
      <4>5. Restores(others, location, input, further[1], further[2], S)
        BY <2>2, <4>2, <4>3
      <4>6. Beyond(location, input, p, i) = <<further[1], further[2]>>
        BY DEF Beyond
      <4>. HIDE DEF further
      <4>. QED
        BY <4>1, <4>2, <4>4, <4>5, <4>6, TakesRestore
    <3>3. CASE Equals(later, location, input, match, p, i)
      <4>1. <<p + 1, i + 1>> \in D /\ <<p + 1, i + 1>>[1] > p /\ later \in match[<<p + 1, i + 1>>]
        BY <2>0, <3>3 DEF Equals, Places
      <4>2. Restores(later, location, input, p + 1, i + 1, S)
        BY <2>2, <4>1
      <4>. QED
        BY <2>0, <3>3, <4>2, EqualsRestore
    <3>. QED
      BY <2>0, <2>3, <3>1, <3>2, <3>3, MatchFromIs
  <2>. QED
    BY <2>4 DEF p, i
<1>4. \A at \in D : at \in T
  <2>. HIDE DEF D, T, measure
  <2>. QED
    BY <1>2, <1>3, MeasureInduction
<1>5. <<1, 1>> \in T /\ match[<<1, 1>>] \in SUBSET Params(S)
  <2>1. <<1, 1>> \in T
    BY <1>2, <1>4
  <2>2. match[<<1, 1>>] \in SUBSET Params(S)
    BY <1>1, <1>2 DEF Matching
  <2>. QED
    BY <2>1, <2>2
<1>6. params \in match[<<1, 1>>]
  BY <1>1
<1>. QED
  BY <1>5, <1>6

\* So a location filled with what was matched is the path, but for a slash.
LEMMA FilledIsPath ==
  ASSUME NEW S, NEW location \in Seq(S), NEW path \in Seq(S), NEW params \in MatchPattern(location, path),
         NamedOnce(location, params)
  PROVE  \E trailing \in {<<>>, <<"/">>} : Filled(location, params) \o trailing = path
<1>1. Restores(params, location, path, 1, 1, S)
  BY MatchRestores
<1>2. Colons(location, 1) = {p \in DOMAIN location : location[p] = ":"}
  BY DEF Colons
<1>3. Cardinality(DOMAIN params) = Cardinality(Colons(location, 1))
  BY <1>2 DEF NamedOnce
<1>4. PICK from : Fills(from, location, params) /\ Filled(location, params) = from[1]
  BY FilledDef
<1>5. Keeps(params, params)
  BY DEF Keeps
<1>6. SubSeq(path, 1, Len(path)) = path
  OBVIOUS
<1>7. GivesBack(from[1], path, S)
  BY <1>1, <1>3, <1>4, <1>5, <1>6 DEF Restores
<1>. QED
  BY <1>4, <1>7 DEF GivesBack

-----------------------------------------------------------------------------
(***************************************************************************)
(* The query parameters are the last of their keys.                        *)
(***************************************************************************)
\* A text is what is before a delimiter, the delimiter and what is after it; or it
\* has none.
LEMMA SplitInTwo ==
  ASSUME NEW S, NEW text \in Seq(S), NEW delim
  PROVE  /\ Before(text, delim) \in Seq(S) /\ After(text, delim) \in Seq(S)
         /\ \/ text = Before(text, delim) \o <<delim>> \o After(text, delim)
            \/ text = Before(text, delim) /\ After(text, delim) = <<>>
<1>. DEFINE k == Find(text, delim, 1)
            a == SubSeq(text, 1, k - 1)
            b == SubSeq(text, k + 1, Len(text))
<1>1. Before(text, delim) = a /\ After(text, delim) = b
  BY DEF Before, After
<1>2. k \in 1..(Len(text) + 1) /\ (k <= Len(text) => text[k] = delim)
  <2>1. 1 \in 1..(Len(text) + 1)
    OBVIOUS
  <2>. QED
    BY <2>1, FindIs DEF FoundAt
<1>. HIDE DEF k
<1>3. a \in Seq(S) /\ b \in Seq(S) /\ 1 \in 1..(Len(text) + 1)
  BY <1>2
<1>. DEFINE splits == /\ Before(text, delim) \in Seq(S) /\ After(text, delim) \in Seq(S)
                      /\ \/ text = Before(text, delim) \o <<delim>> \o After(text, delim)
                         \/ text = Before(text, delim) /\ After(text, delim) = <<>>
<1>4. ASSUME k = Len(text) + 1 PROVE splits
  <2>1. k - 1 = Len(text) /\ SubSeq(text, 1, Len(text)) = text
    BY <1>4
  <2>2. a = text /\ b = <<>>
    BY <1>4, <2>1
  <2>. HIDE DEF a, b
  <2>. QED
    BY <1>1, <1>3, <2>2
<1>5. ASSUME k <= Len(text) PROVE splits
  <2>. DEFINE c == SubSeq(text, k, Len(text))
  <2>1. a \o c = text
    <3>1. SubSeq(text, 1, k - 1) \o SubSeq(text, k, Len(text)) = SubSeq(text, 1, Len(text))
      BY <1>2, <1>3, CutInTwo
    <3>2. SubSeq(text, 1, Len(text)) = text
      OBVIOUS
    <3>. QED
      BY <3>1, <3>2
  <2>2. SubSeq(text, k, k) \o b = c
    <3>1. k + 1 \in k..(Len(text) + 1) /\ (k + 1) - 1 = k
      BY <1>2, <1>5
    <3>. QED
      BY <1>2, <3>1, CutInTwo
  <2>3. SubSeq(text, k, k) = <<delim>> /\ <<delim>> \in Seq(S)
    <3>1. SubSeq(text, k, k) \in Seq(S) /\ Len(SubSeq(text, k, k)) = 1 /\ SubSeq(text, k, k)[1] = delim
      BY <1>2, <1>5
    <3>. QED
      BY <3>1, SingleIs
  <2>. HIDE DEF a, b, c
  <2>4. (a \o <<delim>>) \o b = a \o (<<delim>> \o b)
    BY <1>3, <2>3, ConcatAssociative
  <2>. QED
    BY <1>1, <1>3, <2>1, <2>2, <2>3, <2>4
<1>. HIDE DEF splits
<1>6. splits
  BY <1>2, <1>4, <1>5
<1>. QED
  BY <1>6 DEF splits

\* The parameter at i, and the parameters from i on when params has those further on.
ParamAt(query, i) == SubSeq(query, i, Find(query, "&", i) - 1)

QueryFrom(query, params, i) ==
  IF i > Len(query) THEN <<>>
  ELSE WithDefault(params[Find(query, "&", i) + 1], Before(ParamAt(query, i), "="), After(ParamAt(query, i), "="))

Queries(params, query) == \A i \in 1..(Len(query) + 2) : params[i] = QueryFrom(query, params, i)

LEMMA QueryFromLater ==
  ASSUME NEW S, NEW query \in Seq(S), NEW f, NEW g, NEW i \in 1..(Len(query) + 2),
         \A j \in (i + 1)..(Len(query) + 2) : f[j] = g[j]
  PROVE  QueryFrom(query, f, i) = QueryFrom(query, g, i)
<1>1. CASE ~(i > Len(query))
  <2>1. i \in 1..(Len(query) + 1)
    BY <1>1
  <2>2. Find(query, "&", i) \in i..(Len(query) + 1)
    BY <2>1, FindIs DEF FoundAt
  <2>3. Find(query, "&", i) + 1 \in (i + 1)..(Len(query) + 2)
    BY <2>1, <2>2
  <2>4. f[Find(query, "&", i) + 1] = g[Find(query, "&", i) + 1]
    BY <2>3
  <2>. QED
    BY <1>1, <2>4 DEF QueryFrom
<1>2. CASE i > Len(query)
  BY <1>2 DEF QueryFrom
<1>. QED
  BY <1>1, <1>2

LEMMA QueryParametersDef ==
  ASSUME NEW S, NEW query \in Seq(S)
  PROVE  \E params : Queries(params, query) /\ QueryParameters(query) = params[1]
<1>. DEFINE N == Len(query) + 2
            D == 1..N
            params == CHOOSE f : f = [i \in D |-> QueryFrom(query, f, i)]
            P(n) == \E f : f = [i \in D |-> f[i]]
                          /\ \A i \in D : i > N - n => f[i] = QueryFrom(query, f, i)
            T == {n \in Nat : P(n)}
<1>0. N \in Nat /\ N >= 1
  OBVIOUS
<1>1. QueryParameters(query) = params[1]
  BY DEF QueryParameters, QueryFrom, ParamAt
<1>2. P(0)
  <2>1. \A i \in D : ~(i > N - 0)
    BY <1>0
  <2>. DEFINE f == [i \in D |-> <<>>]
  <2>2. f = [i \in D |-> f[i]]
    OBVIOUS
  <2>. QED
    BY <2>1, <2>2
<1>3. ASSUME NEW n \in Nat, P(n) PROVE P(n + 1)
  <2>1. PICK f : /\ f = [i \in D |-> f[i]]
                 /\ \A i \in D : i > N - n => f[i] = QueryFrom(query, f, i)
    BY <1>3
  <2>. DEFINE g == [i \in D |-> QueryFrom(query, f, i)]
  <2>2. g = [i \in D |-> g[i]] /\ \A i \in D : g[i] = QueryFrom(query, f, i)
    OBVIOUS
  <2>. HIDE DEF g
  <2>3. ASSUME NEW i \in D, i > N - (n + 1) PROVE g[i] = QueryFrom(query, g, i)
    <3>1. \A j \in (i + 1)..N : j \in D /\ j > N - n
      BY <1>0, <2>3
    <3>2. \A j \in (i + 1)..N : f[j] = g[j]
      BY <2>1, <2>2, <3>1
    <3>3. QueryFrom(query, f, i) = QueryFrom(query, g, i)
      BY <3>2, QueryFromLater
    <3>. QED
      BY <2>2, <3>3
  <2>. QED
    BY <2>2, <2>3
<1>. HIDE DEF P
<1>4. 0 \in T /\ \A n \in Nat : n < N /\ n \in T => n + 1 \in T
  BY <1>2, <1>3
<1>5. N \in T
  <2>. HIDE DEF T
  <2>. QED
    BY <1>0, <1>4, InductionTo
<1>6. \E f : f = [i \in D |-> QueryFrom(query, f, i)]
  <2>1. PICK f : /\ f = [i \in D |-> f[i]]
                 /\ \A i \in D : i > N - N => f[i] = QueryFrom(query, f, i)
    BY <1>5 DEF P
  <2>2. \A i \in D : f[i] = QueryFrom(query, f, i)
    BY <1>0, <2>1
  <2>. QED
    BY <2>1, <2>2
<1>7. params = [i \in D |-> QueryFrom(query, params, i)]
  BY <1>6
<1>. HIDE DEF params
<1>8. \A i \in D : params[i] = QueryFrom(query, params, i)
  BY <1>7
<1>. QED
  BY <1>1, <1>8 DEF Queries

\* Where the query is cut; its pieces from i on.
Cuts(query) == {0, Len(query) + 1} \cup {i \in DOMAIN query : query[i] = "&"}

From(query, i) == {c \in Pieces(query) : c[1] + 1 >= i}

LEMMA PiecesAre ==
  ASSUME NEW S, NEW query \in Seq(S), NEW c
  PROVE  c \in Pieces(query) <=>
           /\ c \in Cuts(query) \X Cuts(query)
           /\ c[1] < c[2] /\ \A k \in (c[1] + 1)..(c[2] - 1) : k \notin Cuts(query)
           /\ c # <<Len(query), Len(query) + 1>>
  BY DEF Pieces, Cuts

\* From a cut on there is the piece up to the next one, and those from there on.
LEMMA NextPiece ==
  ASSUME NEW S, NEW query \in Seq(S), NEW i \in 1..Len(query), i - 1 \in Cuts(query),
         NEW end, FoundAt(query, "&", i, end)
  PROVE  /\ end \in Cuts(query)
         /\ <<i - 1, end>> \in Pieces(query)
         /\ \A d : d \in From(query, i) <=> d \in From(query, end + 1) \/ d = <<i - 1, end>>
<1>1. /\ end \in i..(Len(query) + 1) /\ end \in Nat
      /\ end <= Len(query) => query[end] = "&"
      /\ \A j \in i..(end - 1) : query[j] # "&"
  BY DEF FoundAt
<1>2. \A k \in Cuts(query) : k \in 0..(Len(query) + 1) /\ (k \in 1..Len(query) => query[k] = "&")
  BY DEF Cuts
<1>3. end \in Cuts(query)
  BY <1>1 DEF Cuts
<1>4. \A k \in i..(end - 1) : k \notin Cuts(query)
  <2> SUFFICES ASSUME NEW k \in i..(end - 1), k \in Cuts(query) PROVE FALSE
    OBVIOUS
  <2>1. k \in 1..Len(query) /\ query[k] # "&"
    BY <1>1
  <2>. QED
    BY <1>2, <2>1
<1>. DEFINE c == <<i - 1, end>>
<1>5. c \in Pieces(query)
  <2>1. c[1] = i - 1 /\ c[2] = end /\ (i - 1) + 1 = i /\ i - 1 < end /\ i - 1 # Len(query)
    BY <1>1
  <2>2. c \in Cuts(query) \X Cuts(query) /\ c # <<Len(query), Len(query) + 1>>
    BY <1>3, <2>1
  <2>. HIDE DEF c
  <2>. QED
    BY <1>4, <2>1, <2>2, PiecesAre
<1>6. ASSUME NEW d \in From(query, i) PROVE d \in From(query, end + 1) \/ d = c
  <2>1. /\ d \in Cuts(query) \X Cuts(query) /\ d[1] + 1 >= i /\ d \in Pieces(query)
        /\ d[1] < d[2] /\ \A k \in (d[1] + 1)..(d[2] - 1) : k \notin Cuts(query)
    BY PiecesAre DEF From
  <2>2. d = <<d[1], d[2]>> /\ d[1] \in Cuts(query) /\ d[2] \in Cuts(query)
    BY <2>1
  <2>3. d[1] \in Nat /\ d[2] \in Nat /\ d[1] \notin i..(end - 1) /\ d[2] \notin i..(end - 1)
    BY <1>2, <1>4, <2>2
  <2>4. CASE d[1] >= end
    BY <1>1, <2>1, <2>3, <2>4 DEF From
  <2>5. CASE d[1] = i - 1
    <3>1. d[2] >= end
      BY <1>1, <2>1, <2>3, <2>5
    <3>2. ~(d[2] > end)
      <4> SUFFICES ASSUME d[2] > end PROVE FALSE
        OBVIOUS
      <4>1. end \in (d[1] + 1)..(d[2] - 1)
        BY <1>1, <2>3, <2>5
      <4>. QED
        BY <1>3, <2>1, <4>1
    <3>. QED
      BY <1>1, <2>2, <2>3, <2>5, <3>1, <3>2
  <2>. QED
    BY <1>1, <2>1, <2>3, <2>4, <2>5
<1>7. ASSUME NEW d \in From(query, end + 1) PROVE d \in From(query, i)
  <2>1. d \in Pieces(query) /\ d[1] + 1 >= end + 1 /\ d[1] \in Nat
    <3>1. d \in Pieces(query) /\ d[1] + 1 >= end + 1
      BY DEF From
    <3>2. d[1] \in Cuts(query)
      BY <3>1, PiecesAre
    <3>. QED
      BY <1>2, <3>1, <3>2
  <2>2. d[1] + 1 >= i
    BY <1>1, <2>1
  <2>. QED
    BY <2>1, <2>2 DEF From
<1>8. c \in From(query, i)
  BY <1>5 DEF From
<1>. QED
  BY <1>3, <1>5, <1>6, <1>7, <1>8

KeyOf(query, c) == Before(Piece(query, c), "=")

\* The last of those pieces with its key.
LastOfKey(query, pieces, c) == \A d \in pieces : d[1] > c[1] => KeyOf(query, d) # KeyOf(query, c)

\* got has the keys of the pieces, and the values of the last of each.
Tells(got, query, pieces) ==
  /\ DOMAIN got = {KeyOf(query, d) : d \in pieces}
  /\ \A c \in pieces : LastOfKey(query, pieces, c) => got[KeyOf(query, c)] = After(Piece(query, c), "=")

\* A piece before the others: it counts when its key is none of theirs.
LEMMA TellsMore ==
  ASSUME NEW query, NEW pieces, NEW later, Tells(later, query, pieces),
         NEW c, c[1] \in Nat, \A d \in pieces : d[1] \in Nat /\ c[1] < d[1]
  PROVE  Tells(WithDefault(later, KeyOf(query, c), After(Piece(query, c), "=")), query, pieces \cup {c})
<1>. DEFINE key == KeyOf(query, c)
            value == After(Piece(query, c), "=")
            got == WithDefault(later, key, value)
            all == pieces \cup {c}
<1>1. /\ DOMAIN got = DOMAIN later \cup {key}
      /\ \A n \in DOMAIN later : got[n] = later[n]
      /\ key \notin DOMAIN later => got[key] = value
  <2>. HIDE DEF key, value
  <2>. QED
    BY DEF WithDefault
<1>. HIDE DEF got
<1>2. DOMAIN later = {KeyOf(query, d) : d \in pieces}
  BY DEF Tells
<1>3. DOMAIN got = {KeyOf(query, d) : d \in all}
  BY <1>1, <1>2
<1>4. ASSUME NEW d \in all, LastOfKey(query, all, d) PROVE got[KeyOf(query, d)] = After(Piece(query, d), "=")
  <2>1. CASE d \in pieces
    <3>1. LastOfKey(query, pieces, d)
      BY <1>4 DEF LastOfKey
    <3>2. later[KeyOf(query, d)] = After(Piece(query, d), "=")
      BY <2>1, <3>1 DEF Tells
    <3>3. KeyOf(query, d) \in DOMAIN later
      BY <1>2, <2>1
    <3>. QED
      BY <1>1, <3>2, <3>3
  <2>2. CASE d = c
    <3>1. \A e \in pieces : KeyOf(query, e) # key
      BY <1>4, <2>2 DEF LastOfKey
    <3>2. key \notin DOMAIN later
      <4>. HIDE DEF key
      <4>. QED
        BY <1>2, <3>1
    <3>. QED
      BY <1>1, <2>2, <3>2
  <2>. QED
    BY <2>1, <2>2
<1>. QED
  BY <1>3, <1>4 DEF Tells, got

LEMMA QueryTells ==
  ASSUME NEW S, NEW query \in Seq(S)
  PROVE  Tells(QueryParameters(query), query, Pieces(query))
<1>1. PICK params : Queries(params, query) /\ QueryParameters(query) = params[1]
  BY QueryParametersDef
<1>. DEFINE D == {i \in 1..(Len(query) + 2) : i - 1 \in Cuts(query)}
            measure == [i \in D |-> (Len(query) + 2) - i]
            T == {i \in D : Tells(params[i], query, From(query, i))}
<1>2. measure \in [D -> Nat]
  OBVIOUS
<1>3. \A k \in Cuts(query) : k \in 0..(Len(query) + 1)
  BY DEF Cuts
<1>4. \A c \in Pieces(query) : /\ c[1] \in 0..(Len(query) + 1) /\ c[2] \in 0..(Len(query) + 1)
                               /\ c[1] < c[2] /\ ~(c[1] = Len(query) /\ c[2] = Len(query) + 1)
  BY <1>3, PiecesAre
<1>5. ASSUME NEW i \in D, \A e \in D : measure[e] < measure[i] => e \in T PROVE i \in T
  <2>0. i \in 1..(Len(query) + 2) /\ i - 1 \in Cuts(query) /\ params[i] = QueryFrom(query, params, i)
    BY <1>1 DEF Queries
  <2>1. CASE i > Len(query)
    <3>1. ASSUME NEW c \in From(query, i) PROVE FALSE
      <4>1. c \in Pieces(query) /\ c[1] + 1 >= i
        BY DEF From
      <4>. QED
        BY <1>4, <2>0, <2>1, <4>1
    <3>2. params[i] = <<>> /\ DOMAIN <<>> = {}
      BY <2>0, <2>1 DEF QueryFrom
    <3>3. Tells(params[i], query, From(query, i))
      BY <3>1, <3>2 DEF Tells
    <3>. QED
      BY <3>3
  <2>2. CASE ~(i > Len(query))
    <3>. DEFINE end == Find(query, "&", i)
                c == <<i - 1, end>>
    <3>1. i \in 1..Len(query) /\ i \in 1..(Len(query) + 1)
      BY <2>0, <2>2
    <3>2. FoundAt(query, "&", i, end)
      BY <3>1, FindIs
    <3>3. end \in i..(Len(query) + 1)
      BY <3>2 DEF FoundAt
    <3>4. /\ ParamAt(query, i) = Piece(query, c)
          /\ params[i] = WithDefault(params[end + 1], KeyOf(query, c), After(Piece(query, c), "="))
      <4>1. c[1] = i - 1 /\ c[2] = end /\ (i - 1) + 1 = i
        <5>. HIDE DEF end
        <5>. QED
          BY <3>1
      <4>2. Piece(query, c) = ParamAt(query, i)
        <5>. HIDE DEF c
        <5>. QED
          BY <4>1 DEF Piece, ParamAt
      <4>3. params[i] = WithDefault(params[end + 1], Before(ParamAt(query, i), "="), After(ParamAt(query, i), "="))
        BY <2>0, <2>2, Zenon DEF QueryFrom
      <4>. QED
        BY <4>2, <4>3 DEF KeyOf
    <3>. HIDE DEF end
    <3>5. end \in Cuts(query) /\ From(query, i) = From(query, end + 1) \cup {c}
      <4>1. i - 1 \in Cuts(query)
        BY <2>0
      <4>. HIDE DEF D, T, measure
      <4>2. end \in Cuts(query)
        BY <3>1, <3>2, <4>1, NextPiece
      <4>3. \A d : d \in From(query, i) <=> d \in From(query, end + 1) \/ d = <<i - 1, end>>
        BY <3>1, <3>2, <4>1, NextPiece
      <4>. QED
        BY <4>2, <4>3
    <3>6. end + 1 \in D /\ measure[end + 1] < measure[i]
      <4>1. end + 1 \in 1..(Len(query) + 2) /\ (end + 1) - 1 = end /\ i < end + 1
        BY <3>1, <3>3
      <4>2. end + 1 \in D
        BY <3>5, <4>1
      <4>. QED
        BY <4>1, <4>2
    <3>7. Tells(params[end + 1], query, From(query, end + 1))
      BY <1>5, <3>6
    <3>8. c[1] \in Nat /\ \A d \in From(query, end + 1) : d[1] \in Nat /\ c[1] < d[1]
      <4>1. \A d \in From(query, end + 1) : d \in Pieces(query) /\ d[1] + 1 >= end + 1
        BY DEF From
      <4>2. \A d \in From(query, end + 1) : d[1] \in Nat
        BY <1>4, <4>1
      <4>. QED
        BY <3>1, <3>3, <4>1, <4>2
    <3>. HIDE DEF c
    <3>9. Tells(params[i], query, From(query, i))
      BY <3>4, <3>5, <3>7, <3>8, TellsMore
    <3>. QED
      BY <3>9
  <2>. QED
    BY <2>1, <2>2
<1>6. \A i \in D : i \in T
  <2>. HIDE DEF D, T, measure
  <2>. QED
    BY <1>2, <1>5, MeasureInduction
<1>7. 1 \in D
  BY DEF Cuts
<1>8. Tells(params[1], query, From(query, 1))
  BY <1>6, <1>7
<1>9. From(query, 1) = Pieces(query)
  BY <1>4 DEF From
<1>. QED
  BY <1>1, <1>8, <1>9

\* So each piece has its key among the parameters, and the last of a key its value.
LEMMA QueryIsLast ==
  ASSUME NEW S, NEW query \in Seq(S), NEW c \in Pieces(query)
  PROVE  /\ KeyOf(query, c) \in DOMAIN QueryParameters(query)
         /\ LastOfKey(query, Pieces(query), c) =>
              \/ Piece(query, c) = KeyOf(query, c) \o <<"=">> \o QueryParameters(query)[KeyOf(query, c)]
              \/ Piece(query, c) = KeyOf(query, c) /\ QueryParameters(query)[KeyOf(query, c)] = <<>>
<1>1. Tells(QueryParameters(query), query, Pieces(query))
  BY QueryTells
<1>2. KeyOf(query, c) \in DOMAIN QueryParameters(query)
  BY <1>1 DEF Tells
<1>3. Piece(query, c) \in Seq(S)
  <2>1. c[1] \in 0..(Len(query) + 1) /\ c[2] \in 0..(Len(query) + 1)
    BY PiecesAre DEF Cuts
  <2>. QED
    BY <2>1 DEF Piece
<1>4. ASSUME LastOfKey(query, Pieces(query), c)
      PROVE  QueryParameters(query)[KeyOf(query, c)] = After(Piece(query, c), "=")
  BY <1>1, <1>4 DEF Tells
<1>5. \/ Piece(query, c) = KeyOf(query, c) \o <<"=">> \o After(Piece(query, c), "=")
      \/ Piece(query, c) = KeyOf(query, c) /\ After(Piece(query, c), "=") = <<>>
  BY <1>3, SplitInTwo DEF KeyOf
<1>. QED
  BY <1>2, <1>4, <1>5

\* The first handler that matches is found when any matches, and is one of those.
LEMMA FirstMatches ==
  ASSUME NEW handlers \in Seq(Entry), NEW path
  PROVE  /\ \A k \in First(handlers, path) :
              /\ k \in DOMAIN handlers /\ Matches(handlers[k], path)
              /\ \A j \in DOMAIN handlers : Matches(handlers[j], path) => k <= j
         /\ First(handlers, path) = {} => \A k \in DOMAIN handlers : ~Matches(handlers[k], path)
<1>. DEFINE matching == {k \in DOMAIN handlers : Matches(handlers[k], path)}
<1>0. DOMAIN handlers = 1..Len(handlers) /\ Len(handlers) \in Nat
  OBVIOUS
<1>1. ASSUME NEW k \in First(handlers, path)
      PROVE  /\ k \in DOMAIN handlers /\ Matches(handlers[k], path)
             /\ \A j \in DOMAIN handlers : Matches(handlers[j], path) => k <= j
  <2>1. /\ k \in DOMAIN handlers /\ Matches(handlers[k], path)
        /\ \A j \in 1..(k - 1) : ~Matches(handlers[j], path)
    BY DEF First
  <2>2. ASSUME NEW j \in DOMAIN handlers, Matches(handlers[j], path) PROVE k <= j
    <3>1. k \in Nat /\ j \in Nat /\ j >= 1
      BY <1>0, <2>1
    <3>2. CASE j < k
      BY <2>1, <2>2, <3>1, <3>2
    <3>. QED
      BY <3>1, <3>2
  <2>. QED
    BY <2>1, <2>2
<1>2. ASSUME First(handlers, path) = {}, matching # {} PROVE FALSE
  <2>0. matching \in SUBSET Nat
    BY <1>0
  <2>1. PICK k \in matching : \A j \in matching : k <= j
    <3>. HIDE DEF matching
    <3>. QED
      BY <1>2, <2>0, LeastNatural
  <2>2. \A j \in 1..(k - 1) : ~Matches(handlers[j], path)
    <3> SUFFICES ASSUME NEW j \in 1..(k - 1), Matches(handlers[j], path) PROVE FALSE
      OBVIOUS
    <3>1. j \in DOMAIN handlers /\ j < k
      BY <1>0
    <3>. QED
      BY <1>0, <2>1, <3>1
  <2>. QED
    BY <1>2, <2>2 DEF First
<1>. QED
  BY <1>1, <1>2

-----------------------------------------------------------------------------
\* Nobody appears twice in handlers.
Distinct(handlers) == \A j, k \in DOMAIN handlers : handlers[j].id = handlers[k].id => j = k

Members(handlers) == {handlers[k] : k \in DOMAIN handlers}

\* A permutation of the indices loses none and repeats none.
LEMMA BijectionPermutes ==
  ASSUME NEW n \in Nat, NEW p \in Bijection(1..n, 1..n)
  PROVE  /\ p \in [1..n -> 1..n]
         /\ \A j \in 1..n : \E k \in 1..n : p[k] = j
         /\ \A j, k \in 1..n : p[j] = p[k] => j = k
  BY DEF Bijection, Surjection, Injection, IsInjective

\* Whatever order std::sort chooses, it sorts, and keeps every handler once.
LEMMA SortingKeeps ==
  ASSUME NEW handlers \in Seq(Entry), Distinct(handlers), NEW t \in Sorting(handlers)
  PROVE  t \in Seq(Entry) /\ Sorted(t) /\ Distinct(t) /\ Members(t) = Members(handlers)
<1>. DEFINE n == Len(handlers)
<1>0. DOMAIN handlers = 1..n /\ n \in Nat /\ \A k \in 1..n : handlers[k] \in Entry
  OBVIOUS
<1>1. PICK p \in Bijection(1..n, 1..n) : t = [k \in 1..n |-> handlers[p[k]]]
  BY <1>0 DEF Sorting, Arrangements
<1>2. Sorted(t)
  BY DEF Sorting
<1>. HIDE DEF n
<1>3. /\ p \in [1..n -> 1..n]
      /\ \A j \in 1..n : \E k \in 1..n : p[k] = j
      /\ \A j, k \in 1..n : p[j] = p[k] => j = k
  BY <1>0, <1>1, BijectionPermutes
<1>4. DOMAIN t = 1..n /\ \A k \in 1..n : t[k] = handlers[p[k]] /\ p[k] \in 1..n
  BY <1>1, <1>3
<1>5. t \in Seq(Entry)
  <2>1. t \in [1..n -> Entry]
    BY <1>0, <1>1, <1>4
  <2>. QED
    BY <1>0, <2>1
<1>6. Distinct(t)
  <2>1. ASSUME NEW j \in 1..n, NEW k \in 1..n, t[j].id = t[k].id PROVE j = k
    <3>1. handlers[p[j]].id = handlers[p[k]].id /\ p[j] \in DOMAIN handlers /\ p[k] \in DOMAIN handlers
      BY <1>0, <1>4, <2>1
    <3>2. p[j] = p[k]
      BY <3>1 DEF Distinct
    <3>. QED
      BY <1>3, <3>2
  <2>. QED
    BY <1>4, <2>1 DEF Distinct
<1>7. Members(t) = Members(handlers)
  BY <1>0, <1>3, <1>4 DEF Members
<1>. QED
  BY <1>2, <1>5, <1>6, <1>7

-----------------------------------------------------------------------------
AddedFor(method) == {a[2] : a \in {b \in added : b[1] = method}}

\* RouterInv with what keeps the ids apart: they count the additions.
RoutesInv ==
  /\ resources \in [Method -> Seq(Entry)]
  /\ added \subseteq Method \X Entry /\ IsFiniteSet(added)
  /\ \A a \in added : a[2].id <= Cardinality(added)
  /\ \A method \in Method : /\ Sorted(resources[method])
                            /\ Distinct(resources[method])
                            /\ Members(resources[method]) = AddedFor(method)
  /\ served # Unserved => served.request \in Request

LEMMA RoutesInitInv == RouterInit => RoutesInv
<1> SUFFICES ASSUME RouterInit PROVE RoutesInv
  OBVIOUS
<1>1. resources = [method \in Method |-> <<>>] /\ added = {} /\ served = Unserved
  BY DEF RouterInit
<1>2. \A method \in Method : resources[method] = <<>>
  BY <1>1
<1>3. Sorted(<<>>) /\ Distinct(<<>>) /\ Members(<<>>) = {}
  BY DEF Sorted, Distinct, Members
<1>4. \A method \in Method : AddedFor(method) = {}
  BY <1>1 DEF AddedFor
<1>5. resources \in [Method -> Seq(Entry)]
  BY <1>1
<1>6. added \subseteq Method \X Entry /\ IsFiniteSet(added) /\ \A a \in added : a[2].id <= Cardinality(added)
  BY <1>1, FS_EmptySet
<1>. QED
  BY <1>1, <1>2, <1>3, <1>4, <1>5, <1>6 DEF RoutesInv

\* One resource more for a method.
LEMMA AddKeepsInv ==
  ASSUME RoutesInv, NEW method \in Method, NEW location \in Location,
         NEW kind \in {"static", "dynamic"}, Add(method, location, kind)
  PROVE  RoutesInv'
<1>. DEFINE entry == [location |-> location, kind |-> kind, id |-> Cardinality(added) + 1]
            old == resources[method]
            new == Append(old, entry)
<1>0. /\ Cardinality(added) \in Nat /\ Cardinality(added) < MaxRoutes /\ MaxRoutes \in Nat
      /\ IsFiniteSet(added) /\ added \subseteq Method \X Entry
      /\ UNCHANGED served /\ added' = added \cup {<<method, entry>>}
  BY FS_CardinalityType, RouterAssumption DEF RoutesInv, Add
<1>1. PICK t \in Sorting(new) : resources' = [resources EXCEPT ![method] = t]
  BY DEF Add
<1>2. entry \in Entry /\ entry.id = Cardinality(added) + 1
  BY <1>0 DEF Entry
<1>3. /\ old \in Seq(Entry) /\ Distinct(old) /\ Members(old) = AddedFor(method)
  BY DEF RoutesInv
<1>4. \A k \in DOMAIN old : old[k].id <= Cardinality(added)
  <2>1. \A k \in DOMAIN old : \E a \in added : old[k] = a[2]
    BY <1>3 DEF Members, AddedFor
  <2>. QED
    BY <2>1 DEF RoutesInv
<1>5. \A a \in added : a[2].id \in Nat /\ a[2].id <= Cardinality(added)
  BY <1>0 DEF RoutesInv, Entry
<1>. HIDE DEF entry
<1>6. new \in Seq(Entry) /\ DOMAIN new = 1..(Len(old) + 1) /\ DOMAIN old = 1..Len(old) /\ Len(old) \in Nat
  BY <1>2, <1>3
<1>7. new[Len(old) + 1] = entry /\ \A k \in 1..Len(old) : new[k] = old[k]
  BY <1>2, <1>3
<1>. HIDE DEF new
<1>8. Distinct(new)
  <2>1. \A k \in 1..Len(old) : new[k].id # entry.id
    <3> SUFFICES ASSUME NEW k \in 1..Len(old), old[k].id = entry.id PROVE FALSE
      BY <1>7
    <3>. QED
      BY <1>0, <1>2, <1>4, <1>6
  <2>2. ASSUME NEW j \in 1..Len(old), NEW k \in 1..Len(old), new[j].id = new[k].id PROVE j = k
    <3>1. old[j].id = old[k].id /\ j \in DOMAIN old /\ k \in DOMAIN old
      BY <1>6, <1>7, <2>2
    <3>. QED
      BY <1>3, <3>1 DEF Distinct
  <2>3. \A j \in DOMAIN new : j \in 1..Len(old) \/ j = Len(old) + 1
    BY <1>6
  <2>. QED
    BY <1>7, <2>1, <2>2, <2>3 DEF Distinct
<1>9. Members(new) = Members(old) \cup {entry}
  BY <1>6, <1>7 DEF Members
<1>10. t \in Seq(Entry) /\ Sorted(t) /\ Distinct(t) /\ Members(t) = Members(new)
  BY <1>6, <1>8, SortingKeeps
<1>11. resources' \in [Method -> Seq(Entry)]
  BY <1>1, <1>10 DEF RoutesInv
<1>12. added' \subseteq Method \X Entry /\ IsFiniteSet(added') /\ Cardinality(added') = Cardinality(added) + 1
  <2>1. <<method, entry>> \notin added
    BY <1>0, <1>2, <1>5
  <2>. QED
    BY <1>0, <1>2, <2>1, FS_AddElement
<1>13. \A a \in added' : a[2].id <= Cardinality(added')
  BY <1>0, <1>2, <1>5, <1>12
<1>14. ASSUME NEW m \in Method
       PROVE  Sorted(resources'[m]) /\ Distinct(resources'[m]) /\ Members(resources'[m]) = AddedFor(m)'
  <2>1. \A b : b \in added' <=> b \in added \/ b = <<method, entry>>
    BY <1>0
  <2>2. CASE m = method
    <3>1. AddedFor(m)' = AddedFor(m) \cup {entry}
      <4>1. {b \in added' : b[1] = m} = {b \in added : b[1] = m} \cup {<<method, entry>>}
        BY <2>1, <2>2
      <4>2. <<method, entry>>[2] = entry
        OBVIOUS
      <4>. QED
        BY <4>1, <4>2 DEF AddedFor
    <3>2. resources'[m] = t
      BY <1>1, <2>2 DEF RoutesInv
    <3>. QED
      BY <1>3, <1>9, <1>10, <2>2, <3>1, <3>2
  <2>3. CASE m # method
    <3>1. AddedFor(m)' = AddedFor(m)
      BY <2>1, <2>3 DEF AddedFor
    <3>2. resources'[m] = resources[m]
      BY <1>1, <2>3 DEF RoutesInv
    <3>. QED
      BY <3>1, <3>2 DEF RoutesInv
  <2>. QED
    BY <2>2, <2>3
<1>. QED
  BY <1>0, <1>11, <1>12, <1>13, <1>14 DEF RoutesInv

LEMMA RoutesStepInv == RoutesInv /\ [RouterNext]_rvars => RoutesInv'
<1> SUFFICES ASSUME RoutesInv, [RouterNext]_rvars PROVE RoutesInv'
  OBVIOUS
<1>1. CASE UNCHANGED rvars
  BY <1>1 DEF rvars, RoutesInv, AddedFor
<1>2. ASSUME NEW method \in Method, NEW location \in Location, NEW kind \in {"static", "dynamic"},
             Add(method, location, kind)
      PROVE  RoutesInv'
  BY <1>2, AddKeepsInv
<1>3. ASSUME NEW req \in Request, BadRequest(req) \/ NotFound(req) \/ Serve(req)
      PROVE  RoutesInv'
  <2>1. UNCHANGED <<resources, added>> /\ served'.request \in Request
    BY <1>3 DEF BadRequest, NotFound, Serve
  <2>. QED
    BY <2>1 DEF RoutesInv, AddedFor
<1>. QED
  BY <1>1, <1>2, <1>3 DEF RouterNext

THEOREM RoutesInvariance == RouterSpec => []RoutesInv
  BY RoutesInitInv, RoutesStepInv, PTL DEF RouterSpec

\* The resources of a method are those added for it, each once, the longest
\* locations first, whatever the order of the additions.
THEOREM RoutesAreSorted == RouterSpec => []RouterInv
<1>1. RoutesInv => RouterInv
  BY DEF RoutesInv, RouterInv, Distinct, Members, AddedFor
<1>. QED
  BY <1>1, RoutesInvariance, PTL

-----------------------------------------------------------------------------
\* The candidates are the handlers of the method that match.
LEMMA CandidatesAreHandlers ==
  ASSUME RoutesInv, NEW req \in Request, NEW path
  PROVE  LET handlers == resources[Handled(req.method)]
         IN  /\ handlers \in Seq(Entry) /\ Sorted(handlers)
             /\ Candidates(req, path) =
                  {handlers[k] : k \in {j \in DOMAIN handlers : Matches(handlers[j], path)}}
<1>1. Handled(req.method) \in Method
  BY RouterAssumption DEF Request, Handled
<1>. DEFINE handlers == resources[Handled(req.method)]
<1>2. handlers \in Seq(Entry) /\ Sorted(handlers) /\ Members(handlers) = AddedFor(Handled(req.method))
  BY <1>1 DEF RoutesInv
<1>3. Candidates(req, path) = {e \in AddedFor(Handled(req.method)) : Matches(e, path)}
  BY DEF Candidates, AddedFor
<1>. QED
  BY <1>2, <1>3 DEF Members

\* Routing picks the longest location that matches, because the first of a sorted
\* vector has it; with no match there is no candidate.
LEMMA RoutingIsSpecific ==
  ASSUME RoutesInv, NEW req \in Request, NotFound(req) \/ Serve(req)
  PROVE  MostSpecific'
<1>. DEFINE handlers == resources[Handled(req.method)]
<1>0. UNCHANGED <<resources, added>>
  BY DEF NotFound, Serve
<1>1. CASE NotFound(req)
  <2>1. PICK path : /\ First(handlers, path) = {}
                    /\ served' = [request |-> req, status |-> "not_found", path |-> path]
    BY <1>1 DEF NotFound
  <2>2. \A j \in DOMAIN handlers : ~Matches(handlers[j], path)
    BY <2>1, CandidatesAreHandlers, FirstMatches
  <2>3. Candidates(req, path) = {}
    BY <2>2, CandidatesAreHandlers
  <2>. QED
    BY <2>1, <2>3, <1>0 DEF MostSpecific, Candidates
<1>2. CASE Serve(req)
  <2>1. PICK path : \E k \in First(handlers, path) : \E given \in Given(handlers[k], path) :
               served' = [request |-> req, status |-> "served", path |-> path,
                          by |-> handlers[k], given |-> given]
    BY <1>2 DEF Serve
  <2>2. PICK k \in First(handlers, path) :
          /\ served'.request = req /\ served'.status = "served" /\ served'.path = path
          /\ served'.by = handlers[k]
    BY <2>1
  <2>3. handlers[k] \in Candidates(req, path)
    BY CandidatesAreHandlers, FirstMatches
  <2>4. ASSUME NEW e \in Candidates(req, path) PROVE Len(e.location) <= Len(handlers[k].location)
    <3>1. PICK j \in DOMAIN handlers : e = handlers[j] /\ Matches(handlers[j], path)
      BY CandidatesAreHandlers
    <3>2. k \in DOMAIN handlers /\ k <= j
      BY <3>1, CandidatesAreHandlers, FirstMatches
    <3>3. DOMAIN handlers = 1..Len(handlers) /\ handlers[j] \in Entry /\ handlers[k] \in Entry
      BY <3>1, <3>2, CandidatesAreHandlers
    <3>4. Len(handlers[j].location) \in Nat /\ Len(handlers[k].location) \in Nat
      BY <3>3, RouterAssumption DEF Entry
    <3>5. k < j => Len(handlers[k].location) >= Len(handlers[j].location)
      BY <3>1, <3>2, CandidatesAreHandlers DEF Sorted
    <3>6. k \in Int /\ j \in Int
      BY <3>1, <3>2, <3>3
    <3>7. CASE k = j
      BY <3>1, <3>4, <3>7
    <3>8. CASE k < j
      BY <3>1, <3>4, <3>5, <3>8
    <3>. QED
      BY <3>2, <3>6, <3>7, <3>8
  <2>. QED
    BY <1>0, <2>2, <2>3, <2>4 DEF MostSpecific, Candidates
<1>. QED
  BY <1>1, <1>2

\* For any locations, added in any order, and any request: the most specific
\* resource serves, and none is missed.
THEOREM RoutingIsMostSpecific == RouterSpec => []MostSpecific
<1>1. RouterInit => MostSpecific
  BY DEF RouterInit, MostSpecific
<1>2. RoutesInv /\ MostSpecific /\ [RouterNext]_rvars => MostSpecific'
  <2> SUFFICES ASSUME RoutesInv, MostSpecific, [RouterNext]_rvars PROVE MostSpecific'
    OBVIOUS
  <2>1. CASE UNCHANGED rvars
    BY <2>1 DEF rvars, MostSpecific, Candidates
  <2>2. ASSUME NEW method, NEW location, NEW kind, served = Unserved, Add(method, location, kind)
        PROVE  MostSpecific'
    BY <2>2 DEF Add, MostSpecific
  <2>3. ASSUME NEW req \in Request, BadRequest(req) PROVE MostSpecific'
    <3>1. served'.status = "bad_request"
      BY <2>3 DEF BadRequest
    <3>. QED
      BY <3>1 DEF MostSpecific
  <2>. QED
    BY <2>1, <2>2, <2>3, RoutingIsSpecific DEF RouterNext
<1>. QED
  BY <1>1, <1>2, RoutesInvariance, PTL DEF RouterSpec

-----------------------------------------------------------------------------
\* relative_path() leaves no slash at the start, and nothing it was not given.
LEMMA RelativeIsBare ==
  ASSUME NEW S, NEW path \in Seq(S)
  PROVE  \E n \in 1..(Len(path) + 1) :
           /\ Relative(path) = SubSeq(path, n, Len(path))
           /\ n <= Len(path) => path[n] # "/"
<1>. DEFINE slashes == {i \in DOMAIN path : \A j \in 1..i : path[j] = "/"}
            others == {i \in 1..(Len(path) + 1) : i \notin slashes}
<1>0. DOMAIN path = 1..Len(path) /\ Len(path) \in Nat
  OBVIOUS
<1>1. others \in SUBSET Nat /\ Len(path) + 1 \in others
  BY <1>0
<1>2. PICK n \in others : \A m \in others : n <= m
  <2>. HIDE DEF others
  <2>. QED
    BY <1>1, LeastNatural
<1>3. n \in 1..(Len(path) + 1) /\ n \notin slashes
  OBVIOUS
<1>4. \A i \in 1..(n - 1) : i \in slashes
  <2> SUFFICES ASSUME NEW i \in 1..(n - 1), i \notin slashes PROVE FALSE
    OBVIOUS
  <2>1. i \in others /\ i < n /\ i \in Nat /\ n \in Nat
    BY <1>0, <1>3
  <2>. HIDE DEF others, slashes
  <2>. QED
    BY <1>2, <2>1
<1>5. slashes = 1..(n - 1)
  <2>1. ASSUME NEW i \in slashes PROVE i \in 1..(n - 1)
    <3>1. i \in Nat /\ i >= 1 /\ i <= Len(path) /\ \A j \in 1..i : path[j] = "/"
      BY <1>0
    <3>2. CASE n <= i
      <4>1. n \in DOMAIN path /\ \A j \in 1..n : path[j] = "/"
        BY <1>0, <1>3, <3>1, <3>2
      <4>. QED
        BY <1>3, <4>1
    <3>. QED
      BY <1>3, <3>1, <3>2
  <2>. QED
    BY <1>4, <2>1
<1>6. Cardinality(slashes) = n - 1
  <2>. HIDE DEF slashes
  <2>. QED
    BY <1>3, <1>5, FS_Interval
<1>7. Relative(path) = SubSeq(path, n, Len(path))
  <2>1. Relative(path) = SubSeq(path, Cardinality(slashes) + 1, Len(path))
    BY DEF Relative
  <2>2. Cardinality(slashes) + 1 = n
    BY <1>3, <1>6
  <2>. HIDE DEF slashes
  <2>. QED
    BY <2>1, <2>2
<1>8. n <= Len(path) => path[n] # "/"
  <2> SUFFICES ASSUME n <= Len(path), path[n] = "/" PROVE FALSE
    OBVIOUS
  <2>1. \A j \in 1..(n - 1) : path[j] = "/"
    BY <1>0, <1>4
  <2>2. n \in DOMAIN path /\ \A j \in 1..n : path[j] = "/"
    BY <1>0, <1>3, <2>1
  <2>. QED
    BY <1>3, <2>2
<1>. QED
  BY <1>3, <1>7, <1>8

\* What is cut off a path has ".." only where the path has it.
LEMMA CutKeepsOutDots ==
  ASSUME NEW S, NEW path \in Seq(S), NEW n \in 1..(Len(path) + 1),
         \A i \in 1..(Len(path) - 1) : ~(path[i] = "." /\ path[i + 1] = ".")
  PROVE  LET file == SubSeq(path, n, Len(path))
         IN  /\ file \in Seq(S) /\ Len(file) = Len(path) - n + 1
             /\ \A i \in 1..Len(file) : file[i] = path[n + i - 1]
             /\ \A i \in 1..(Len(file) - 1) : ~(file[i] = "." /\ file[i + 1] = ".")
<1>. DEFINE file == SubSeq(path, n, Len(path))
<1>1. /\ file \in Seq(S) /\ Len(file) = Len(path) - n + 1
      /\ \A i \in 1..Len(file) : file[i] = path[n + i - 1]
  OBVIOUS
<1>. HIDE DEF file
<1>2. ASSUME NEW i \in 1..(Len(file) - 1), file[i] = ".", file[i + 1] = "." PROVE FALSE
  <2>0. i \in 1..Len(file) /\ i + 1 \in 1..Len(file) /\ n + (i + 1) - 1 = (n + i - 1) + 1
    BY <1>1
  <2>1. path[n + i - 1] = "." /\ path[(n + i - 1) + 1] = "."
    BY <1>1, <1>2, <2>0
  <2>2. n + i - 1 \in 1..(Len(path) - 1)
    BY <1>1
  <2>. QED
    BY <2>1, <2>2
<1>. QED
  BY <1>1, <1>2 DEF file

\* The file given to a static resource that matches an acceptable path.
LEMMA StaticIsContained ==
  ASSUME NEW S, NEW path \in Seq(S), Acceptable(path),
         NEW entry \in Entry, entry.kind = "static", Matches(entry, path),
         NEW given \in Given(entry, path)
  PROVE  /\ given.file # <<>> => given.file[1] # "/"
         /\ \A i \in 1..(Len(given.file) - 1) : ~(given.file[i] = "." /\ given.file[i + 1] = ".")
<1>. DEFINE rest == SubSeq(path, Len(entry.location) + 1, Len(path))
<1>1. given.file = Relative(rest)
  BY DEF Given
<1>2. Len(entry.location) + 1 \in 1..(Len(path) + 1)
  <2>1. Len(entry.location) \in Nat /\ Len(entry.location) <= Len(path)
    BY RouterAssumption DEF Entry, Matches, IsPrefix
  <2>. QED
    BY <2>1
<1>3. \A i \in 1..(Len(path) - 1) : ~(path[i] = "." /\ path[i + 1] = ".")
  BY DEF Acceptable
<1>4. /\ rest \in Seq(S)
      /\ \A i \in 1..(Len(rest) - 1) : ~(rest[i] = "." /\ rest[i + 1] = ".")
  BY <1>2, <1>3, CutKeepsOutDots
<1>. HIDE DEF rest
<1>5. PICK n \in 1..(Len(rest) + 1) : /\ Relative(rest) = SubSeq(rest, n, Len(rest))
                                      /\ n <= Len(rest) => rest[n] # "/"
  BY <1>4, RelativeIsBare
<1>. DEFINE file == SubSeq(rest, n, Len(rest))
<1>6. /\ file \in Seq(S) /\ Len(file) = Len(rest) - n + 1
      /\ \A i \in 1..Len(file) : file[i] = rest[n + i - 1]
      /\ \A i \in 1..(Len(file) - 1) : ~(file[i] = "." /\ file[i + 1] = ".")
  BY <1>4, CutKeepsOutDots
<1>7. given.file = file
  BY <1>1, <1>5
<1>. HIDE DEF file
<1>8. ASSUME file # <<>> PROVE file[1] # "/"
  <2>1. 1 \in 1..Len(file) /\ n <= Len(rest)
    BY <1>4, <1>6, <1>8
  <2>2. file[1] = rest[n]
    BY <1>6, <2>1
  <2>. QED
    BY <1>5, <2>1, <2>2
<1>. QED
  BY <1>6, <1>7, <1>8

\* For any locations and uris, however they are escaped: no file name with "..", none
\* that is absolute.
THEOREM FilesAreContained == RouterSpec => []Contained
<1>1. RouterInit => Contained
  BY DEF RouterInit, Contained
<1>2. RoutesInv /\ Contained /\ [RouterNext]_rvars => Contained'
  <2> SUFFICES ASSUME RoutesInv, Contained, [RouterNext]_rvars PROVE Contained'
    OBVIOUS
  <2>1. CASE UNCHANGED rvars
    BY <2>1 DEF rvars, Contained
  <2>2. ASSUME NEW method, NEW location, NEW kind, served = Unserved, Add(method, location, kind)
        PROVE  Contained'
    BY <2>2 DEF Add, Contained
  <2>3. ASSUME NEW req \in Request, BadRequest(req) \/ NotFound(req) PROVE Contained'
    BY <2>3 DEF BadRequest, NotFound, Contained
  <2>4. ASSUME NEW req \in Request, Serve(req) PROVE Contained'
    <3>. DEFINE handlers == resources[Handled(req.method)]
    <3>1. PICK path \in UrlDecode(req.uri) :
            /\ Acceptable(path)
            /\ \E k \in First(handlers, path) : \E given \in Given(handlers[k], path) :
                 served' = [request |-> req, status |-> "served", path |-> path,
                            by |-> handlers[k], given |-> given]
      BY <2>4 DEF Serve
    <3>2. PICK k \in First(handlers, path) :
            /\ served'.by = handlers[k] /\ served'.given \in Given(handlers[k], path)
      BY <3>1
    <3>3. path \in Seq(Text)
      BY DecodeType, RouterAssumption DEF Request
    <3>4. handlers[k] \in Entry /\ Matches(handlers[k], path)
      BY CandidatesAreHandlers, FirstMatches
    <3>5. CASE handlers[k].kind # "static"
      BY <3>2, <3>5 DEF Contained
    <3>6. CASE handlers[k].kind = "static"
      BY <3>1, <3>2, <3>3, <3>4, <3>6, StaticIsContained DEF Contained
    <3>. QED
      BY <3>5, <3>6
  <2>. QED
    BY <2>1, <2>2, <2>3, <2>4 DEF RouterNext
<1>. QED
  BY <1>1, <1>2, RoutesInvariance, PTL DEF RouterSpec

-----------------------------------------------------------------------------
\* What is given to a dynamic resource that matches.
LEMMA DynamicSeesRequest ==
  ASSUME NEW path \in Seq(Text), NEW entry \in Entry, entry.kind = "dynamic",
         NEW given \in Given(entry, path)
  PROVE  /\ NamedOnce(entry.location, given.resources) =>
              \E trailing \in {<<>>, <<"/">>} :
                 Filled(entry.location, given.resources) \o trailing = Before(path, "?")
         /\ given.querystring = QueryParameters(After(path, "?"))
<1>1. entry.location \in Seq(Text)
  <2>1. entry.location \in Seq(STRING)
    BY RouterAssumption DEF Entry
  <2>2. STRING \subseteq Text
    BY DEF Text
  <2>. QED
    BY <2>1, <2>2, SeqMonotone
<1>2. Before(path, "?") \in Seq(Text)
  BY SplitInTwo
<1>3. PICK params \in MatchPattern(entry.location, Before(path, "?")) :
        given = [resources |-> params, querystring |-> QueryParameters(After(path, "?"))]
  BY DEF Given
<1>. QED
  BY <1>1, <1>2, <1>3, FilledIsPath

\* For any locations and uris: what a dynamic resource is given says what the path
\* was, and the last of each key in the query.
THEOREM HandlersSeeRequest == RouterSpec => []HandlerSeesRequest
<1>1. RouterInit => HandlerSeesRequest
  BY DEF RouterInit, HandlerSeesRequest
<1>2. RoutesInv /\ HandlerSeesRequest /\ [RouterNext]_rvars => HandlerSeesRequest'
  <2> SUFFICES ASSUME RoutesInv, HandlerSeesRequest, [RouterNext]_rvars PROVE HandlerSeesRequest'
    OBVIOUS
  <2>1. CASE UNCHANGED rvars
    BY <2>1 DEF rvars, HandlerSeesRequest
  <2>2. ASSUME NEW method, NEW location, NEW kind, served = Unserved, Add(method, location, kind)
        PROVE  HandlerSeesRequest'
    BY <2>2 DEF Add, HandlerSeesRequest
  <2>3. ASSUME NEW req \in Request, BadRequest(req) \/ NotFound(req) PROVE HandlerSeesRequest'
    BY <2>3 DEF BadRequest, NotFound, HandlerSeesRequest
  <2>4. ASSUME NEW req \in Request, Serve(req) PROVE HandlerSeesRequest'
    <3>. DEFINE handlers == resources[Handled(req.method)]
    <3>1. PICK path \in UrlDecode(req.uri) :
            \E k \in First(handlers, path) : \E given \in Given(handlers[k], path) :
              served' = [request |-> req, status |-> "served", path |-> path,
                         by |-> handlers[k], given |-> given]
      BY <2>4 DEF Serve
    <3>2. PICK k \in First(handlers, path) :
            /\ served'.by = handlers[k] /\ served'.given \in Given(handlers[k], path)
            /\ served'.path = path
      BY <3>1
    <3>3. path \in Seq(Text)
      BY DecodeType, RouterAssumption DEF Request
    <3>4. handlers[k] \in Entry
      BY CandidatesAreHandlers, FirstMatches
    <3>5. CASE handlers[k].kind # "dynamic"
      BY <3>2, <3>5 DEF HandlerSeesRequest
    <3>6. CASE handlers[k].kind = "dynamic"
      <4>. DEFINE entry == handlers[k]
                  given == served'.given
                  query == After(path, "?")
      <4>1. /\ NamedOnce(entry.location, given.resources) =>
                 \E trailing \in {<<>>, <<"/">>} :
                    Filled(entry.location, given.resources) \o trailing = Before(path, "?")
            /\ given.querystring = QueryParameters(query)
        BY <3>2, <3>3, <3>4, <3>6, DynamicSeesRequest
      <4>2. query \in Seq(Text)
        BY <3>3, SplitInTwo
      <4>3. \A c \in Pieces(query) :
              /\ KeyOf(query, c) \in DOMAIN QueryParameters(query)
              /\ LastOfKey(query, Pieces(query), c) =>
                   \/ Piece(query, c) = KeyOf(query, c) \o <<"=">> \o QueryParameters(query)[KeyOf(query, c)]
                   \/ Piece(query, c) = KeyOf(query, c) /\ QueryParameters(query)[KeyOf(query, c)] = <<>>
        BY <4>2, QueryIsLast
      <4>. QED
        BY <3>2, <4>1, <4>3 DEF HandlerSeesRequest, KeyOf, LastOfKey
    <3>. QED
      BY <3>5, <3>6
  <2>. QED
    BY <2>1, <2>2, <2>3, <2>4 DEF RouterNext
<1>. QED
  BY <1>1, <1>2, RoutesInvariance, PTL DEF RouterSpec

-----------------------------------------------------------------------------
(***************************************************************************)
(* url_decode reads a uri character by character.                          *)
(***************************************************************************)
LEMMA ListsMore ==
  ASSUME NEW S, NEW T, NEW s, Lists(s, T), NEW i \in Nat, FirstOf(i, S, T), NEW t, t = <<i>> \o s
  PROVE  /\ Lists(t, S) /\ Len(t) = Len(s) + 1 /\ t[1] = i
         /\ \A k \in 1..Len(s) : t[k + 1] = s[k]
<1>0. s \in Seq(Nat) /\ Len(s) \in Nat
  BY DEF Lists
<1>1. t \in Seq(Nat) /\ Len(t) = Len(s) + 1 /\ t[1] = i /\ \A k \in 1..Len(s) : t[k + 1] = s[k]
  BY <1>0
<1>2. /\ \A k \in 1..Len(s) : s[k] \in T
      /\ \A x \in T : i < x
      /\ \A x : x \in S <=> x \in T \/ x = i
  BY DEF Lists, FirstOf
<1>3. \A j \in 1..Len(t) : j = 1 \/ (j - 1 \in 1..Len(s) /\ t[j] = s[j - 1])
  <2> SUFFICES ASSUME NEW j \in 1..Len(t), j # 1 PROVE j - 1 \in 1..Len(s) /\ t[j] = s[j - 1]
    OBVIOUS
  <2>1. j - 1 \in 1..Len(s) /\ (j - 1) + 1 = j
    BY <1>0, <1>1
  <2>. QED
    BY <1>1, <2>1
<1>4. ASSUME NEW j \in 1..Len(t), NEW k \in 1..Len(t), j < k PROVE t[j] < t[k]
  <2>1. k - 1 \in 1..Len(s) /\ t[k] = s[k - 1]
    BY <1>3, <1>4
  <2>2. CASE j = 1
    BY <1>1, <1>2, <2>1, <2>2
  <2>3. CASE j # 1
    <3>1. j - 1 \in 1..Len(s) /\ t[j] = s[j - 1] /\ j - 1 < k - 1
      BY <1>3, <1>4, <2>3
    <3>. QED
      BY <2>1, <3>1 DEF Lists
  <2>. QED
    BY <2>2, <2>3
<1>5. ASSUME NEW x PROVE x \in S <=> \E k \in 1..Len(t) : t[k] = x
  <2>1. ASSUME x \in S PROVE \E k \in 1..Len(t) : t[k] = x
    <3>1. CASE x = i
      <4>1. 1 \in 1..Len(t)
        BY <1>0, <1>1
      <4>. QED
        BY <1>1, <3>1, <4>1
    <3>2. CASE x \in T
      <4>1. PICK k \in 1..Len(s) : s[k] = x
        BY <3>2 DEF Lists
      <4>2. k + 1 \in 1..Len(t) /\ t[k + 1] = x
        BY <1>0, <1>1, <4>1
      <4>. QED
        BY <4>2
    <3>. QED
      BY <1>2, <2>1, <3>1, <3>2
  <2>2. ASSUME NEW k \in 1..Len(t), t[k] = x PROVE x \in S
    BY <1>1, <1>2, <1>3, <2>2
  <2>. QED
    BY <2>1, <2>2
<1>6. Lists(t, S)
  BY <1>1, <1>4, <1>5 DEF Lists
<1>. QED
  BY <1>1, <1>6

\* From i on: the places of characters, whether they are spelled in order, what
\* they are when s lists the places.
PlacesFrom(in, i) == {k \in CharacterPlaces(in) : k >= i}

SpelledFrom(in, i) == \A k \in DOMAIN in : k >= i /\ in[k] = "%" => EscapeAt(in, k)

Characters(in, s) == [n \in 1..Len(s) |-> Character(in, s[n])]

Exact(from, in, i) ==
  IF SpelledFrom(in, i) THEN \E s : Lists(s, PlacesFrom(in, i)) /\ from[i] = {Characters(in, s)}
  ELSE from[i] = {}

\* The unit at a place, if it is one, ends where the next begins.
LEMMA UnitIsCharacter ==
  ASSUME NEW in \in Seq(STRING), NEW i \in CharacterPlaces(in)
  PROVE  \/ in[i] = "%" /\ ~EscapeAt(in, i) /\ Unit(in, i) = {}
         \/ \E next \in (i + 1)..(Len(in) + 1) :
              /\ Unit(in, i) = {<<Character(in, i), next>>}
              /\ next \in CharacterPlaces(in) \/ next = Len(in) + 1
              /\ \A k : k \in PlacesFrom(in, i) <=> k \in PlacesFrom(in, next) \/ k = i
              /\ SpelledFrom(in, i) <=> SpelledFrom(in, next)
<1>0. i \in 1..Len(in) /\ DOMAIN in = 1..Len(in) /\ Len(in) \in Nat
  BY DEF CharacterPlaces
<1>1. \A k : k \in CharacterPlaces(in) <=>
        k \in 1..Len(in) /\ (k >= 2 => in[k - 1] # "%") /\ (k >= 3 => in[k - 2] # "%")
  <2>1. ASSUME NEW k \in 1..Len(in)
        PROVE  (\A p \in {k - 2, k - 1} \cap DOMAIN in : in[p] # "%") <=>
                 (k >= 2 => in[k - 1] # "%") /\ (k >= 3 => in[k - 2] # "%")
    <3>1. /\ k - 1 \in DOMAIN in <=> k >= 2
          /\ k - 2 \in DOMAIN in <=> k >= 3
      BY <1>0
    <3>. QED
      BY <3>1
  <2>. QED
    BY <1>0, <2>1 DEF CharacterPlaces
<1>2. CASE in[i] # "%"
  <2>1. Unit(in, i) = {<<Character(in, i), i + 1>>}
    <3>1. CASE in[i] = "+"
      BY <1>2, <3>1 DEF Unit, Character
    <3>2. CASE in[i] # "+"
      BY <1>2, <3>2 DEF Unit, Character
    <3>. QED
      BY <3>1, <3>2
  <2>2. i + 1 \in CharacterPlaces(in) \/ i + 1 = Len(in) + 1
    <3> SUFFICES ASSUME i + 1 # Len(in) + 1 PROVE i + 1 \in CharacterPlaces(in)
      OBVIOUS
    <3>1. i + 1 \in 1..Len(in) /\ (i + 1) - 1 = i /\ (i + 1) - 2 = i - 1 /\ (i + 1 >= 3 => i >= 2)
      BY <1>0
    <3>. QED
      BY <1>1, <1>2, <3>1
  <2>3. \A k : k \in PlacesFrom(in, i) <=> k \in PlacesFrom(in, i + 1) \/ k = i
    BY <1>0, <1>1 DEF PlacesFrom
  <2>4. SpelledFrom(in, i) <=> SpelledFrom(in, i + 1)
    BY <1>0, <1>2 DEF SpelledFrom
  <2>5. i + 1 \in (i + 1)..(Len(in) + 1)
    BY <1>0
  <2>. QED
    BY <2>1, <2>2, <2>3, <2>4, <2>5
<1>3. CASE in[i] = "%" /\ ~EscapeAt(in, i)
  BY <1>3 DEF Unit
<1>4. CASE in[i] = "%" /\ EscapeAt(in, i)
  <2>1. Unit(in, i) = {<<Character(in, i), i + 3>>}
    BY <1>4 DEF Unit, Character
  <2>2. i + 2 <= Len(in) /\ in[i + 1] # "%" /\ in[i + 2] # "%"
    <3>1. "%" \notin HexDigit
      <4>1. \A k \in 1..16 : Hexadecimal[k] # "%"
        BY DEF Hexadecimal
      <4>. QED
        BY <4>1 DEF HexDigit
    <3>. QED
      BY <1>4, <3>1 DEF EscapeAt
  <2>3. i + 3 \in CharacterPlaces(in) \/ i + 3 = Len(in) + 1
    <3> SUFFICES ASSUME i + 3 # Len(in) + 1 PROVE i + 3 \in CharacterPlaces(in)
      OBVIOUS
    <3>1. i + 3 \in 1..Len(in) /\ (i + 3) - 1 = i + 2 /\ (i + 3) - 2 = i + 1
      BY <1>0, <2>2
    <3>. QED
      BY <1>1, <2>2, <3>1
  <2>4. i + 1 \notin CharacterPlaces(in) /\ i + 2 \notin CharacterPlaces(in)
    <3>1. (i + 1) - 1 = i /\ (i + 2) - 2 = i /\ i + 1 >= 2 /\ i + 2 >= 3
      BY <1>0
    <3>. QED
      BY <1>1, <1>4, <3>1
  <2>5. \A k \in Nat : k >= i => k = i \/ k = i + 1 \/ k = i + 2 \/ k >= i + 3
    BY <1>0
  <2>6. \A k : k \in PlacesFrom(in, i) <=> k \in PlacesFrom(in, i + 3) \/ k = i
    <3>1. \A k : k \in CharacterPlaces(in) => k \in Nat
      BY <1>1
    <3>2. \A k \in Nat : k >= i + 3 => k >= i
      BY <1>0
    <3>3. i >= i
      BY <1>0
    <3>. QED
      BY <2>4, <2>5, <3>1, <3>2, <3>3 DEF PlacesFrom
  <2>7. SpelledFrom(in, i) <=> SpelledFrom(in, i + 3)
    <3>1. SpelledFrom(in, i) => SpelledFrom(in, i + 3)
      BY <1>0 DEF SpelledFrom
    <3>2. ASSUME SpelledFrom(in, i + 3), NEW k \in DOMAIN in, k >= i, in[k] = "%" PROVE EscapeAt(in, k)
      BY <1>0, <1>4, <2>2, <2>5, <3>2 DEF SpelledFrom
    <3>. QED
      BY <3>1, <3>2 DEF SpelledFrom
  <2>8. i + 3 \in (i + 1)..(Len(in) + 1)
    BY <1>0, <2>2
  <2>. QED
    BY <2>1, <2>3, <2>6, <2>7, <2>8
<1>. QED
  BY <1>2, <1>3, <1>4

LEMMA ExactStep ==
  ASSUME NEW in \in Seq(STRING), NEW from, Decodes(from, in), NEW i \in CharacterPlaces(in),
         \A j \in (i + 1)..(Len(in) + 1) : j \in CharacterPlaces(in) \/ j = Len(in) + 1 => Exact(from, in, j)
  PROVE  Exact(from, in, i)
<1>0. i \in 1..Len(in) /\ i \in 1..(Len(in) + 1) /\ DOMAIN in = 1..Len(in) /\ Len(in) \in Nat
  BY DEF CharacterPlaces
<1>1. from[i] = DecodesFrom(in, from, i)
  BY <1>0 DEF Decodes
<1>2. \A text : text \in from[i] <=> UnitAndRest(text, in, from, i)
  BY <1>0, <1>1, DecodesFromIs
<1>3. CASE in[i] = "%" /\ ~EscapeAt(in, i) /\ Unit(in, i) = {}
  <2>1. ~SpelledFrom(in, i)
    BY <1>0, <1>3 DEF SpelledFrom
  <2>2. from[i] = {}
    BY <1>2, <1>3 DEF UnitAndRest
  <2>. QED
    BY <2>1, <2>2 DEF Exact
<1>4. ASSUME NEW next \in (i + 1)..(Len(in) + 1),
             Unit(in, i) = {<<Character(in, i), next>>},
             next \in CharacterPlaces(in) \/ next = Len(in) + 1,
             \A k : k \in PlacesFrom(in, i) <=> k \in PlacesFrom(in, next) \/ k = i,
             SpelledFrom(in, i) <=> SpelledFrom(in, next)
      PROVE  Exact(from, in, i)
  <2>1. Exact(from, in, next)
    BY <1>4
  <2>. DEFINE c == Character(in, i)
  <2>2. \A text : text \in from[i] <=> \E out \in from[next] : text = <<c>> \o out
    <3>1. <<c, next>>[1] = c /\ <<c, next>>[2] = next
      OBVIOUS
    <3>. HIDE DEF c
    <3>2. \A text : UnitAndRest(text, in, from, i) <=> \E out \in from[next] : text = <<c>> \o out
      BY <1>4, <3>1, Zenon DEF UnitAndRest, c
    <3>. QED
      BY <1>2, <3>2
  <2>3. CASE ~SpelledFrom(in, i)
    <3>1. from[next] = {}
      BY <1>4, <2>1, <2>3 DEF Exact
    <3>2. from[i] = {}
      BY <2>2, <3>1
    <3>. QED
      BY <2>3, <3>2 DEF Exact
  <2>4. CASE SpelledFrom(in, i)
    <3>1. PICK s : Lists(s, PlacesFrom(in, next)) /\ from[next] = {Characters(in, s)}
      BY <1>4, <2>1, <2>4 DEF Exact
    <3>. DEFINE t == <<i>> \o s
    <3>2. \A x \in PlacesFrom(in, next) : i < x
      BY <1>0 DEF PlacesFrom, CharacterPlaces
    <3>3. /\ Lists(t, PlacesFrom(in, i)) /\ Len(t) = Len(s) + 1 /\ t[1] = i
          /\ \A k \in 1..Len(s) : t[k + 1] = s[k]
      <4>1. i \in Nat
        BY <1>0
      <4>2. FirstOf(i, PlacesFrom(in, i), PlacesFrom(in, next))
        BY <1>4, <3>2 DEF FirstOf
      <4>3. Lists(s, PlacesFrom(in, next))
        BY <3>1
      <4>4. t = <<i>> \o s
        OBVIOUS
      <4>. HIDE DEF c, t
      <4>5. Lists(t, PlacesFrom(in, i))
        BY ONLY <4>1, <4>2, <4>3, <4>4, ListsMore, Zenon
      <4>6. Len(t) = Len(s) + 1
        BY <4>1, <4>2, <4>3, <4>4, ListsMore
      <4>7. t[1] = i
        BY <4>1, <4>2, <4>3, <4>4, ListsMore
      <4>8. \A k \in 1..Len(s) : t[k + 1] = s[k]
        BY <4>1, <4>2, <4>3, <4>4, ListsMore
      <4>. QED
        BY <4>5, <4>6, <4>7, <4>8
    <3>. HIDE DEF t
    <3>4. Len(s) \in Nat
      BY <3>1 DEF Lists
    <3>5. Characters(in, t) = <<c>> \o Characters(in, s)
      <4>. DEFINE new == Characters(in, t)
                  old == Characters(in, s)
      <4>1. \A k \in 1..Len(s) : old[k] = Character(in, s[k])
        BY DEF Characters
      <4>2. new = [n \in 1..(Len(s) + 1) |-> Character(in, t[n])] /\ old = [n \in 1..Len(s) |-> Character(in, s[n])]
        BY <3>3 DEF Characters
      <4>3. Len(old) = Len(s) /\ old \in Seq({Character(in, s[n]) : n \in 1..Len(s)})
        BY <3>4, <4>2
      <4>. HIDE DEF new, old, c
      <4>4. <<c>> \o old = [n \in 1..(Len(s) + 1) |-> IF n = 1 THEN c ELSE old[n - 1]]
        BY <3>4, <4>3
      <4>5. ASSUME NEW n \in 1..(Len(s) + 1)
            PROVE  Character(in, t[n]) = IF n = 1 THEN c ELSE old[n - 1]
        <5>1. CASE n = 1
          BY <3>3, <5>1 DEF c
        <5>2. CASE n # 1
          <6>1. n - 1 \in 1..Len(s) /\ (n - 1) + 1 = n
            BY <3>4, <5>2
          <6>. QED
            BY <3>3, <4>1, <5>2, <6>1
        <5>. QED
          BY <5>1, <5>2
      <4>6. new = <<c>> \o old
        BY <4>2, <4>4, <4>5
      <4>. QED
        BY <4>6 DEF new, old
    <3>6. from[i] = {Characters(in, t)}
      <4>. HIDE DEF c
      <4>. QED
        BY <2>2, <3>1, <3>5
    <3>. QED
      BY <2>4, <3>3, <3>6 DEF Exact
  <2>. QED
    BY <2>3, <2>4
<1>. QED
  BY <1>3, <1>4, UnitIsCharacter

LEMMA DecodesExactly ==
  ASSUME NEW in \in Seq(STRING)
  PROVE  UrlDecode(in) =
           IF Spelled(in)
           THEN {[n \in 1..Cardinality(CharacterPlaces(in)) |-> Character(in, Nth(CharacterPlaces(in), n))]}
           ELSE {}
<1>1. PICK from : Decodes(from, in) /\ UrlDecode(in) = from[1]
  BY UrlDecodeDef
<1>. DEFINE N == Len(in) + 1
            D == {i \in 1..N : i \in CharacterPlaces(in) \/ i = N}
            measure == [i \in D |-> N - i]
            T == {i \in D : Exact(from, in, i)}
<1>2. measure \in [D -> Nat]
  OBVIOUS
<1>3. ASSUME NEW i \in D, \A e \in D : measure[e] < measure[i] => e \in T PROVE i \in T
  <2>1. CASE i = N
    <3>1. from[i] = {<<>>}
      BY <1>1, <2>1 DEF Decodes, DecodesFrom
    <3>2. SpelledFrom(in, i) /\ PlacesFrom(in, i) = {}
      BY <2>1 DEF SpelledFrom, PlacesFrom, CharacterPlaces
    <3>3. Lists(<<>>, {}) /\ Characters(in, <<>>) = <<>>
      BY DEF Lists, Characters
    <3>. QED
      BY <3>1, <3>2, <3>3 DEF Exact
  <2>2. CASE i # N
    <3>1. i \in CharacterPlaces(in)
      BY <2>2
    <3>2. ASSUME NEW j \in (i + 1)..(Len(in) + 1), j \in CharacterPlaces(in) \/ j = Len(in) + 1
          PROVE  Exact(from, in, j)
      <4>1. j \in D /\ measure[j] < measure[i]
        BY <3>2
      <4>. QED
        BY <1>3, <4>1
    <3>3. Exact(from, in, i)
      BY <1>1, <3>1, <3>2, ExactStep
    <3>. QED
      BY <3>3
  <2>. QED
    BY <2>1, <2>2
<1>4. \A i \in D : i \in T
  <2>. HIDE DEF D, T, measure
  <2>. QED
    BY <1>2, <1>3, MeasureInduction
<1>5. 1 \in D
  BY DEF CharacterPlaces
<1>6. Exact(from, in, 1)
  BY <1>4, <1>5
<1>7. PlacesFrom(in, 1) = CharacterPlaces(in)
  BY DEF PlacesFrom, CharacterPlaces
<1>8. SpelledFrom(in, 1) <=> Spelled(in)
  BY DEF SpelledFrom, Spelled, EscapeAt
<1>9. CASE ~Spelled(in)
  BY <1>1, <1>6, <1>8, <1>9 DEF Exact
<1>10. CASE Spelled(in)
  <2>1. PICK s : Lists(s, CharacterPlaces(in)) /\ from[1] = {Characters(in, s)}
    BY <1>6, <1>7, <1>8, <1>10 DEF Exact
  <2>2. /\ Cardinality(CharacterPlaces(in)) = Len(s)
        /\ \A n \in 1..Len(s) : Nth(CharacterPlaces(in), n) = s[n]
    BY <2>1, ListsNth
  <2>3. Characters(in, s) =
          [n \in 1..Cardinality(CharacterPlaces(in)) |-> Character(in, Nth(CharacterPlaces(in), n))]
    BY <2>2 DEF Characters
  <2>. QED
    BY <1>1, <1>10, <2>1, <2>3
<1>. QED
  BY <1>9, <1>10

\* For any uri of any length: url_decode accepts it when every '%' is followed by
\* two hexadecimal digits, and then each character stands for itself or its escape.
THEOREM DecodingIsExact == RouterSpec => []DecodeIsExact
<1>1. RoutesInv => DecodeIsExact
  <2> SUFFICES ASSUME RoutesInv, served # Unserved PROVE DecodeIsExact
    BY DEF DecodeIsExact
  <2>1. served.request.uri \in Seq(STRING)
    BY RouterAssumption DEF RoutesInv, Request
  <2>. QED
    BY <2>1, DecodesExactly DEF DecodeIsExact
<1>. QED
  BY <1>1, RoutesInvariance, PTL

-----------------------------------------------------------------------------
(***************************************************************************)
(* match_pattern by segments.  From any place of the location and of the   *)
(* path on, it finds the parameters that the segments from there mean      *)
(* (Meant): by induction on what is left of the location.                  *)
(***************************************************************************)
\* What the cuts of a text are listed by.
CutsAre(s, text, i) ==
  /\ Lists(s, CutsFrom(text, i))
  /\ Len(s) \in Nat /\ Len(s) >= 2 /\ s[1] = i - 1

\* A place more, which is a cut.
LEMMA CutsMore ==
  ASSUME NEW S, NEW text \in Seq(S), NEW k \in 1..Len(text), text[k] = "/",
         NEW s, CutsAre(s, text, k + 1), NEW t, t = <<k - 1>> \o s
  PROVE  /\ CutsAre(t, text, k) /\ Len(t) = Len(s) + 1
         /\ \A m \in 1..Len(s) : t[m + 1] = s[m]
<1>0. Len(text) \in Nat /\ k - 1 \in Nat /\ (k + 1) - 1 = k
  OBVIOUS
<1>1. CutsFrom(text, k + 1) = {k, Len(text) + 1} \cup {m \in (k + 1)..Len(text) : text[m] = "/"}
  BY <1>0 DEF CutsFrom
<1>2. CutsFrom(text, k) = {k - 1, Len(text) + 1} \cup {m \in k..Len(text) : text[m] = "/"}
  BY DEF CutsFrom
<1>3. FirstOf(k - 1, CutsFrom(text, k), CutsFrom(text, k + 1))
  BY <1>0, <1>1, <1>2 DEF FirstOf
<1>4. Lists(s, CutsFrom(text, k + 1)) /\ Len(s) \in Nat /\ Len(s) >= 2
  BY DEF CutsAre
<1>5. Lists(t, CutsFrom(text, k))
  BY <1>0, <1>3, <1>4, ListsMore
<1>6. Len(t) = Len(s) + 1 /\ t[1] = k - 1
  BY <1>0, <1>3, <1>4, ListsMore
<1>7. \A m \in 1..Len(s) : t[m + 1] = s[m]
  BY <1>0, <1>3, <1>4, ListsMore
<1>. QED
  BY <1>4, <1>5, <1>6, <1>7 DEF CutsAre

\* Some places more, none of them a cut: only the first cut is elsewhere.
LEMMA CutsBefore ==
  ASSUME NEW S, NEW text \in Seq(S), NEW j \in 1..(Len(text) + 1), NEW k \in 1..j,
         \A m \in k..(j - 1) : text[m] # "/",
         NEW s, CutsAre(s, text, j), NEW t, t = [s EXCEPT ![1] = k - 1]
  PROVE  /\ CutsAre(t, text, k) /\ Len(t) = Len(s)
         /\ \A m \in 2..Len(s) : t[m] = s[m]
<1>0. Len(text) \in Nat /\ j \in Nat /\ k \in Nat /\ k - 1 \in Nat /\ k - 1 <= j - 1
  OBVIOUS
<1>1. s \in Seq(Nat) /\ Len(s) \in Nat /\ Len(s) >= 2 /\ s[1] = j - 1
  BY DEF CutsAre, Lists
<1>2. t \in Seq(Nat) /\ Len(t) = Len(s) /\ t[1] = k - 1 /\ \A m \in 2..Len(s) : t[m] = s[m]
  BY <1>0, <1>1
<1>3. \A m \in 2..Len(s) : s[m] > j - 1
  BY <1>1 DEF CutsAre, Lists
<1>4. ASSUME NEW a \in 1..Len(t), NEW b \in 1..Len(t), a < b PROVE t[a] < t[b]
  <2>1. b \in 2..Len(s) /\ t[b] = s[b] /\ s[b] \in Nat
    BY <1>1, <1>2, <1>4
  <2>2. CASE a = 1
    BY <1>0, <1>2, <1>3, <2>1, <2>2
  <2>3. CASE a # 1
    <3>1. a \in 2..Len(s) /\ t[a] = s[a]
      BY <1>1, <1>2, <2>3
    <3>2. s[a] < s[b]
      BY <1>2, <1>4 DEF CutsAre, Lists
    <3>. QED
      BY <2>1, <3>1, <3>2
  <2>. QED
    BY <2>2, <2>3
<1>5. \A x : x \in CutsFrom(text, k) <=> x = k - 1 \/ (x # j - 1 /\ x \in CutsFrom(text, j))
  <2>1. CutsFrom(text, j) = {j - 1, Len(text) + 1} \cup {m \in j..Len(text) : text[m] = "/"}
    BY DEF CutsFrom
  <2>2. CutsFrom(text, k) = {k - 1, Len(text) + 1} \cup {m \in k..Len(text) : text[m] = "/"}
    BY DEF CutsFrom
  <2>3. \A m \in k..Len(text) : text[m] = "/" => m \in j..Len(text)
    BY <1>0
  <2>. QED
    BY <1>0, <2>1, <2>2, <2>3
<1>6. ASSUME NEW x PROVE x \in CutsFrom(text, k) <=> \E m \in 1..Len(t) : t[m] = x
  <2>1. x \in CutsFrom(text, j) <=> \E m \in 1..Len(s) : s[m] = x
    BY DEF CutsAre, Lists
  <2>2. (\E m \in 1..Len(t) : t[m] = x) <=> x = k - 1 \/ \E m \in 2..Len(s) : s[m] = x
    <3>1. 1 \in 1..Len(t) /\ \A m \in 1..Len(t) : m = 1 \/ m \in 2..Len(s)
      BY <1>1, <1>2
    <3>2. \A m \in 2..Len(s) : m \in 1..Len(t)
      BY <1>1, <1>2
    <3>. QED
      BY <1>2, <3>1, <3>2
  <2>3. (x # j - 1 /\ \E m \in 1..Len(s) : s[m] = x) <=> \E m \in 2..Len(s) : s[m] = x
    <3>1. \A m \in 1..Len(s) : m = 1 \/ m \in 2..Len(s)
      BY <1>1
    <3>2. \A m \in 2..Len(s) : m \in 1..Len(s) /\ s[m] # j - 1
      BY <1>0, <1>1, <1>3
    <3>. QED
      BY <1>1, <3>1, <3>2
  <2>. QED
    BY <1>5, <2>1, <2>2, <2>3
<1>7. Lists(t, CutsFrom(text, k))
  BY <1>2, <1>4, <1>6 DEF Lists
<1>. QED
  BY <1>1, <1>2, <1>7 DEF CutsAre

\* After the last place only the end is a cut.
LEMMA CutsAtEnd ==
  ASSUME NEW S, NEW text \in Seq(S)
  PROVE  CutsAre(<<Len(text), Len(text) + 1>>, text, Len(text) + 1)
<1>. DEFINE N == Len(text)
            s == <<N, N + 1>>
<1>0. N \in Nat /\ (N + 1) - 1 = N
  OBVIOUS
<1>1. CutsFrom(text, N + 1) = {N, N + 1}
  BY <1>0 DEF CutsFrom
<1>2. s \in Seq(Nat) /\ Len(s) = 2 /\ s[1] = N /\ s[2] = N + 1
  BY <1>0
<1>. HIDE DEF s
<1>3. \A x : x \in {N, N + 1} <=> \E k \in 1..Len(s) : s[k] = x
  BY <1>2
<1>4. \A j, k \in 1..Len(s) : j < k => s[j] < s[k]
  BY <1>0, <1>2
<1>. QED
  BY <1>0, <1>1, <1>2, <1>3, <1>4 DEF CutsAre, Lists, s

\* The cuts of a text from any place on can be listed.
LEMMA CutsListed ==
  ASSUME NEW S, NEW text \in Seq(S), NEW i \in 1..(Len(text) + 1)
  PROVE  \E s : CutsAre(s, text, i)
<1>. DEFINE N == Len(text)
            T == {n \in Nat : n <= N => \E s : CutsAre(s, text, (N + 1) - n)}
<1>0. N \in Nat
  OBVIOUS
<1>1. 0 \in T
  <2>1. CutsAre(<<Len(text), Len(text) + 1>>, text, Len(text) + 1)
    BY CutsAtEnd
  <2>2. (N + 1) - 0 = Len(text) + 1
    BY <1>0
  <2>. QED
    BY <2>1, <2>2
<1>2. ASSUME NEW n \in Nat, n < (N + 1) - i, n \in T PROVE n + 1 \in T
  <2>. DEFINE k == (N + 1) - (n + 1)
  <2>0. (N + 1) - n = k + 1 /\ k \in 1..N /\ n <= N
    BY <1>0, <1>2
  <2>1. PICK s : CutsAre(s, text, k + 1)
    BY <1>2, <2>0
  <2>. HIDE DEF k
  <2>2. CASE text[k] = "/"
    <3>1. CutsAre(<<k - 1>> \o s, text, k)
      BY <2>0, <2>1, <2>2, CutsMore
    <3>. QED
      BY <3>1 DEF k
  <2>3. CASE text[k] # "/"
    <3>1. k + 1 \in 1..(Len(text) + 1) /\ k \in 1..(k + 1) /\ \A m \in k..((k + 1) - 1) : text[m] # "/"
      BY <2>0, <2>3
    <3>2. CutsAre([s EXCEPT ![1] = k - 1], text, k)
      BY <2>1, <3>1, CutsBefore
    <3>. QED
      BY <3>2 DEF k
  <2>. QED
    BY <2>2, <2>3
<1>3. (N + 1) - i \in Nat /\ (N + 1) - i <= N /\ (N + 1) - ((N + 1) - i) = i
  BY <1>0
<1>4. (N + 1) - i \in T
  <2>. HIDE DEF T
  <2>. QED
    BY <1>1, <1>2, <1>3, InductionTo
<1>. QED
  BY <1>3, <1>4

\* The segments, from the cuts.
LEMMA SegmentsAre ==
  ASSUME NEW S, NEW text \in Seq(S), NEW i \in 1..(Len(text) + 1), NEW s, CutsAre(s, text, i)
  PROVE  /\ SegmentsFrom(text, i) \in Seq(Seq(S))
         /\ Len(SegmentsFrom(text, i)) = Len(s) - 1
         /\ \A n \in 1..(Len(s) - 1) : SegmentsFrom(text, i)[n] = SubSeq(text, s[n] + 1, s[n + 1] - 1)
<1>. DEFINE cuts == CutsFrom(text, i)
            segs == SegmentsFrom(text, i)
            N == Len(s) - 1
<1>1. Lists(s, cuts) /\ Len(s) \in Nat /\ Len(s) >= 2
  BY DEF CutsAre
<1>2. segs = [n \in 1..(Cardinality(cuts) - 1) |-> SubSeq(text, Nth(cuts, n) + 1, Nth(cuts, n + 1) - 1)]
  BY DEF SegmentsFrom
<1>. HIDE DEF cuts, segs
<1>3. Cardinality(cuts) = Len(s) /\ \A n \in 1..Len(s) : Nth(cuts, n) = s[n]
  BY <1>1, ListsNth
<1>4. \A n \in 1..N : n \in 1..Len(s) /\ n + 1 \in 1..Len(s)
  BY <1>1
<1>5. segs = [n \in 1..N |-> SubSeq(text, s[n] + 1, s[n + 1] - 1)]
  BY <1>2, <1>3, <1>4
<1>6. ASSUME NEW n \in 1..N PROVE SubSeq(text, s[n] + 1, s[n + 1] - 1) \in Seq(S)
  <2>1. s[n] \in cuts /\ s[n + 1] \in cuts
    BY <1>1, <1>4 DEF Lists
  <2>2. \A x \in cuts : x \in 0..(Len(text) + 1)
    BY DEF cuts, CutsFrom
  <2>. QED
    BY <2>1, <2>2
<1>7. N \in Nat
  BY <1>1
<1>8. segs \in Seq(Seq(S)) /\ Len(segs) = N /\ \A n \in 1..N : segs[n] = SubSeq(text, s[n] + 1, s[n + 1] - 1)
  <2>. DEFINE f == [n \in 1..N |-> SubSeq(text, s[n] + 1, s[n + 1] - 1)]
  <2>1. \A n \in 1..N : f[n] = SubSeq(text, s[n] + 1, s[n + 1] - 1)
    OBVIOUS
  <2>2. f \in [1..N -> Seq(S)]
    BY <1>6
  <2>3. segs = f
    BY <1>5
  <2>. HIDE DEF f, N
  <2>. QED
    BY <1>7, <2>1, <2>2, <2>3
<1>. QED
  BY <1>8 DEF segs

\* A part of a text in two.
LEMMA PartInTwo ==
  ASSUME NEW S, NEW text \in Seq(S), NEW e \in 0..Len(text),
         NEW i \in 1..(e + 1), NEW j \in i..(e + 1)
  PROVE  /\ SubSeq(text, i, j - 1) \in Seq(S) /\ SubSeq(text, j, e) \in Seq(S)
         /\ SubSeq(text, i, j - 1) \o SubSeq(text, j, e) = SubSeq(text, i, e)
<1>. DEFINE u == SubSeq(text, 1, e)
<1>1. u \in Seq(S) /\ Len(u) = e /\ \A k \in 1..e : u[k] = text[k]
  OBVIOUS
<1>. HIDE DEF u
<1>2. ASSUME NEW a \in 1..(e + 1), NEW b \in (a - 1)..e PROVE SubSeq(text, a, b) = SubSeq(u, a, b)
  <2>1. SubSeq(text, a, b) \in Seq(S) /\ SubSeq(u, a, b) \in Seq(S)
    BY <1>1
  <2>2. Len(SubSeq(text, a, b)) = Len(SubSeq(u, a, b))
    BY <1>1
  <2>3. ASSUME NEW k \in 1..Len(SubSeq(text, a, b)) PROVE SubSeq(text, a, b)[k] = SubSeq(u, a, b)[k]
    BY <1>1
  <2>. QED
    BY <2>1, <2>2, <2>3, SeqEqual
<1>3. /\ SubSeq(text, i, j - 1) = SubSeq(u, i, j - 1) /\ SubSeq(text, j, e) = SubSeq(u, j, e)
      /\ SubSeq(text, i, e) = SubSeq(u, i, e)
  <2>1. i \in 1..(e + 1) /\ j \in 1..(e + 1) /\ j - 1 \in (i - 1)..e /\ e \in (j - 1)..e /\ e \in (i - 1)..e
    OBVIOUS
  <2>. QED
    BY <1>2, <2>1
<1>. QED
  BY <1>1, <1>3, CutInTwo

\* The segments from a place, when it is a cut, when none is up to another place, and
\* at the end.
Follows(segs, later) ==
  /\ Len(segs) = Len(later) + 1 /\ segs[1] = <<>>
  /\ \A n \in 1..Len(later) : segs[n + 1] = later[n]

Begins(segs, later, head) ==
  /\ Len(segs) = Len(later) /\ segs[1] = head \o later[1]
  /\ \A n \in 2..Len(later) : segs[n] = later[n]

\* The segments of a text are parts of it, one at least.
LEMMA SegmentsType ==
  ASSUME NEW S, NEW text \in Seq(S), NEW i \in 1..(Len(text) + 1)
  PROVE  /\ SegmentsFrom(text, i) \in Seq(Seq(S))
         /\ Len(SegmentsFrom(text, i)) \in Nat /\ Len(SegmentsFrom(text, i)) >= 1
<1>1. PICK s : CutsAre(s, text, i)
  BY CutsListed
<1>2. SegmentsFrom(text, i) \in Seq(Seq(S)) /\ Len(SegmentsFrom(text, i)) = Len(s) - 1
  BY <1>1, SegmentsAre
<1>. QED
  BY <1>1, <1>2 DEF CutsAre

\* At the end of a text there is one segment, and it is empty.
LEMMA SegmentsAtEnd ==
  ASSUME NEW S, NEW text \in Seq(S)
  PROVE  /\ Len(SegmentsFrom(text, Len(text) + 1)) = 1
         /\ SegmentsFrom(text, Len(text) + 1)[1] = <<>>
<1>. DEFINE s == <<Len(text), Len(text) + 1>>
            segs == SegmentsFrom(text, Len(text) + 1)
<1>1. CutsAre(s, text, Len(text) + 1) /\ Len(text) + 1 \in 1..(Len(text) + 1)
  BY CutsAtEnd
<1>2. Len(s) = 2 /\ s[1] = Len(text) /\ s[2] = Len(text) + 1
  OBVIOUS
<1>. HIDE DEF s, segs
<1>3. Len(segs) = Len(s) - 1
  BY <1>1, SegmentsAre DEF segs
<1>4. \A n \in 1..(Len(s) - 1) : segs[n] = SubSeq(text, s[n] + 1, s[n + 1] - 1)
  BY <1>1, SegmentsAre DEF segs
<1>5. segs[1] = <<>>
  <2>1. segs[1] = SubSeq(text, Len(text) + 1, (Len(text) + 1) - 1)
    BY <1>2, <1>4
  <2>2. SubSeq(text, Len(text) + 1, (Len(text) + 1) - 1) = <<>>
    OBVIOUS
  <2>. QED
    BY <2>1, <2>2
<1>. QED
  BY <1>2, <1>3, <1>5 DEF segs

\* A slash more is an empty segment more.
LEMMA SegmentsMore ==
  ASSUME NEW S, NEW text \in Seq(S), NEW i \in 1..Len(text), text[i] = "/"
  PROVE  Follows(SegmentsFrom(text, i), SegmentsFrom(text, i + 1))
<1>. DEFINE segs == SegmentsFrom(text, i)
            later == SegmentsFrom(text, i + 1)
<1>0. i \in 1..(Len(text) + 1) /\ i + 1 \in 1..(Len(text) + 1)
  OBVIOUS
<1>1. PICK s : CutsAre(s, text, i + 1)
  BY <1>0, CutsListed
<1>. DEFINE t == <<i - 1>> \o s
<1>2. t = <<i - 1>> \o s
  OBVIOUS
<1>. HIDE DEF t, segs, later
<1>3. CutsAre(t, text, i)
  BY <1>1, <1>2, CutsMore
<1>4. Len(t) = Len(s) + 1
  BY <1>1, <1>2, CutsMore
<1>5. \A m \in 1..Len(s) : t[m + 1] = s[m]
  BY <1>1, <1>2, CutsMore
<1>6. Len(segs) = Len(t) - 1
  BY <1>0, <1>3, SegmentsAre DEF segs
<1>7. \A n \in 1..(Len(t) - 1) : segs[n] = SubSeq(text, t[n] + 1, t[n + 1] - 1)
  BY <1>0, <1>3, SegmentsAre DEF segs
<1>8. Len(later) = Len(s) - 1
  BY <1>0, <1>1, SegmentsAre DEF later
<1>9. \A n \in 1..(Len(s) - 1) : later[n] = SubSeq(text, s[n] + 1, s[n + 1] - 1)
  BY <1>0, <1>1, SegmentsAre DEF later
<1>10. Len(s) \in Nat /\ Len(s) >= 2 /\ s[1] = (i + 1) - 1 /\ t[1] = i - 1
  BY <1>1, <1>3 DEF CutsAre
<1>11. segs[1] = <<>>
  <2>1. 1 \in 1..(Len(t) - 1) /\ 1 \in 1..Len(s)
    BY <1>4, <1>10
  <2>2. t[1 + 1] = s[1]
    BY <1>5, <2>1
  <2>3. segs[1] = SubSeq(text, t[1] + 1, t[1 + 1] - 1)
    BY <1>7, <2>1
  <2>4. t[1] + 1 = i /\ t[1 + 1] - 1 = i - 1
    BY <1>10, <2>2
  <2>5. SubSeq(text, i, i - 1) = <<>>
    OBVIOUS
  <2>. QED
    BY <2>3, <2>4, <2>5
<1>12. ASSUME NEW n \in 1..Len(later) PROVE segs[n + 1] = later[n]
  <2>1. n \in 1..(Len(s) - 1) /\ n + 1 \in 1..(Len(t) - 1) /\ n \in 1..Len(s) /\ n + 1 \in 1..Len(s)
    BY <1>4, <1>8, <1>10
  <2>2. t[n + 1] = s[n] /\ t[(n + 1) + 1] = s[n + 1]
    BY <1>5, <2>1
  <2>. QED
    BY <1>7, <1>9, <2>1, <2>2
<1>. QED
  BY <1>4, <1>6, <1>8, <1>10, <1>11, <1>12 DEF Follows, segs, later

\* What comes before without a slash belongs to the first segment.
LEMMA SegmentsBefore ==
  ASSUME NEW S, NEW text \in Seq(S), NEW j \in 1..(Len(text) + 1), NEW i \in 1..j,
         \A m \in i..(j - 1) : text[m] # "/"
  PROVE  Begins(SegmentsFrom(text, i), SegmentsFrom(text, j), SubSeq(text, i, j - 1))
<1>. DEFINE segs == SegmentsFrom(text, i)
            later == SegmentsFrom(text, j)
<1>0. i \in 1..(Len(text) + 1) /\ Len(text) \in Nat
  OBVIOUS
<1>1. PICK s : CutsAre(s, text, j)
  BY CutsListed
<1>. DEFINE t == [s EXCEPT ![1] = i - 1]
<1>2. t = [s EXCEPT ![1] = i - 1]
  OBVIOUS
<1>. HIDE DEF t, segs, later
<1>3. CutsAre(t, text, i)
  BY <1>1, <1>2, CutsBefore
<1>4. Len(t) = Len(s)
  BY <1>1, <1>2, CutsBefore
<1>5. \A m \in 2..Len(s) : t[m] = s[m]
  BY <1>1, <1>2, CutsBefore
<1>6. Len(segs) = Len(t) - 1
  BY <1>0, <1>3, SegmentsAre DEF segs
<1>7. \A n \in 1..(Len(t) - 1) : segs[n] = SubSeq(text, t[n] + 1, t[n + 1] - 1)
  BY <1>0, <1>3, SegmentsAre DEF segs
<1>8. Len(later) = Len(s) - 1
  BY <1>1, SegmentsAre DEF later
<1>9. \A n \in 1..(Len(s) - 1) : later[n] = SubSeq(text, s[n] + 1, s[n + 1] - 1)
  BY <1>1, SegmentsAre DEF later
<1>10. Len(s) \in Nat /\ Len(s) >= 2 /\ s[1] = j - 1 /\ t[1] = i - 1
  BY <1>1, <1>3 DEF CutsAre
<1>11. segs[1] = SubSeq(text, i, j - 1) \o later[1]
  <2>1. 1 \in 1..(Len(t) - 1) /\ 1 \in 1..(Len(s) - 1) /\ 2 \in 2..Len(s) /\ 1 + 1 = 2
    BY <1>4, <1>10
  <2>2. segs[1] = SubSeq(text, t[1] + 1, t[2] - 1) /\ later[1] = SubSeq(text, s[1] + 1, s[2] - 1)
    BY <1>7, <1>9, <2>1
  <2>3. t[1] + 1 = i /\ s[1] + 1 = j /\ t[2] = s[2]
    BY <1>0, <1>5, <1>10, <2>1
  <2>4. s[2] - 1 \in 0..Len(text) /\ j <= (s[2] - 1) + 1
    <3>1. s[1] < s[2] /\ s[2] \in CutsFrom(text, j)
      BY <1>1, <1>10 DEF CutsAre, Lists
    <3>2. s[2] \in 0..(Len(text) + 1)
      BY <1>0, <3>1 DEF CutsFrom
    <3>. QED
      BY <1>0, <1>10, <3>1, <3>2
  <2>. DEFINE e == s[2] - 1
  <2>5. e \in 0..Len(text) /\ i \in 1..(e + 1) /\ j \in i..(e + 1)
    BY <2>4
  <2>. HIDE DEF e
  <2>6. SubSeq(text, i, j - 1) \o SubSeq(text, j, e) = SubSeq(text, i, e)
    BY <2>5, PartInTwo
  <2>. QED
    BY <2>2, <2>3, <2>6 DEF e
<1>12. ASSUME NEW n \in 2..Len(later) PROVE segs[n] = later[n]
  <2>1. n \in 1..(Len(s) - 1) /\ n \in 1..(Len(t) - 1) /\ n \in 2..Len(s) /\ n + 1 \in 2..Len(s)
    BY <1>4, <1>8, <1>10
  <2>. QED
    BY <1>5, <1>7, <1>9, <2>1
<1>. QED
  BY <1>4, <1>6, <1>8, <1>11, <1>12 DEF Begins, segs, later

\* There is one first place of a delimiter.
LEMMA FoundOnce ==
  ASSUME NEW S, NEW text \in Seq(S), NEW delim, NEW from \in 1..(Len(text) + 1), NEW k,
         FoundAt(text, delim, from, k)
  PROVE  Find(text, delim, from) = k
<1>. DEFINE f == Find(text, delim, from)
<1>1. FoundAt(text, delim, from, f)
  BY FindIs
<1>. HIDE DEF f
<1>2. f \in Nat /\ k \in Nat /\ f \in from..(Len(text) + 1) /\ k \in from..(Len(text) + 1) /\ Len(text) \in Nat
  BY <1>1 DEF FoundAt
<1>3. ~(f < k)
  <2> SUFFICES ASSUME f < k PROVE FALSE
    OBVIOUS
  <2>1. f \in from..(k - 1) /\ f <= Len(text)
    BY <1>2
  <2>. QED
    BY <1>1, <2>1 DEF FoundAt
<1>4. ~(k < f)
  <2> SUFFICES ASSUME k < f PROVE FALSE
    OBVIOUS
  <2>1. k \in from..(f - 1) /\ k <= Len(text)
    BY <1>2
  <2>. QED
    BY <1>1, <2>1 DEF FoundAt
<1>. QED
  BY <1>2, <1>3, <1>4 DEF f

\* What a segment says of a text, by its places.
Colon(segment) == Find(segment, ":", 1)

SegmentSays(x, y, f) ==
  /\ f \in 1..(Len(x) + 1)
  /\ HasParameter(x) <=> f <= Len(x)
  /\ NameOf(x) = SubSeq(x, f + 1, Len(x)) /\ ValueOf(x, y) = SubSeq(y, f, Len(y))
  /\ HasParameter(x) => (SegmentFits(x, y) <=> f - 1 <= Len(y) /\ \A k \in 1..(f - 1) : x[k] = y[k])
  /\ ~HasParameter(x) => (SegmentFits(x, y) <=> y = x)

\* It says so, of any text.
LEMMA SegmentIs ==
  ASSUME NEW S, NEW x \in Seq(S), NEW y \in Seq(S)
  PROVE  SegmentSays(x, y, Colon(x))
<1>. DEFINE f == Colon(x)
<1>1. FoundAt(x, ":", 1, f)
  <2>1. 1 \in 1..(Len(x) + 1)
    OBVIOUS
  <2>. QED
    BY <2>1, FindIs DEF Colon
<1>. HIDE DEF f
<1>2. f \in 1..(Len(x) + 1) /\ Len(x) \in Nat /\ Len(y) \in Nat
  BY <1>1 DEF FoundAt
<1>3. HasParameter(x) <=> f <= Len(x)
  <2>1. ASSUME f <= Len(x) PROVE HasParameter(x)
    BY <1>1, <1>2, <2>1 DEF FoundAt, HasParameter
  <2>2. ASSUME HasParameter(x) PROVE f <= Len(x)
    <3>1. PICK k \in 1..Len(x) : x[k] = ":"
      BY <2>2 DEF HasParameter
    <3>2. k \notin 1..(f - 1)
      BY <1>1, <3>1 DEF FoundAt
    <3>. QED
      BY <1>2, <3>2
  <2>. QED
    BY <2>1, <2>2
<1>4. NameOf(x) = SubSeq(x, f + 1, Len(x)) /\ ValueOf(x, y) = SubSeq(y, f, Len(y))
  BY DEF NameOf, After, ValueOf, Colon, f
<1>5. ASSUME HasParameter(x)
      PROVE  SegmentFits(x, y) <=> f - 1 <= Len(y) /\ \A k \in 1..(f - 1) : x[k] = y[k]
  <2>. DEFINE b == SubSeq(x, 1, f - 1)
  <2>1. b \in Seq(S) /\ Len(b) = f - 1 /\ \A k \in 1..(f - 1) : b[k] = x[k]
    BY <1>2
  <2>2. SegmentFits(x, y) <=> IsPrefix(b, y)
    BY <1>5 DEF SegmentFits, Before, Colon, f
  <2>. HIDE DEF b
  <2>3. ASSUME IsPrefix(b, y) PROVE f - 1 <= Len(y) /\ \A k \in 1..(f - 1) : x[k] = y[k]
    <3>1. Len(b) <= Len(y) /\ SubSeq(b, 1, Len(b)) = SubSeq(y, 1, Len(b))
      BY <2>3 DEF IsPrefix
    <3>2. \A k \in 1..Len(b) : SubSeq(b, 1, Len(b))[k] = b[k] /\ SubSeq(y, 1, Len(b))[k] = y[k]
      BY <2>1, <3>1
    <3>. QED
      BY <2>1, <3>1, <3>2
  <2>4. ASSUME f - 1 <= Len(y), \A k \in 1..(f - 1) : x[k] = y[k] PROVE IsPrefix(b, y)
    <3>1. SubSeq(b, 1, Len(b)) = SubSeq(y, 1, Len(b))
      <4>1. SubSeq(b, 1, Len(b)) \in Seq(S) /\ SubSeq(y, 1, Len(b)) \in Seq(S)
        BY <2>1, <2>4, <1>2
      <4>2. Len(SubSeq(b, 1, Len(b))) = Len(SubSeq(y, 1, Len(b)))
        BY <2>1, <2>4, <1>2
      <4>3. ASSUME NEW k \in 1..Len(SubSeq(b, 1, Len(b))) PROVE SubSeq(b, 1, Len(b))[k] = SubSeq(y, 1, Len(b))[k]
        BY <2>1, <2>4, <1>2
      <4>. QED
        BY <4>1, <4>2, <4>3, SeqEqual
    <3>. QED
      BY <2>1, <2>4, <3>1 DEF IsPrefix
  <2>. QED
    BY <2>2, <2>3, <2>4
<1>6. ~HasParameter(x) => (SegmentFits(x, y) <=> y = x)
  BY DEF SegmentFits
<1>. QED
  BY <1>2, <1>3, <1>4, <1>5, <1>6 DEF SegmentSays, f

\* a says of b what x says of y.
Alike(a, b, x, y) ==
  /\ HasParameter(a) <=> HasParameter(x)
  /\ NameOf(a) = NameOf(x)
  /\ ValueOf(a, b) = ValueOf(x, y)
  /\ SegmentFits(a, b) <=> SegmentFits(x, y)

\* A character more, which is no ':', on both.
LEMMA LiteralMore ==
  ASSUME NEW S, NEW c \in S, c # ":", NEW x \in Seq(S), NEW y \in Seq(S),
         NEW a, a = <<c>> \o x, NEW b, b = <<c>> \o y
  PROVE  Alike(a, b, x, y)
<1>1. /\ a \in Seq(S) /\ Len(a) = Len(x) + 1 /\ a[1] = c /\ \A k \in 1..Len(x) : a[k + 1] = x[k]
      /\ b \in Seq(S) /\ Len(b) = Len(y) + 1 /\ b[1] = c /\ \A k \in 1..Len(y) : b[k + 1] = y[k]
      /\ Len(x) \in Nat /\ Len(y) \in Nat
  OBVIOUS
<1>. DEFINE f == Colon(x)
<1>2. FoundAt(x, ":", 1, f)
  <2>1. 1 \in 1..(Len(x) + 1)
    OBVIOUS
  <2>. QED
    BY <2>1, FindIs DEF Colon
<1>. HIDE DEF f
<1>3. f \in 1..(Len(x) + 1) /\ \A k \in 1..(f - 1) : x[k] # ":"
  BY <1>2 DEF FoundAt
<1>4. Colon(a) = f + 1
  <2>1. f + 1 <= Len(a) => a[f + 1] = ":"
    BY <1>1, <1>2, <1>3 DEF FoundAt
  <2>2. ASSUME NEW k \in 1..((f + 1) - 1) PROVE a[k] # ":"
    <3>1. CASE k = 1
      BY <1>1, <3>1
    <3>2. CASE k # 1
      <4>1. k - 1 \in 1..(f - 1) /\ k - 1 \in 1..Len(x) /\ (k - 1) + 1 = k
        BY <1>1, <1>3, <3>2
      <4>. QED
        BY <1>1, <1>3, <4>1
    <3>. QED
      BY <3>1, <3>2
  <2>3. f + 1 \in 1..(Len(a) + 1) /\ 1 \in 1..(Len(a) + 1)
    BY <1>1, <1>3
  <2>4. FoundAt(a, ":", 1, f + 1)
    BY <2>1, <2>2, <2>3 DEF FoundAt
  <2>. QED
    BY <1>1, <2>3, <2>4, FoundOnce DEF Colon
<1>5. SegmentSays(x, y, f) /\ SegmentSays(a, b, f + 1)
  <2>1. SegmentSays(x, y, Colon(x))
    BY SegmentIs
  <2>2. SegmentSays(a, b, Colon(a))
    BY <1>1, SegmentIs
  <2>. QED
    BY <1>4, <2>1, <2>2 DEF f
<1>10. HasParameter(a) <=> HasParameter(x)
  BY <1>1, <1>3, <1>5 DEF SegmentSays
<1>6. ASSUME NEW u \in Seq(S), NEW v \in Seq(S), Len(v) = Len(u) + 1, \A k \in 1..Len(u) : v[k + 1] = u[k],
             NEW g \in 1..(Len(u) + 2)
      PROVE  SubSeq(v, g + 1, Len(v)) = SubSeq(u, g, Len(u))
  <2>1. SubSeq(v, g + 1, Len(v)) \in Seq(S) /\ SubSeq(u, g, Len(u)) \in Seq(S)
    BY <1>6
  <2>2. Len(SubSeq(v, g + 1, Len(v))) = Len(SubSeq(u, g, Len(u)))
    BY <1>6
  <2>3. ASSUME NEW k \in 1..Len(SubSeq(u, g, Len(u))) PROVE SubSeq(v, g + 1, Len(v))[k] = SubSeq(u, g, Len(u))[k]
    <3>1. g + k - 1 \in 1..Len(u) /\ SubSeq(u, g, Len(u))[k] = u[g + k - 1]
      BY <1>6
    <3>2. SubSeq(v, g + 1, Len(v))[k] = v[(g + 1) + k - 1]
      <4>1. g + 1 \in Nat /\ g + 1 >= 1 /\ k \in 1..(Len(v) - (g + 1) + 1) /\ Len(v) \in Nat
        BY <1>6
      <4>. QED
        BY <4>1
    <3>3. (g + 1) + k - 1 = (g + k - 1) + 1
      OBVIOUS
    <3>. QED
      BY <1>6, <3>1, <3>2, <3>3
  <2>. QED
    BY <2>1, <2>2, <2>3, SeqEqual
<1>7. NameOf(a) = NameOf(x)
  <2>1. NameOf(a) = SubSeq(a, (f + 1) + 1, Len(a)) /\ NameOf(x) = SubSeq(x, f + 1, Len(x))
    BY <1>5 DEF SegmentSays
  <2>2. f + 1 \in 1..(Len(x) + 2)
    BY <1>1, <1>3
  <2>. QED
    BY <1>1, <1>6, <2>1, <2>2
<1>8. ValueOf(a, b) = ValueOf(x, y)
  <2>1. ValueOf(a, b) = SubSeq(b, f + 1, Len(b)) /\ ValueOf(x, y) = SubSeq(y, f, Len(y))
    BY <1>5 DEF SegmentSays
  <2>2. CASE f \in 1..(Len(y) + 2)
    BY <1>1, <1>6, <2>1, <2>2
  <2>3. CASE f > Len(y) + 2
    <3>1. SubSeq(b, f + 1, Len(b)) = <<>> /\ SubSeq(y, f, Len(y)) = <<>>
      BY <1>1, <1>3, <2>3
    <3>. QED
      BY <2>1, <3>1
  <2>. QED
    BY <1>1, <1>3, <2>2, <2>3
<1>9. SegmentFits(a, b) <=> SegmentFits(x, y)
  <2>1. CASE HasParameter(x)
    <3>1. SegmentFits(a, b) <=> (f + 1) - 1 <= Len(b) /\ \A k \in 1..((f + 1) - 1) : a[k] = b[k]
      BY <1>5, <1>10, <2>1 DEF SegmentSays
    <3>2. SegmentFits(x, y) <=> f - 1 <= Len(y) /\ \A k \in 1..(f - 1) : x[k] = y[k]
      BY <1>5, <2>1 DEF SegmentSays
    <3>3. ASSUME f - 1 <= Len(y) PROVE (\A k \in 1..f : a[k] = b[k]) <=> (\A k \in 1..(f - 1) : x[k] = y[k])
      <4>1. \A k \in 1..(f - 1) : k \in 1..Len(x) /\ k \in 1..Len(y) /\ k + 1 \in 1..f
        BY <1>1, <1>3, <3>3
      <4>2. \A k \in 1..f : k = 1 \/ (k - 1 \in 1..(f - 1) /\ (k - 1) + 1 = k)
        BY <1>3
      <4>3. \A k \in 1..(f - 1) : a[k + 1] = x[k] /\ b[k + 1] = y[k]
        BY <1>1, <4>1
      <4>4. ASSUME \A k \in 1..(f - 1) : x[k] = y[k], NEW k \in 1..f PROVE a[k] = b[k]
        BY <1>1, <4>2, <4>3, <4>4
      <4>5. ASSUME \A k \in 1..f : a[k] = b[k], NEW k \in 1..(f - 1) PROVE x[k] = y[k]
        BY <4>1, <4>3, <4>5
      <4>. QED
        BY <4>4, <4>5
    <3>4. (f + 1) - 1 = f /\ (f <= Len(b) <=> f - 1 <= Len(y))
      BY <1>1, <1>3
    <3>. QED
      BY <3>1, <3>2, <3>3, <3>4
  <2>2. CASE ~HasParameter(x)
    <3>1. (SegmentFits(a, b) <=> b = a) /\ (SegmentFits(x, y) <=> y = x)
      BY <1>5, <1>10, <2>2 DEF SegmentSays
    <3>2. ASSUME a = b PROVE x = y
      <4>1. Len(x) = Len(y) /\ \A k \in 1..Len(x) : x[k] = y[k]
        BY <1>1, <3>2
      <4>. QED
        BY <4>1, SeqEqual
    <3>. QED
      BY <3>1, <3>2
  <2>. QED
    BY <2>1, <2>2
<1>. QED
  BY <1>7, <1>8, <1>9, <1>10 DEF Alike

\* A segment that begins with ':' fits everything and is a parameter.
LEMMA ParameterIs ==
  ASSUME NEW S, NEW x \in Seq(S), NEW y \in Seq(S), x # <<>>, x[1] = ":"
  PROVE  /\ HasParameter(x) /\ SegmentFits(x, y)
         /\ NameOf(x) = SubSeq(x, 2, Len(x)) /\ ValueOf(x, y) = y
<1>1. Len(x) \in Nat /\ Len(x) >= 1 /\ Len(y) \in Nat
  OBVIOUS
<1>2. FoundAt(x, ":", 1, 1) /\ 1 \in 1..(Len(x) + 1)
  BY <1>1 DEF FoundAt
<1>3. Colon(x) = 1
  BY <1>2, FoundOnce DEF Colon
<1>4. SegmentSays(x, y, 1)
  BY <1>3, SegmentIs
<1>5. HasParameter(x)
  BY <1>1, <1>4 DEF SegmentSays
<1>6. SegmentFits(x, y)
  BY <1>1, <1>4, <1>5 DEF SegmentSays
<1>7. NameOf(x) = SubSeq(x, 2, Len(x)) /\ ValueOf(x, y) = SubSeq(y, 1, Len(y))
  BY <1>4 DEF SegmentSays
<1>. QED
  BY <1>5, <1>6, <1>7

\* An empty segment has no parameter, and fits nothing else.
LEMMA EmptyFits ==
  ASSUME NEW S, NEW y \in Seq(S)
  PROVE  ~HasParameter(<<>>) /\ (SegmentFits(<<>>, y) <=> y = <<>>)
BY DEF HasParameter, SegmentFits

\* What Extracted is, name by name.
Gives(params, segs, texts) ==
  /\ params = [name \in DOMAIN params |-> params[name]]
  /\ \A name : name \in DOMAIN params <=> \E k \in Parameters(segs) : NameOf(segs[k]) = name
  /\ \A k \in Parameters(segs) : IsLastOf(segs, k) => params[NameOf(segs[k])] = ValueOf(segs[k], texts[k])

\* params are those of a path that matches segment by segment.
Agrees(params, segs, texts, whole) ==
  /\ SegmentsFit(segs, texts)
  /\ ~(whole /\ EndsEmpty(segs, texts))
  /\ Gives(params, segs, texts)

\* The segments with parameters are some of the segments.
LEMMA ParametersAre ==
  ASSUME NEW S, NEW segs \in Seq(S), NEW k
  PROVE  k \in Parameters(segs) <=> k \in 1..Len(segs) /\ HasParameter(segs[k])
BY DEF Parameters

\* There is a last segment of each name.
LEMMA LastExists ==
  ASSUME NEW S, NEW segs \in Seq(S), NEW j \in Parameters(segs)
  PROVE  \E k \in Parameters(segs) : NameOf(segs[k]) = NameOf(segs[j]) /\ IsLastOf(segs, k)
<1>. DEFINE N == Len(segs)
            same == {k \in Parameters(segs) : NameOf(segs[k]) = NameOf(segs[j])}
            back == {N - k : k \in same}
<1>0. N \in Nat /\ \A k \in Parameters(segs) : k \in 1..N
  BY ParametersAre
<1>1. back \in SUBSET Nat /\ back # {}
  BY <1>0
<1>2. PICK m \in back : \A n \in back : m <= n
  <2>. HIDE DEF back
  <2>. QED
    BY <1>1, LeastNatural
<1>3. PICK k \in same : m = N - k
  OBVIOUS
<1>4. ASSUME NEW i \in same PROVE i <= k
  <2>1. N - k <= N - i
    BY <1>2, <1>3, <1>4
  <2>2. i \in Nat /\ k \in Nat
    BY <1>0
  <2>. QED
    BY <1>0, <2>1, <2>2
<1>5. IsLastOf(segs, k)
  BY <1>4 DEF IsLastOf
<1>. QED
  BY <1>5

\* Extracted is that, and nothing else is.
LEMMA ExtractedGives ==
  ASSUME NEW S, NEW segs \in Seq(S), NEW texts, NEW params
  PROVE  Gives(params, segs, texts) <=> params = Extracted(segs, texts)
<1>. DEFINE P == Parameters(segs)
            names == {NameOf(segs[k]) : k \in P}
            LastOf(name) == CHOOSE k \in P : NameOf(segs[k]) = name /\ IsLastOf(segs, k)
            Value(k) == ValueOf(segs[k], texts[k])
<1>1. Extracted(segs, texts) = [name \in names |-> Value(LastOf(name))]
  BY DEF Extracted
<1>2. \A k \in P : k \in Nat
  BY ParametersAre
<1>3. ASSUME NEW name \in names
      PROVE  LastOf(name) \in P /\ NameOf(segs[LastOf(name)]) = name /\ IsLastOf(segs, LastOf(name))
  <2>1. \E k \in P : NameOf(segs[k]) = name /\ IsLastOf(segs, k)
    BY LastExists
  <2>. HIDE DEF P
  <2>. QED
    BY <2>1
<1>4. ASSUME NEW k \in P, IsLastOf(segs, k) PROVE LastOf(NameOf(segs[k])) = k
  <2>. DEFINE l == LastOf(NameOf(segs[k]))
  <2>1. NameOf(segs[k]) \in names
    BY <1>4
  <2>2. l \in P /\ NameOf(segs[l]) = NameOf(segs[k]) /\ IsLastOf(segs, l)
    BY <1>3, <2>1
  <2>. HIDE DEF l
  <2>3. l <= k /\ k <= l /\ l \in Nat /\ k \in Nat
    BY <1>2, <1>4, <2>2 DEF IsLastOf
  <2>4. l = k
    BY <2>3
  <2>. QED
    BY <2>4 DEF l
<1>. HIDE DEF LastOf, Value
<1>5. ASSUME params = Extracted(segs, texts) PROVE Gives(params, segs, texts)
  <2>1. params = [name \in names |-> Value(LastOf(name))]
    BY <1>1, <1>5
  <2>. HIDE DEF names
  <2>2. DOMAIN params = names /\ params = [name \in DOMAIN params |-> params[name]]
        /\ \A name \in names : params[name] = Value(LastOf(name))
    BY <2>1
  <2>3. \A name : name \in names <=> \E k \in P : NameOf(segs[k]) = name
    BY DEF names
  <2>4. ASSUME NEW k \in P, IsLastOf(segs, k) PROVE params[NameOf(segs[k])] = ValueOf(segs[k], texts[k])
    BY <1>4, <2>2, <2>3, <2>4 DEF Value
  <2>. QED
    BY <2>2, <2>3, <2>4 DEF Gives
<1>6. ASSUME Gives(params, segs, texts) PROVE params = Extracted(segs, texts)
  <2>1. params = [name \in DOMAIN params |-> params[name]] /\ DOMAIN params = names
    BY <1>6 DEF Gives
  <2>2. ASSUME NEW name \in names PROVE params[name] = Value(LastOf(name))
    BY <1>3, <1>6 DEF Gives, Value
  <2>. HIDE DEF names
  <2>. QED
    BY <1>1, <2>1, <2>2
<1>. QED
  BY <1>5, <1>6

\* Segments with the same parameters, d places further on.
Corresponds(segs, texts, more, moreTexts, d) ==
  /\ \A k \in Parameters(more) : k \in Nat /\ k - d \in Parameters(segs)
  /\ \A k \in Parameters(segs) :
       /\ k \in Nat /\ k + d \in Parameters(more)
       /\ NameOf(more[k + d]) = NameOf(segs[k])
       /\ ValueOf(more[k + d], moreTexts[k + d]) = ValueOf(segs[k], texts[k])

\* They extract the same.
LEMMA CorrespondingGives ==
  ASSUME NEW segs, NEW texts, NEW more, NEW moreTexts, NEW d \in Nat,
         Corresponds(segs, texts, more, moreTexts, d), NEW params
  PROVE  Gives(params, more, moreTexts) <=> Gives(params, segs, texts)
<1>1. \A name : (\E k \in Parameters(more) : NameOf(more[k]) = name)
                  <=> (\E k \in Parameters(segs) : NameOf(segs[k]) = name)
  <2>1. ASSUME NEW k \in Parameters(more)
        PROVE  k - d \in Parameters(segs) /\ NameOf(segs[k - d]) = NameOf(more[k])
    <3>1. k \in Nat /\ k - d \in Parameters(segs) /\ (k - d) + d = k
      BY DEF Corresponds
    <3>. QED
      BY <3>1 DEF Corresponds
  <2>2. \A k \in Parameters(segs) : k + d \in Parameters(more) /\ NameOf(more[k + d]) = NameOf(segs[k])
    BY DEF Corresponds
  <2>. QED
    BY <2>1, <2>2
<1>2. ASSUME NEW k \in Parameters(segs) PROVE IsLastOf(more, k + d) <=> IsLastOf(segs, k)
  <2>0. k \in Nat /\ NameOf(more[k + d]) = NameOf(segs[k])
    BY DEF Corresponds
  <2>1. ASSUME IsLastOf(more, k + d), NEW j \in Parameters(segs), NameOf(segs[j]) = NameOf(segs[k]) PROVE j <= k
    <3>1. j \in Nat /\ j + d \in Parameters(more) /\ NameOf(more[j + d]) = NameOf(segs[j])
      BY DEF Corresponds
    <3>2. j + d <= k + d
      BY <2>0, <2>1, <3>1 DEF IsLastOf
    <3>. QED
      BY <2>0, <3>1, <3>2
  <2>2. ASSUME IsLastOf(segs, k), NEW j \in Parameters(more), NameOf(more[j]) = NameOf(more[k + d]) PROVE j <= k + d
    <3>1. j \in Nat /\ j - d \in Parameters(segs) /\ (j - d) + d = j
      BY DEF Corresponds
    <3>2. NameOf(segs[j - d]) = NameOf(more[j])
      BY <3>1 DEF Corresponds
    <3>3. j - d <= k
      BY <2>0, <2>2, <3>1, <3>2 DEF IsLastOf
    <3>. QED
      BY <2>0, <3>1, <3>3
  <2>. QED
    BY <2>1, <2>2 DEF IsLastOf
<1>3. (\A k \in Parameters(more) : IsLastOf(more, k) => params[NameOf(more[k])] = ValueOf(more[k], moreTexts[k]))
        <=> (\A k \in Parameters(segs) : IsLastOf(segs, k) => params[NameOf(segs[k])] = ValueOf(segs[k], texts[k]))
  <2>1. \A k \in Parameters(segs) :
          /\ k + d \in Parameters(more) /\ NameOf(more[k + d]) = NameOf(segs[k])
          /\ ValueOf(more[k + d], moreTexts[k + d]) = ValueOf(segs[k], texts[k])
    BY DEF Corresponds
  <2>2. ASSUME NEW k \in Parameters(more) PROVE \E j \in Parameters(segs) : k = j + d
    <3>1. k \in Nat /\ k - d \in Parameters(segs) /\ (k - d) + d = k
      BY DEF Corresponds
    <3>. QED
      BY <3>1
  <2>3. ASSUME \A k \in Parameters(more) : IsLastOf(more, k) => params[NameOf(more[k])] = ValueOf(more[k], moreTexts[k]),
               NEW k \in Parameters(segs), IsLastOf(segs, k)
        PROVE  params[NameOf(segs[k])] = ValueOf(segs[k], texts[k])
    BY <1>2, <2>1, <2>3
  <2>4. ASSUME \A k \in Parameters(segs) : IsLastOf(segs, k) => params[NameOf(segs[k])] = ValueOf(segs[k], texts[k]),
               NEW k \in Parameters(more), IsLastOf(more, k)
        PROVE  params[NameOf(more[k])] = ValueOf(more[k], moreTexts[k])
    <3>1. PICK j \in Parameters(segs) : k = j + d
      BY <2>2
    <3>. QED
      BY <1>2, <2>1, <2>4, <3>1
  <2>. QED
    BY <2>3, <2>4
<1>. QED
  BY <1>1, <1>3 DEF Gives

\* The segments of a text over S.
AreSegments(segs, S) == segs \in Seq(Seq(S)) /\ Len(segs) \in Nat /\ Len(segs) >= 1

\* A '/' more, on both.
LEMMA AgreesFollowing ==
  ASSUME NEW S, NEW segs, NEW texts, NEW more, NEW moreTexts, NEW params, NEW whole \in BOOLEAN,
         AreSegments(segs, S), AreSegments(texts, S), AreSegments(more, S), AreSegments(moreTexts, S),
         Follows(more, segs), Follows(moreTexts, texts)
  PROVE  Agrees(params, more, moreTexts, whole) <=> Agrees(params, segs, texts, whole)
<1>0. /\ Len(segs) \in Nat /\ Len(segs) >= 1 /\ Len(texts) \in Nat
      /\ Len(more) = Len(segs) + 1 /\ Len(moreTexts) = Len(texts) + 1
      /\ more[1] = <<>> /\ moreTexts[1] = <<>>
      /\ \A k \in 1..Len(segs) : more[k + 1] = segs[k]
      /\ \A k \in 1..Len(texts) : moreTexts[k + 1] = texts[k]
  BY DEF AreSegments, Follows
<1>1. /\ DOMAIN segs = 1..Len(segs) /\ DOMAIN more = 1..Len(more)
      /\ \A k : k \in Parameters(segs) <=> k \in 1..Len(segs) /\ HasParameter(segs[k])
      /\ \A k : k \in Parameters(more) <=> k \in 1..Len(more) /\ HasParameter(more[k])
  BY DEF AreSegments, Parameters
<1>2. ~HasParameter(<<>>) /\ SegmentFits(<<>>, <<>>)
  BY DEF HasParameter, SegmentFits
<1>3. \A k \in 1..Len(more) : k = 1 \/ (k - 1 \in 1..Len(segs) /\ (k - 1) + 1 = k)
  BY <1>0
<1>4. SegmentsFit(more, moreTexts) <=> SegmentsFit(segs, texts)
  <2>1. ASSUME SegmentsFit(more, moreTexts) PROVE SegmentsFit(segs, texts)
    <3>1. Len(segs) = Len(texts) /\ \A k \in 1..Len(segs) : k + 1 \in DOMAIN more
      BY <1>0, <1>1, <2>1 DEF SegmentsFit
    <3>2. \A k \in 1..Len(segs) : SegmentFits(more[k + 1], moreTexts[k + 1])
      BY <2>1, <3>1 DEF SegmentsFit
    <3>. QED
      BY <1>0, <1>1, <3>1, <3>2 DEF SegmentsFit
  <2>2. ASSUME SegmentsFit(segs, texts) PROVE SegmentsFit(more, moreTexts)
    <3>1. Len(segs) = Len(texts) /\ \A k \in 1..Len(segs) : SegmentFits(segs[k], texts[k])
      BY <1>1, <2>2 DEF SegmentsFit
    <3>2. ASSUME NEW k \in 1..Len(more) PROVE SegmentFits(more[k], moreTexts[k])
      <4>1. CASE k = 1
        BY <1>0, <1>2, <4>1
      <4>2. CASE k # 1
        <5>. DEFINE j == k - 1
        <5>1. j \in 1..Len(segs) /\ j + 1 = k
          BY <1>3, <4>2
        <5>. HIDE DEF j
        <5>2. more[j + 1] = segs[j] /\ moreTexts[j + 1] = texts[j] /\ SegmentFits(segs[j], texts[j])
          BY <1>0, <3>1, <5>1
        <5>. QED
          BY <5>1, <5>2
      <4>. QED
        BY <4>1, <4>2
    <3>. QED
      BY <1>0, <1>1, <3>1, <3>2 DEF SegmentsFit
  <2>. QED
    BY <2>1, <2>2
<1>5. ASSUME SegmentsFit(segs, texts) PROVE EndsEmpty(more, moreTexts) <=> EndsEmpty(segs, texts)
  <2>1. Len(segs) = Len(texts) /\ Len(segs) \in 1..Len(segs)
    BY <1>0, <1>5 DEF SegmentsFit
  <2>2. more[Len(more)] = segs[Len(segs)] /\ moreTexts[Len(more)] = texts[Len(segs)]
    BY <1>0, <2>1
  <2>. QED
    BY <2>2 DEF EndsEmpty
<1>6. ASSUME SegmentsFit(segs, texts) PROVE Gives(params, more, moreTexts) <=> Gives(params, segs, texts)
  <2>0. Len(segs) = Len(texts)
    BY <1>6 DEF SegmentsFit
  <2>1. ASSUME NEW k \in Parameters(more) PROVE k \in Nat /\ k - 1 \in Parameters(segs)
    <3>1. k \in 1..Len(more) /\ HasParameter(more[k]) /\ k # 1
      BY <1>0, <1>1, <1>2
    <3>. DEFINE j == k - 1
    <3>2. j \in 1..Len(segs) /\ j + 1 = k
      BY <1>3, <3>1
    <3>. HIDE DEF j
    <3>3. more[j + 1] = segs[j]
      BY <1>0, <3>2
    <3>4. j \in Parameters(segs)
      BY <1>1, <3>1, <3>2, <3>3
    <3>. QED
      BY <3>1, <3>4 DEF j
  <2>2. ASSUME NEW k \in Parameters(segs)
        PROVE  /\ k \in Nat /\ k + 1 \in Parameters(more)
               /\ more[k + 1] = segs[k] /\ moreTexts[k + 1] = texts[k]
    <3>1. k \in 1..Len(segs) /\ HasParameter(segs[k]) /\ k + 1 \in 1..Len(more) /\ k \in 1..Len(texts)
      BY <1>0, <1>1, <2>0
    <3>. QED
      BY <1>0, <1>1, <3>1
  <2>3. Corresponds(segs, texts, more, moreTexts, 1)
    BY <2>1, <2>2 DEF Corresponds
  <2>. QED
    BY <2>3, CorrespondingGives
<1>. QED
  BY <1>4, <1>5, <1>6 DEF Agrees

\* A character more in the first segments of both.
LEMMA AgreesMore ==
  ASSUME NEW S, NEW c \in S, c # ":",
         NEW segs, NEW texts, NEW more, NEW moreTexts, NEW params, NEW whole \in BOOLEAN,
         AreSegments(segs, S), AreSegments(texts, S), AreSegments(more, S), AreSegments(moreTexts, S),
         Begins(more, segs, <<c>>), Begins(moreTexts, texts, <<c>>)
  PROVE  Agrees(params, more, moreTexts, whole) <=> Agrees(params, segs, texts, whole)
<1>0. /\ Len(segs) \in Nat /\ Len(segs) >= 1 /\ Len(texts) \in Nat /\ Len(texts) >= 1
      /\ Len(more) = Len(segs) /\ Len(moreTexts) = Len(texts)
      /\ more[1] = <<c>> \o segs[1] /\ moreTexts[1] = <<c>> \o texts[1]
      /\ \A k \in 2..Len(segs) : more[k] = segs[k]
      /\ \A k \in 2..Len(texts) : moreTexts[k] = texts[k]
      /\ segs[1] \in Seq(S) /\ texts[1] \in Seq(S)
  BY DEF AreSegments, Begins
<1>1. /\ DOMAIN segs = 1..Len(segs) /\ DOMAIN more = 1..Len(segs)
      /\ \A k : k \in Parameters(segs) <=> k \in 1..Len(segs) /\ HasParameter(segs[k])
      /\ \A k : k \in Parameters(more) <=> k \in 1..Len(segs) /\ HasParameter(more[k])
  BY <1>0 DEF AreSegments, Parameters
<1>2. Alike(more[1], moreTexts[1], segs[1], texts[1])
  <2>. DEFINE x == segs[1]
              y == texts[1]
              a == more[1]
              b == moreTexts[1]
  <2>1. x \in Seq(S) /\ y \in Seq(S) /\ a = <<c>> \o x /\ b = <<c>> \o y
    BY <1>0
  <2>. HIDE DEF x, y, a, b
  <2>2. Alike(a, b, x, y)
    BY <2>1, LiteralMore
  <2>. QED
    BY <2>2 DEF a, b, x, y
<1>3. ASSUME Len(segs) = Len(texts), NEW k \in 1..Len(segs)
      PROVE  /\ HasParameter(more[k]) <=> HasParameter(segs[k])
             /\ NameOf(more[k]) = NameOf(segs[k])
             /\ ValueOf(more[k], moreTexts[k]) = ValueOf(segs[k], texts[k])
             /\ SegmentFits(more[k], moreTexts[k]) <=> SegmentFits(segs[k], texts[k])
  <2>1. CASE k = 1
    BY <1>2, <2>1 DEF Alike
  <2>2. CASE k # 1
    <3>1. k \in 2..Len(segs) /\ k \in 2..Len(texts)
      BY <1>3, <2>2
    <3>. QED
      BY <1>0, <3>1
  <2>. QED
    BY <2>1, <2>2
<1>4. SegmentsFit(more, moreTexts) <=> SegmentsFit(segs, texts)
  BY <1>0, <1>1, <1>3 DEF SegmentsFit
<1>5. ASSUME SegmentsFit(segs, texts) PROVE EndsEmpty(more, moreTexts) <=> EndsEmpty(segs, texts)
  <2>1. Len(segs) = Len(texts) /\ Len(segs) \in 1..Len(segs)
    BY <1>0, <1>5 DEF SegmentsFit
  <2>. QED
    BY <1>0, <1>3, <2>1 DEF EndsEmpty
<1>6. ASSUME SegmentsFit(segs, texts) PROVE Gives(params, more, moreTexts) <=> Gives(params, segs, texts)
  <2>1. Len(segs) = Len(texts)
    BY <1>6 DEF SegmentsFit
  <2>2. \A k : k \in Parameters(more) <=> k \in Parameters(segs)
    BY <1>1, <1>3, <2>1
  <2>3. \A k \in Parameters(segs) : k \in Nat /\ k - 0 = k /\ k + 0 = k
    BY <1>1
  <2>4. ASSUME NEW k \in Parameters(segs)
        PROVE  NameOf(more[k]) = NameOf(segs[k]) /\ ValueOf(more[k], moreTexts[k]) = ValueOf(segs[k], texts[k])
    BY <1>1, <1>3, <2>1
  <2>5. Corresponds(segs, texts, more, moreTexts, 0)
    BY <2>2, <2>3, <2>4 DEF Corresponds
  <2>. QED
    BY <2>5, CorrespondingGives
<1>. QED
  BY <1>4, <1>5, <1>6 DEF Agrees

\* Only the first is something else, where there was nothing.
TakesFirst(more, segs) ==
  /\ Len(more) = Len(segs) /\ segs[1] = <<>>
  /\ \A k \in 2..Len(segs) : more[k] = segs[k]

\* The first segments add what a parameter takes.
AddsTaken(params, more, moreTexts, segs, texts, whole, name, value) ==
  Agrees(params, more, moreTexts, whole) <=>
    \E later : Agrees(later, segs, texts, whole) /\ params = WithDefault(later, name, value)

\* A parameter more, on both.
LEMMA AgreesTaking ==
  ASSUME NEW S, NEW segs, NEW texts, NEW more, NEW moreTexts, NEW params, NEW whole \in BOOLEAN,
         AreSegments(segs, S), AreSegments(texts, S), AreSegments(more, S), AreSegments(moreTexts, S),
         TakesFirst(more, segs), TakesFirst(moreTexts, texts),
         HasParameter(more[1]), SegmentFits(more[1], moreTexts[1]),
         NEW name, name = NameOf(more[1]), NEW value, value = ValueOf(more[1], moreTexts[1]),
         whole /\ Len(texts) = 1 => value # <<>>
  PROVE  AddsTaken(params, more, moreTexts, segs, texts, whole, name, value)
<1>0. /\ Len(segs) \in Nat /\ Len(segs) >= 1 /\ Len(texts) \in Nat /\ Len(texts) >= 1
      /\ Len(more) = Len(segs) /\ Len(moreTexts) = Len(texts)
      /\ segs[1] = <<>> /\ texts[1] = <<>>
      /\ \A k \in 2..Len(segs) : more[k] = segs[k]
      /\ \A k \in 2..Len(texts) : moreTexts[k] = texts[k]
  BY DEF AreSegments, TakesFirst
<1>1. /\ DOMAIN segs = 1..Len(segs) /\ DOMAIN more = 1..Len(segs)
      /\ \A k : k \in Parameters(segs) <=> k \in 1..Len(segs) /\ HasParameter(segs[k])
      /\ \A k : k \in Parameters(more) <=> k \in 1..Len(segs) /\ HasParameter(more[k])
  <2>1. segs \in Seq(Seq(S)) /\ more \in Seq(Seq(S))
    BY DEF AreSegments
  <2>2. DOMAIN segs = 1..Len(segs) /\ DOMAIN more = 1..Len(segs)
    BY <1>0, <2>1
  <2>. QED
    BY <2>2, Zenon DEF Parameters
<1>2. ~HasParameter(<<>>) /\ SegmentFits(<<>>, <<>>)
  BY DEF HasParameter, SegmentFits
<1>3. \A k : k \in Parameters(more) <=> k \in Parameters(segs) \/ k = 1
  <2>1. \A k \in 1..Len(segs) : k = 1 \/ k \in 2..Len(segs)
    BY <1>0
  <2>2. \A k \in 2..Len(segs) : k \in 1..Len(segs) /\ k # 1
    BY <1>0
  <2>3. 1 \in 1..Len(segs)
    BY <1>0
  <2>. QED
    BY <1>0, <1>1, <1>2, <2>1, <2>2, <2>3
<1>4. ASSUME NEW k \in Parameters(segs) PROVE k \in 2..Len(segs) /\ more[k] = segs[k]
  <2>1. k \in 1..Len(segs) /\ k # 1
    BY <1>0, <1>1, <1>2
  <2>. QED
    BY <1>0, <2>1
<1>5. SegmentsFit(more, moreTexts) <=> SegmentsFit(segs, texts)
  <2>1. ASSUME Len(segs) = Len(texts), NEW k \in 1..Len(segs)
        PROVE  SegmentFits(more[k], moreTexts[k]) <=> SegmentFits(segs[k], texts[k])
    <3>1. CASE k = 1
      BY <1>0, <1>2, <3>1
    <3>2. CASE k # 1
      <4>1. k \in 2..Len(segs) /\ k \in 2..Len(texts)
        BY <2>1, <3>2
      <4>. QED
        BY <1>0, <4>1
    <3>. QED
      BY <3>1, <3>2
  <2>. QED
    BY <1>0, <1>1, <2>1 DEF SegmentsFit
<1>6. ASSUME SegmentsFit(segs, texts) PROVE whole /\ EndsEmpty(more, moreTexts) <=> whole /\ EndsEmpty(segs, texts)
  <2>1. Len(segs) = Len(texts)
    BY <1>6 DEF SegmentsFit
  <2>2. CASE Len(segs) = 1
    <3>1. ~EndsEmpty(segs, texts)
      BY <1>0, <1>2, <2>2 DEF EndsEmpty
    <3>2. ~(whole /\ EndsEmpty(more, moreTexts))
      BY <1>0, <2>1, <2>2 DEF EndsEmpty
    <3>. QED
      BY <3>1, <3>2
  <2>3. CASE Len(segs) # 1
    <3>1. Len(segs) \in 2..Len(segs) /\ Len(segs) \in 2..Len(texts)
      BY <1>0, <2>1, <2>3
    <3>. QED
      BY <1>0, <3>1 DEF EndsEmpty
  <2>. QED
    BY <2>2, <2>3
<1>. DEFINE IsFirstOnly == \A k \in Parameters(segs) : NameOf(segs[k]) # name
<1>7. ASSUME NEW k \in Parameters(segs) PROVE IsLastOf(more, k) <=> IsLastOf(segs, k)
  <2>1. \A j \in Parameters(segs) : NameOf(more[j]) = NameOf(segs[j])
    BY <1>4
  <2>2. 1 <= k
    BY <1>0, <1>4
  <2>. QED
    BY <1>3, <2>1, <2>2 DEF IsLastOf
<1>8. IsLastOf(more, 1) <=> IsFirstOnly
  <2>1. \A j \in Parameters(segs) : NameOf(more[j]) = NameOf(segs[j]) /\ ~(j <= 1)
    BY <1>0, <1>4
  <2>2. 1 <= 1
    OBVIOUS
  <2>. QED
    BY <1>3, <2>1, <2>2 DEF IsLastOf
<1>9. ASSUME SegmentsFit(segs, texts), NEW k \in Parameters(segs)
      PROVE  NameOf(more[k]) = NameOf(segs[k]) /\ ValueOf(more[k], moreTexts[k]) = ValueOf(segs[k], texts[k])
  <2>1. k \in 2..Len(segs) /\ k \in 2..Len(texts) /\ more[k] = segs[k]
    BY <1>4, <1>9 DEF SegmentsFit
  <2>. QED
    BY <1>0, <2>1
<1>10. ASSUME SegmentsFit(segs, texts), NEW later, Gives(later, segs, texts), params = WithDefault(later, name, value)
       PROVE  Gives(params, more, moreTexts)
  <2>1. /\ params = [n \in DOMAIN later \cup {name} |-> IF n \in DOMAIN later THEN later[n] ELSE value]
    BY <1>10 DEF WithDefault
  <2>2. /\ params = [n \in DOMAIN params |-> params[n]]
        /\ \A n : n \in DOMAIN params <=> n \in DOMAIN later \/ n = name
        /\ \A n \in DOMAIN later : params[n] = later[n]
        /\ name \notin DOMAIN later => params[name] = value
    BY <2>1
  <2>3. \A n : n \in DOMAIN later <=> \E k \in Parameters(segs) : NameOf(segs[k]) = n
    BY <1>10 DEF Gives
  <2>4. \A n : n \in DOMAIN params <=> \E k \in Parameters(more) : NameOf(more[k]) = n
    <3>1. \A k \in Parameters(segs) : NameOf(more[k]) = NameOf(segs[k])
      BY <1>4
    <3>. QED
      BY <1>3, <2>2, <2>3, <3>1
  <2>5. ASSUME NEW k \in Parameters(more), IsLastOf(more, k)
        PROVE  params[NameOf(more[k])] = ValueOf(more[k], moreTexts[k])
    <3>1. CASE k \in Parameters(segs)
      <4>1. IsLastOf(segs, k)
        BY <1>7, <2>5, <3>1
      <4>2. later[NameOf(segs[k])] = ValueOf(segs[k], texts[k]) /\ NameOf(segs[k]) \in DOMAIN later
        BY <1>10, <2>3, <3>1, <4>1 DEF Gives
      <4>. QED
        BY <1>9, <1>10, <2>2, <3>1, <4>2
    <3>2. CASE k = 1 /\ k \notin Parameters(segs)
      <4>1. IsFirstOnly
        BY <1>8, <2>5, <3>2
      <4>2. name \notin DOMAIN later
        BY <2>3, <4>1
      <4>. QED
        BY <2>2, <3>2, <4>2
    <3>. QED
      BY <1>3, <3>1, <3>2
  <2>. QED
    BY <2>2, <2>4, <2>5 DEF Gives
<1>11. ASSUME SegmentsFit(segs, texts), Gives(params, more, moreTexts)
       PROVE  \E later : Gives(later, segs, texts) /\ params = WithDefault(later, name, value)
  <2>. DEFINE names == {NameOf(segs[k]) : k \in Parameters(segs)}
              later == [n \in names |-> params[n]]
  <2>1. /\ params = [n \in DOMAIN params |-> params[n]]
        /\ \A n : n \in DOMAIN params <=> \E k \in Parameters(more) : NameOf(more[k]) = n
    BY <1>11 DEF Gives
  <2>2. \A k \in Parameters(segs) : NameOf(more[k]) = NameOf(segs[k])
    BY <1>4
  <2>3. DOMAIN params = names \cup {name}
    <3>1. \A n : n \in DOMAIN params <=> n \in names \/ n = name
      BY <1>3, <2>1, <2>2
    <3>. HIDE DEF names
    <3>. QED
      BY <3>1
  <2>4. \A n : n \in names <=> \E k \in Parameters(segs) : NameOf(segs[k]) = n
    OBVIOUS
  <2>5. DOMAIN later = names /\ later = [n \in DOMAIN later |-> later[n]] /\ \A n \in names : later[n] = params[n]
    <3>. HIDE DEF names
    <3>. QED
      OBVIOUS
  <2>. HIDE DEF later, names
  <2>6. ASSUME NEW k \in Parameters(segs), IsLastOf(segs, k)
        PROVE  later[NameOf(segs[k])] = ValueOf(segs[k], texts[k])
    <3>1. k \in Parameters(more) /\ IsLastOf(more, k)
      BY <1>3, <1>7, <2>6
    <3>2. params[NameOf(more[k])] = ValueOf(more[k], moreTexts[k])
      BY <1>11, <3>1 DEF Gives
    <3>3. NameOf(segs[k]) \in names
      BY <2>4
    <3>. QED
      BY <1>9, <1>11, <2>5, <3>2, <3>3
  <2>7. Gives(later, segs, texts)
    BY <2>4, <2>5, <2>6 DEF Gives
  <2>8. ASSUME name \notin names PROVE params[name] = value
    <3>1. IsFirstOnly
      BY <2>4, <2>8
    <3>2. 1 \in Parameters(more) /\ IsLastOf(more, 1)
      BY <1>3, <1>8, <3>1
    <3>. QED
      BY <1>11, <3>2 DEF Gives
  <2>9. params = WithDefault(later, name, value)
    <3>1. WithDefault(later, name, value)
            = [n \in names \cup {name} |-> IF n \in names THEN later[n] ELSE value]
      BY <2>5 DEF WithDefault
    <3>2. \A n \in names \cup {name} : params[n] = IF n \in names THEN later[n] ELSE value
      BY <2>5, <2>8
    <3>. QED
      BY <2>1, <2>3, <3>1, <3>2
  <2>. QED
    BY <2>7, <2>9
<1>12. ASSUME Agrees(params, more, moreTexts, whole)
       PROVE  \E later : Agrees(later, segs, texts, whole) /\ params = WithDefault(later, name, value)
  <2>1. /\ SegmentsFit(segs, texts) /\ Gives(params, more, moreTexts)
        /\ ~(whole /\ EndsEmpty(more, moreTexts))
    BY <1>5, <1>12 DEF Agrees
  <2>2. ~(whole /\ EndsEmpty(segs, texts))
    BY <1>6, <2>1
  <2>3. PICK later : Gives(later, segs, texts) /\ params = WithDefault(later, name, value)
    BY <1>11, <2>1
  <2>. QED
    BY <2>1, <2>2, <2>3 DEF Agrees
<1>13. ASSUME NEW later, Agrees(later, segs, texts, whole), params = WithDefault(later, name, value)
       PROVE  Agrees(params, more, moreTexts, whole)
  <2>1. /\ SegmentsFit(segs, texts) /\ Gives(later, segs, texts)
        /\ ~(whole /\ EndsEmpty(segs, texts))
    BY <1>13 DEF Agrees
  <2>2. ~(whole /\ EndsEmpty(more, moreTexts)) /\ SegmentsFit(more, moreTexts)
    BY <1>5, <1>6, <2>1
  <2>3. Gives(params, more, moreTexts)
    BY <1>10, <1>13, <2>1
  <2>. QED
    BY <2>2, <2>3 DEF Agrees
<1>. QED
  BY <1>12, <1>13 DEF AddsTaken

\* The segments from any place on are so.
LEMMA SegmentsAreSegments ==
  ASSUME NEW S, NEW text \in Seq(S), NEW i \in 1..(Len(text) + 1)
  PROVE  AreSegments(SegmentsFrom(text, i), S)
BY SegmentsType DEF AreSegments

\* The first segment from a place on, by the character there.
FirstIs(segs, later, char) ==
  \/ char = "/" /\ Follows(segs, later) /\ Len(segs) >= 2 /\ segs[1] = <<>>
  \/ char # "/" /\ Begins(segs, later, <<char>>) /\ segs[1] # <<>> /\ segs[1][1] = char

\* The first character is a slash or belongs to the first segment.
LEMMA FirstSegment ==
  ASSUME NEW S, NEW text \in Seq(S), NEW i \in 1..Len(text)
  PROVE  FirstIs(SegmentsFrom(text, i), SegmentsFrom(text, i + 1), text[i])
<1>. DEFINE later == SegmentsFrom(text, i + 1)
            segs == SegmentsFrom(text, i)
<1>0. i + 1 \in 1..(Len(text) + 1) /\ i \in 1..(i + 1) /\ (i + 1) - 1 = i
  OBVIOUS
<1>1. AreSegments(later, S)
  BY <1>0, SegmentsAreSegments
<1>. HIDE DEF later, segs
<1>2. CASE text[i] = "/"
  <2>1. Follows(segs, later)
    BY <1>2, SegmentsMore DEF later, segs
  <2>. QED
    BY <1>1, <1>2, <2>1 DEF FirstIs, Follows, AreSegments, later, segs
<1>3. CASE text[i] # "/"
  <2>1. \A m \in i..((i + 1) - 1) : text[m] # "/"
    BY <1>0, <1>3
  <2>2. Begins(segs, later, SubSeq(text, i, (i + 1) - 1))
    BY <1>0, <2>1, SegmentsBefore DEF later, segs
  <2>3. SubSeq(text, i, (i + 1) - 1) = <<text[i]>>
    <3>. DEFINE one == SubSeq(text, i, i)
    <3>1. one \in Seq(S) /\ Len(one) = 1 /\ one[1] = text[i]
      OBVIOUS
    <3>. HIDE DEF one
    <3>2. one = <<text[i]>>
      BY <3>1, SingleIs
    <3>. QED
      BY <1>0, <3>2 DEF one
  <2>4. segs[1] = <<text[i]>> \o later[1]
    BY <2>2, <2>3 DEF Begins
  <2>5. later[1] \in Seq(S) /\ text[i] \in S
    BY <1>1 DEF AreSegments
  <2>6. segs[1] # <<>> /\ segs[1][1] = text[i]
    BY <2>4, <2>5
  <2>. QED
    BY <1>0, <1>3, <2>2, <2>3, <2>6 DEF FirstIs, later, segs
<1>. QED
  BY <1>2, <1>3

\* There is one segment and it is empty exactly at the end of the text.
LEMMA OneEmptySegment ==
  ASSUME NEW S, NEW text \in Seq(S), NEW i \in 1..(Len(text) + 1), NEW segs, segs = SegmentsFrom(text, i)
  PROVE  /\ i > Len(text) => Len(segs) = 1 /\ segs[1] = <<>>
         /\ Len(segs) = 1 /\ segs[1] = <<>> => i > Len(text)
<1>1. CASE i > Len(text)
  <2>1. i = Len(text) + 1
    BY <1>1
  <2>. QED
    BY <2>1, SegmentsAtEnd
<1>2. CASE ~(i > Len(text))
  <2>1. i \in 1..Len(text)
    BY <1>2
  <2>2. Len(segs) >= 2 \/ segs[1] # <<>>
    BY <2>1, FirstSegment DEF FirstIs
  <2>. QED
    BY <1>2, <2>2
<1>. QED
  BY <1>1, <1>2

\* At a '/' or at the end the first segment is empty.
LEMMA CutSegment ==
  ASSUME NEW S, NEW text \in Seq(S), NEW i \in 1..(Len(text) + 1), i <= Len(text) => text[i] = "/"
  PROVE  SegmentsFrom(text, i)[1] = <<>>
<1>1. CASE i > Len(text)
  BY <1>1, OneEmptySegment
<1>2. CASE ~(i > Len(text))
  <2>1. i \in 1..Len(text) /\ text[i] = "/"
    BY <1>2
  <2>. QED
    BY <2>1, FirstSegment DEF FirstIs
<1>. QED
  BY <1>1, <1>2

\* u is the path, or all of it but the slash it ends with.
OnPath(u, path, S) ==
  /\ u \in Seq(S) /\ Len(u) \in Nat
  /\ \A k \in 1..Len(u) : u[k] = path[k]
  /\ u # path => Len(path) = Len(u) + 1 /\ path[Len(path)] = "/"

\* What Trimmed has is on the path, with the path itself.
LEMMA TrimmedIs ==
  ASSUME NEW S, NEW path \in Seq(S)
  PROVE  /\ \A u \in Trimmed(path) : OnPath(u, path, S)
         /\ path \in Trimmed(path)
         /\ path # <<>> /\ path[Len(path)] = "/" => \E u \in Trimmed(path) : Len(u) = Len(path) - 1
<1>. DEFINE front == SubSeq(path, 1, Len(path) - 1)
<1>1. Trimmed(path) = {path} \cup {u \in {front} : path # <<>> /\ path[Len(path)] = "/"}
  BY DEF Trimmed
<1>2. OnPath(path, path, S)
  BY DEF OnPath
<1>3. ASSUME path # <<>>, path[Len(path)] = "/" PROVE OnPath(front, path, S) /\ Len(front) = Len(path) - 1
  <2>1. Len(path) \in Nat /\ Len(path) >= 1
    BY <1>3
  <2>2. front \in Seq(S) /\ Len(front) = Len(path) - 1 /\ \A k \in 1..(Len(path) - 1) : front[k] = path[k]
    <3>. DEFINE n == Len(path) - 1
    <3>1. n \in Nat /\ n <= Len(path) /\ \A k \in 1..n : k \in 1..Len(path)
      BY <2>1
    <3>. HIDE DEF n
    <3>2. SubSeq(path, 1, n) \in Seq(S) /\ Len(SubSeq(path, 1, n)) = n
          /\ \A k \in 1..n : SubSeq(path, 1, n)[k] = path[k]
      BY <3>1
    <3>. QED
      BY <3>2 DEF n
  <2>. QED
    BY <1>3, <2>1, <2>2 DEF OnPath
<1>. HIDE DEF front
<1>. QED
  BY <1>1, <1>2, <1>3

\* What the rest of a location means for the rest of a path.
Meant(params, location, path, p, i) ==
  \E u \in Trimmed(path) :
    i <= Len(u) + 1 /\ Agrees(params, SegmentsFrom(location, p), SegmentsFrom(u, i), u = path)

\* Nothing is left of the location.
LEMMA AgreesAtEnd ==
  ASSUME NEW segs, NEW texts, Len(segs) = 1, DOMAIN segs = {1}, segs[1] = <<>>, NEW params, NEW whole \in BOOLEAN
  PROVE  Agrees(params, segs, texts, whole) <=> Len(texts) = 1 /\ texts[1] = <<>> /\ params = <<>>
<1>1. ~HasParameter(segs[1]) /\ (SegmentFits(segs[1], texts[1]) <=> texts[1] = <<>>)
  BY DEF HasParameter, SegmentFits
<1>2. SegmentsFit(segs, texts) <=> Len(texts) = 1 /\ texts[1] = <<>>
  BY <1>1 DEF SegmentsFit
<1>3. ~EndsEmpty(segs, texts)
  BY <1>1 DEF EndsEmpty
<1>4. Parameters(segs) = {}
  BY <1>1 DEF Parameters
<1>5. Gives(params, segs, texts) <=> params = <<>>
  <2>1. Gives(params, segs, texts) <=> params = [name \in DOMAIN params |-> params[name]] /\ DOMAIN params = {}
    BY <1>4 DEF Gives
  <2>2. ASSUME params = [name \in DOMAIN params |-> params[name]], DOMAIN params = {} PROVE params = <<>>
    BY <2>2
  <2>3. DOMAIN <<>> = {} /\ <<>> = [name \in DOMAIN <<>> |-> <<>>[name]]
    OBVIOUS
  <2>. QED
    BY <2>1, <2>2, <2>3
<1>. QED
  BY <1>2, <1>3, <1>5 DEF Agrees

\* Then the rest of the path may be a slash.
LEMMA MeantAtEnd ==
  ASSUME NEW S, NEW location \in Seq(S), NEW path \in Seq(S),
         NEW p \in 1..(Len(location) + 1), NEW i \in 1..(Len(path) + 1), p > Len(location), NEW params
  PROVE  Meant(params, location, path, p, i) <=> TrailingSlash(path, i) /\ params = <<>>
<1>. DEFINE segs == SegmentsFrom(location, p)
<1>1. Len(segs) = 1 /\ segs[1] = <<>> /\ DOMAIN segs = {1}
  <2>1. Len(segs) = 1 /\ segs[1] = <<>>
    BY OneEmptySegment
  <2>2. segs \in Seq(Seq(S))
    BY SegmentsType
  <2>. HIDE DEF segs
  <2>. QED
    BY <2>1, <2>2
<1>. HIDE DEF segs
<1>2. ASSUME NEW u \in Trimmed(path), i <= Len(u) + 1
      PROVE  Agrees(params, segs, SegmentsFrom(u, i), u = path) <=> i = Len(u) + 1 /\ params = <<>>
  <2>1. OnPath(u, path, S)
    BY TrimmedIs
  <2>2. u \in Seq(S) /\ i \in 1..(Len(u) + 1)
    BY <1>2, <2>1 DEF OnPath
  <2>. DEFINE texts == SegmentsFrom(u, i)
              whole == (u = path)
  <2>3. Len(texts) = 1 /\ texts[1] = <<>> <=> i = Len(u) + 1
    BY <2>2, OneEmptySegment
  <2>4. whole \in BOOLEAN
    OBVIOUS
  <2>. HIDE DEF texts, whole
  <2>5. Agrees(params, segs, texts, whole) <=> Len(texts) = 1 /\ texts[1] = <<>> /\ params = <<>>
    BY <1>1, <2>4, AgreesAtEnd
  <2>. QED
    BY <2>3, <2>5 DEF texts, whole
<1>3. (\E u \in Trimmed(path) : i = Len(u) + 1) <=> TrailingSlash(path, i)
  <2>0. Len(path) \in Nat
    OBVIOUS
  <2>1. ASSUME NEW u \in Trimmed(path), i = Len(u) + 1 PROVE TrailingSlash(path, i)
    <3>1. OnPath(u, path, S)
      BY TrimmedIs
    <3>. QED
      BY <2>0, <2>1, <3>1 DEF OnPath, TrailingSlash
  <2>2. ASSUME TrailingSlash(path, i) PROVE \E u \in Trimmed(path) : i = Len(u) + 1
    <3>1. CASE i > Len(path)
      BY <2>0, <3>1, TrimmedIs
    <3>2. CASE i = Len(path) /\ path[i] = "/"
      <4>1. path # <<>>
        BY <3>2
      <4>2. PICK u \in Trimmed(path) : Len(u) = Len(path) - 1
        BY <3>2, <4>1, TrimmedIs
      <4>. QED
        BY <2>0, <3>2, <4>2
    <3>. QED
      BY <2>2, <3>1, <3>2 DEF TrailingSlash
  <2>. QED
    BY <2>1, <2>2
<1>4. \A u \in Trimmed(path) : i = Len(u) + 1 => i <= Len(u) + 1
  <2>1. \A u \in Trimmed(path) : Len(u) \in Nat
    BY TrimmedIs DEF OnPath
  <2>. QED
    BY <2>1
<1>. QED
  BY <1>2, <1>3, <1>4 DEF Meant, segs

\* Nothing is left of the path.
LEMMA MeantBeyond ==
  ASSUME NEW S, NEW location \in Seq(S), NEW path \in Seq(S),
         NEW p \in 1..Len(location), NEW i \in 1..(Len(path) + 1), i > Len(path), NEW params
  PROVE  ~Meant(params, location, path, p, i)
<1> SUFFICES ASSUME NEW u \in Trimmed(path), i <= Len(u) + 1,
                    Agrees(params, SegmentsFrom(location, p), SegmentsFrom(u, i), u = path)
             PROVE  FALSE
  BY DEF Meant
<1>1. OnPath(u, path, S)
  BY TrimmedIs
<1>2. u = path /\ i = Len(path) + 1
  BY <1>1 DEF OnPath
<1>. DEFINE segs == SegmentsFrom(location, p)
            texts == SegmentsFrom(path, i)
<1>3. Len(texts) = 1 /\ texts[1] = <<>>
  BY <1>2, SegmentsAtEnd
<1>4. AreSegments(segs, S) /\ p \in 1..(Len(location) + 1)
  BY SegmentsAreSegments
<1>5. Len(segs) # 1 \/ segs[1] # <<>>
  BY <1>4, OneEmptySegment
<1>6. Agrees(params, segs, texts, TRUE)
  BY <1>2
<1>. HIDE DEF segs, texts
<1>7. Len(segs) = 1 /\ 1 \in DOMAIN segs /\ segs[1] \in Seq(S)
  BY <1>3, <1>4, <1>6 DEF Agrees, SegmentsFit, AreSegments
<1>8. SegmentFits(segs[1], <<>>)
  BY <1>3, <1>6, <1>7 DEF Agrees, SegmentsFit
<1>9. HasParameter(segs[1])
  BY <1>5, <1>7, <1>8 DEF SegmentFits
<1>10. ValueOf(segs[1], <<>>) = <<>>
  <2>0. <<>> \in Seq(S)
    OBVIOUS
  <2>1. SegmentSays(segs[1], <<>>, Colon(segs[1]))
    BY <1>7, <2>0, SegmentIs
  <2>2. ValueOf(segs[1], <<>>) = SubSeq(<<>>, Colon(segs[1]), Len(<<>>)) /\ Colon(segs[1]) \in 1..(Len(segs[1]) + 1)
    BY <2>1 DEF SegmentSays
  <2>. QED
    BY <1>7, <2>2
<1>. QED
  BY <1>3, <1>6, <1>7, <1>9, <1>10 DEF Agrees, EndsEmpty

\* What the location has there is not what the path has.
LEMMA MeantDiffers ==
  ASSUME NEW S, NEW location \in Seq(S), NEW path \in Seq(S),
         NEW p \in 1..Len(location), NEW i \in 1..Len(path),
         location[p] # ":", location[p] # path[i], NEW params
  PROVE  ~Meant(params, location, path, p, i)
<1> SUFFICES ASSUME NEW u \in Trimmed(path), i <= Len(u) + 1,
                    Agrees(params, SegmentsFrom(location, p), SegmentsFrom(u, i), u = path)
             PROVE  FALSE
  BY DEF Meant
<1>1. OnPath(u, path, S)
  BY TrimmedIs
<1>2. u \in Seq(S) /\ i \in 1..(Len(u) + 1) /\ Len(u) \in Nat /\ (i <= Len(u) => u[i] = path[i])
  BY <1>1 DEF OnPath
<1>. DEFINE segs == SegmentsFrom(location, p)
            texts == SegmentsFrom(u, i)
<1>3. AreSegments(segs, S) /\ AreSegments(texts, S) /\ p \in 1..(Len(location) + 1)
  BY <1>2, SegmentsAreSegments
<1>4. SegmentsFit(segs, texts)
  BY DEF Agrees
<1>5. \/ location[p] = "/" /\ Len(segs) >= 2 /\ segs[1] = <<>>
      \/ location[p] # "/" /\ segs[1] # <<>> /\ segs[1][1] = location[p]
  BY FirstSegment DEF FirstIs
<1>6. i <= Len(u) => \/ u[i] = "/" /\ Len(texts) >= 2 /\ texts[1] = <<>>
                     \/ u[i] # "/" /\ texts[1] # <<>> /\ texts[1][1] = u[i]
  <2> SUFFICES ASSUME i <= Len(u)
               PROVE  \/ u[i] = "/" /\ Len(texts) >= 2 /\ texts[1] = <<>>
                      \/ u[i] # "/" /\ texts[1] # <<>> /\ texts[1][1] = u[i]
    OBVIOUS
  <2>1. i \in 1..Len(u)
    BY <1>2
  <2>. QED
    BY <1>2, <2>1, FirstSegment DEF FirstIs
<1>7. i > Len(u) => Len(texts) = 1 /\ texts[1] = <<>>
  BY <1>2, OneEmptySegment
<1>. HIDE DEF segs, texts
<1>8. Len(segs) = Len(texts) /\ SegmentFits(segs[1], texts[1]) /\ segs[1] \in Seq(S) /\ texts[1] \in Seq(S)
  <2>1. 1 \in 1..Len(segs) /\ 1 \in 1..Len(texts) /\ DOMAIN segs = 1..Len(segs)
        /\ segs \in Seq(Seq(S)) /\ texts \in Seq(Seq(S))
    BY <1>3 DEF AreSegments
  <2>2. segs[1] \in Seq(S) /\ texts[1] \in Seq(S)
    BY <2>1, ElementOfSeq
  <2>. QED
    BY <1>4, <2>1, <2>2 DEF SegmentsFit
<1>9. CASE location[p] = "/"
  <2>1. texts[1] = <<>> /\ Len(texts) >= 2
    BY <1>5, <1>8, <1>9, EmptyFits
  <2>0. ~(i > Len(u))
    <3>1. ~(1 >= 2)
      OBVIOUS
    <3>2. Len(texts) # 1
      BY <2>1, <3>1, Zenon
    <3>. QED
      BY <1>7, <3>2
  <2>2. i <= Len(u) /\ u[i] = "/"
    BY <1>2, <1>6, <2>0, <2>1
  <2>. QED
    BY <1>2, <1>9, <2>2
<1>10. CASE location[p] # "/"
  <2>. DEFINE x == segs[1]
              y == texts[1]
  <2>1. x \in Seq(S) /\ y \in Seq(S) /\ x # <<>> /\ x[1] = location[p] /\ SegmentFits(x, y)
    BY <1>5, <1>8, <1>10
  <2>. HIDE DEF x, y
  <2>2. SegmentSays(x, y, Colon(x))
    BY <2>1, SegmentIs
  <2>3. y # <<>> /\ y[1] = location[p]
    <3>1. CASE ~HasParameter(x)
      BY <2>1, <2>2, <3>1 DEF SegmentSays
    <3>2. CASE HasParameter(x)
      <4>. DEFINE f == Colon(x)
      <4>0. FoundAt(x, ":", 1, f)
        <5>1. 1 \in 1..(Len(x) + 1)
          BY <2>1
        <5>. QED
          BY <2>1, <5>1, FindIs DEF Colon
      <4>. HIDE DEF f
      <4>1. f \in 1..(Len(x) + 1) /\ f <= Len(x) /\ f - 1 <= Len(y) /\ \A k \in 1..(f - 1) : x[k] = y[k]
        BY <2>1, <2>2, <3>2 DEF SegmentSays, f
      <4>2. f # 1
        BY <2>1, <4>0, <4>1 DEF FoundAt
      <4>3. 1 \in 1..(f - 1) /\ Len(y) >= 1
        BY <2>1, <4>1, <4>2
      <4>. QED
        BY <2>1, <4>1, <4>3
    <3>. QED
      BY <3>1, <3>2
  <2>4. i <= Len(u) /\ u[i] = location[p]
    BY <1>2, <1>6, <1>7, <2>3 DEF y
  <2>. QED
    BY <1>2, <2>4
<1>. QED
  BY <1>9, <1>10

\* The same character on both.
LEMMA MeantEquals ==
  ASSUME NEW S, NEW location \in Seq(S), NEW path \in Seq(S),
         NEW p \in 1..Len(location), NEW i \in 1..Len(path),
         location[p] # ":", location[p] = path[i], NEW params
  PROVE  Meant(params, location, path, p, i) <=> Meant(params, location, path, p + 1, i + 1)
<1>. DEFINE more == SegmentsFrom(location, p)
            segs == SegmentsFrom(location, p + 1)
            c == location[p]
<1>0. p \in 1..(Len(location) + 1) /\ p + 1 \in 1..(Len(location) + 1) /\ c \in S
  OBVIOUS
<1>1. AreSegments(more, S) /\ AreSegments(segs, S) /\ FirstIs(more, segs, c)
  BY <1>0, SegmentsAreSegments, FirstSegment
<1>. HIDE DEF more, segs
<1>2. ASSUME NEW u \in Trimmed(path), i <= Len(u)
      PROVE  Agrees(params, more, SegmentsFrom(u, i), u = path)
               <=> Agrees(params, segs, SegmentsFrom(u, i + 1), u = path)
  <2>1. OnPath(u, path, S)
    BY TrimmedIs
  <2>2. /\ u \in Seq(S) /\ i \in 1..Len(u) /\ u[i] = c
        /\ i \in 1..(Len(u) + 1) /\ i + 1 \in 1..(Len(u) + 1)
    BY <1>2, <2>1 DEF OnPath
  <2>. DEFINE moreTexts == SegmentsFrom(u, i)
              texts == SegmentsFrom(u, i + 1)
              whole == (u = path)
  <2>3. AreSegments(moreTexts, S) /\ AreSegments(texts, S) /\ FirstIs(moreTexts, texts, c) /\ whole \in BOOLEAN
    BY <2>2, SegmentsAreSegments, FirstSegment
  <2>. HIDE DEF moreTexts, texts, whole, c
  <2>4. CASE c = "/"
    <3>1. Follows(more, segs) /\ Follows(moreTexts, texts)
      BY <1>1, <2>3, <2>4 DEF FirstIs
    <3>2. Agrees(params, more, moreTexts, whole) <=> Agrees(params, segs, texts, whole)
      BY <1>1, <2>3, <3>1, AgreesFollowing
    <3>. QED
      BY <3>2 DEF moreTexts, texts, whole
  <2>5. CASE c # "/"
    <3>1. Begins(more, segs, <<c>>) /\ Begins(moreTexts, texts, <<c>>) /\ c # ":"
      BY <1>1, <2>3, <2>5 DEF FirstIs, c
    <3>2. Agrees(params, more, moreTexts, whole) <=> Agrees(params, segs, texts, whole)
      BY <1>0, <1>1, <2>3, <3>1, AgreesMore
    <3>. QED
      BY <3>2 DEF moreTexts, texts, whole
  <2>. QED
    BY <2>4, <2>5
<1>3. ASSUME NEW u \in Trimmed(path), i <= Len(u) + 1, Agrees(params, more, SegmentsFrom(u, i), u = path)
      PROVE  i <= Len(u)
  <2> SUFFICES ASSUME ~(i <= Len(u)) PROVE FALSE
    OBVIOUS
  <2>1. OnPath(u, path, S)
    BY TrimmedIs
  <2>2. u \in Seq(S) /\ i = Len(u) + 1 /\ u # path /\ c = "/"
    BY <1>3, <2>1 DEF OnPath
  <2>. DEFINE texts == SegmentsFrom(u, i)
  <2>3. Len(texts) = 1
    BY <2>2, SegmentsAtEnd
  <2>4. Len(more) = Len(texts)
    BY <1>3 DEF Agrees, SegmentsFit
  <2>5. Len(more) >= 2
    BY <1>1, <2>2 DEF FirstIs
  <2>. QED
    BY <2>3, <2>4, <2>5
<1>4. \A u \in Trimmed(path) : Len(u) \in Nat
  BY TrimmedIs DEF OnPath
<1>5. \A u \in Trimmed(path) : (i + 1 <= Len(u) + 1 <=> i <= Len(u)) /\ (i <= Len(u) => i <= Len(u) + 1)
  BY <1>4
<1>. QED
  BY <1>2, <1>3, <1>5 DEF Meant, more, segs

\* On the path and without its last slash, the next '/' is at the same place.
LEMMA SlashOnPath ==
  ASSUME NEW S, NEW path \in Seq(S), NEW u, OnPath(u, path, S), NEW i \in 1..Len(path), i <= Len(u) + 1
  PROVE  Find(u, "/", i) = Find(path, "/", i)
<1>1. u \in Seq(S) /\ i \in 1..(Len(u) + 1) /\ i \in 1..(Len(path) + 1) /\ Len(u) \in Nat /\ Len(path) \in Nat
  BY DEF OnPath
<1>. DEFINE j == Find(path, "/", i)
<1>2. FoundAt(path, "/", i, j)
  BY <1>1, FindIs
<1>. HIDE DEF j
<1>3. j \in i..(Len(u) + 1)
  <2>1. CASE u = path
    BY <1>2, <2>1 DEF FoundAt
  <2>2. CASE u # path
    <3>1. Len(path) = Len(u) + 1 /\ path[Len(path)] = "/"
      BY <2>2 DEF OnPath
    <3>2. ~(Len(path) \in i..(j - 1))
      BY <1>2, <3>1 DEF FoundAt
    <3>3. j \in i..(Len(path) + 1)
      BY <1>2 DEF FoundAt
    <3>. QED
      BY <1>1, <3>1, <3>2, <3>3
  <2>. QED
    BY <2>1, <2>2
<1>4. \A k \in 1..Len(u) : u[k] = path[k]
  BY DEF OnPath
<1>5. j <= Len(u) => u[j] = "/"
  <2>1. j <= Len(u) => j <= Len(path) /\ j \in 1..Len(u)
    BY <1>1, <1>3 DEF OnPath
  <2>. QED
    BY <1>2, <1>4, <2>1 DEF FoundAt
<1>6. \A k \in i..(j - 1) : u[k] # "/"
  <2>1. \A k \in i..(j - 1) : k \in 1..Len(u) /\ path[k] # "/"
    BY <1>1, <1>2, <1>3 DEF FoundAt
  <2>. QED
    BY <1>4, <2>1
<1>7. FoundAt(u, "/", i, j)
  BY <1>3, <1>5, <1>6 DEF FoundAt
<1>. QED
  BY <1>1, <1>7, FoundOnce DEF j

\* A segment up to the next cut.
LEMMA SegmentToCut ==
  ASSUME NEW S, NEW text \in Seq(S), NEW i \in 1..(Len(text) + 1), NEW from \in i..(Len(text) + 1),
         \A m \in i..(from - 1) : text[m] # "/", NEW j, j = Find(text, "/", from)
  PROVE  /\ j \in from..(Len(text) + 1)
         /\ TakesFirst(SegmentsFrom(text, i), SegmentsFrom(text, j))
         /\ SegmentsFrom(text, i)[1] = SubSeq(text, i, j - 1)
<1>0. from \in 1..(Len(text) + 1) /\ Len(text) \in Nat
  OBVIOUS
<1>1. FoundAt(text, "/", from, j)
  BY <1>0, FindIs
<1>2. j \in from..(Len(text) + 1) /\ j \in 1..(Len(text) + 1) /\ i \in 1..j
  BY <1>0, <1>1 DEF FoundAt
<1>3. \A m \in i..(j - 1) : text[m] # "/"
  <2>1. \A m \in i..(j - 1) : m \in i..(from - 1) \/ m \in from..(j - 1)
    BY <1>0, <1>2
  <2>. QED
    BY <1>1, <2>1 DEF FoundAt
<1>. DEFINE segs == SegmentsFrom(text, i)
            later == SegmentsFrom(text, j)
            head == SubSeq(text, i, j - 1)
<1>4. Begins(segs, later, head)
  BY <1>2, <1>3, SegmentsBefore
<1>5. later[1] = <<>>
  BY <1>1, <1>2, CutSegment DEF FoundAt
<1>6. head \in Seq(S)
  BY <1>2
<1>. HIDE DEF segs, later, head
<1>7. segs[1] = head
  <2>1. segs[1] = head \o <<>>
    BY <1>4, <1>5 DEF Begins
  <2>. QED
    BY <1>6, <2>1
<1>8. TakesFirst(segs, later)
  BY <1>4, <1>5 DEF Begins, TakesFirst
<1>. QED
  BY <1>2, <1>7, <1>8 DEF segs, later, head

\* The part of a text from a place to another.
IsSlice(x, text, a, b, S) ==
  /\ x \in Seq(S) /\ Len(x) = (b + 1) - a
  /\ \A k \in 1..((b + 1) - a) : x[k] = text[a + k - 1]

\* SubSeq gives it.
LEMMA SliceIs ==
  ASSUME NEW S, NEW text \in Seq(S), NEW a \in 1..(Len(text) + 1), NEW b \in (a - 1)..Len(text)
  PROVE  IsSlice(SubSeq(text, a, b), text, a, b, S)
<1>1. a \in Nat /\ b \in Nat /\ Len(text) \in Nat /\ a >= 1 /\ b >= a - 1 /\ b <= Len(text)
  OBVIOUS
<1>2. SubSeq(text, a, b) \in Seq(S)
  BY <1>1
<1>3. Len(SubSeq(text, a, b)) = (b + 1) - a
  BY <1>1
<1>4. \A k \in 1..((b + 1) - a) : SubSeq(text, a, b)[k] = text[a + k - 1]
  BY <1>1
<1>. QED
  BY <1>2, <1>3, <1>4 DEF IsSlice

\* The segment of a parameter is its ':' and its name.
ParameterOf(x, name, S) == x \in Seq(S) /\ x # <<>> /\ x[1] = ":" /\ SubSeq(x, 2, Len(x)) = name

\* The segment of a parameter is so.
LEMMA NameOfSegment ==
  ASSUME NEW S, NEW location \in Seq(S), NEW p \in 1..Len(location), location[p] = ":",
         NEW q \in (p + 1)..(Len(location) + 1), NEW x, x = SubSeq(location, p, q - 1),
         NEW name, name = SubSeq(location, p + 1, q - 1)
  PROVE  ParameterOf(x, name, S)
<1>. DEFINE rest == SubSeq(x, 2, Len(x))
<1>1. /\ p \in Nat /\ q \in Nat /\ Len(location) \in Nat
      /\ p >= 1 /\ p <= Len(location) /\ q >= p + 1 /\ q <= Len(location) + 1
  OBVIOUS
<1>2. /\ p \in 1..(Len(location) + 1) /\ q - 1 \in (p - 1)..Len(location)
      /\ p + 1 \in 1..(Len(location) + 1) /\ q - 1 \in ((p + 1) - 1)..Len(location)
  BY <1>1
<1>3. IsSlice(x, location, p, q - 1, S)
  BY <1>2, SliceIs
<1>4. IsSlice(name, location, p + 1, q - 1, S)
  BY <1>2, SliceIs
<1>5. x \in Seq(S) /\ Len(x) = q - p /\ \A k \in 1..(q - p) : x[k] = location[p + k - 1]
  BY <1>1, <1>3 DEF IsSlice
<1>6. 2 \in 1..(Len(x) + 1) /\ Len(x) \in (2 - 1)..Len(x)
  BY <1>1, <1>5
<1>7. IsSlice(rest, x, 2, Len(x), S)
  BY <1>5, <1>6, SliceIs
<1>. HIDE DEF rest
<1>8. rest \in Seq(S) /\ Len(rest) = (q - p) - 1 /\ \A k \in 1..((q - p) - 1) : rest[k] = x[k + 1]
  BY <1>1, <1>5, <1>7 DEF IsSlice
<1>9. name \in Seq(S) /\ Len(name) = (q - p) - 1 /\ \A k \in 1..((q - p) - 1) : name[k] = location[p + k]
  BY <1>1, <1>4 DEF IsSlice
<1>10. ASSUME NEW k \in 1..((q - p) - 1) PROVE rest[k] = name[k]
  <2>1. k + 1 \in 1..(q - p) /\ p + (k + 1) - 1 = p + k
    BY <1>1
  <2>. QED
    BY <1>5, <1>8, <1>9, <2>1
<1>11. rest = name
  BY <1>8, <1>9, <1>10, SeqEqual
<1>12. x # <<>> /\ x[1] = ":"
  <2>1. 1 \in 1..(q - p) /\ p + 1 - 1 = p /\ Len(x) >= 1
    BY <1>1, <1>5
  <2>. QED
    BY <1>5, <2>1
<1>. QED
  BY <1>5, <1>11, <1>12 DEF ParameterOf, rest

\* What a parameter takes is the same with the slash at the end of the path or without.
LEMMA ValueOnPath ==
  ASSUME NEW S, NEW path \in Seq(S), NEW u, OnPath(u, path, S), NEW i \in 1..Len(path),
         NEW j, j = Find(path, "/", i), j \in i..(Len(u) + 1), NEW value, value = ValueAt(path, i)
  PROVE  /\ SubSeq(u, i, j - 1) = value /\ value \in Seq(S)
         /\ value = <<>> => j = i /\ path[i] = "/"
<1>. DEFINE a == SubSeq(u, i, j - 1)
<1>1. /\ FoundAt(path, "/", i, j) /\ j \in i..(Len(path) + 1)
  <2>1. i \in 1..(Len(path) + 1)
    OBVIOUS
  <2>. QED
    BY <2>1, FindIs DEF FoundAt
<1>2. /\ u \in Seq(S) /\ Len(u) \in Nat /\ Len(path) \in Nat /\ i \in Nat /\ j \in Nat
      /\ i >= 1 /\ i <= Len(path) /\ j >= i /\ j <= Len(u) + 1 /\ j <= Len(path) + 1
  BY <1>1 DEF OnPath
<1>3. /\ i \in 1..(Len(u) + 1) /\ j - 1 \in (i - 1)..Len(u)
      /\ i \in 1..(Len(path) + 1) /\ j - 1 \in (i - 1)..Len(path)
  BY <1>2
<1>4. IsSlice(a, u, i, j - 1, S)
  BY <1>2, <1>3, SliceIs
<1>5. value = SubSeq(path, i, j - 1)
  BY DEF ValueAt
<1>6. IsSlice(value, path, i, j - 1, S)
  BY <1>3, <1>5, SliceIs
<1>. HIDE DEF a
<1>7. a \in Seq(S) /\ Len(a) = j - i /\ \A k \in 1..(j - i) : a[k] = u[i + k - 1]
  BY <1>2, <1>4 DEF IsSlice
<1>8. value \in Seq(S) /\ Len(value) = j - i /\ \A k \in 1..(j - i) : value[k] = path[i + k - 1]
  BY <1>2, <1>6 DEF IsSlice
<1>9. ASSUME NEW k \in 1..(j - i) PROVE a[k] = value[k]
  <2>1. i + k - 1 \in 1..Len(u)
    BY <1>2
  <2>. QED
    BY <1>7, <1>8, <2>1 DEF OnPath
<1>10. a = value
  BY <1>7, <1>8, <1>9, SeqEqual
<1>11. ASSUME value = <<>> PROVE j = i /\ path[i] = "/"
  <2>1. j = i
    BY <1>2, <1>8, <1>11
  <2>. QED
    BY <1>1, <1>2, <2>1 DEF FoundAt
<1>. QED
  BY <1>8, <1>10, <1>11 DEF a

\* A parameter of the location takes a segment of the path.
Taking(params, location, path, u, p, i, q, j) ==
  /\ j <= Len(u) + 1
  /\ Agrees(params, SegmentsFrom(location, p), SegmentsFrom(u, i), u = path) <=>
       \E later : /\ Agrees(later, SegmentsFrom(location, q), SegmentsFrom(u, j), u = path)
                  /\ params = WithDefault(later, NameAt(location, p), ValueAt(path, i))

\* What the rest means is what is meant further on, with that parameter.
LEMMA MeantTakes ==
  ASSUME NEW S, NEW location \in Seq(S), NEW path \in Seq(S),
         NEW p \in 1..Len(location), NEW i \in 1..Len(path), location[p] = ":",
         NEW q, q = Find(location, "/", p + 1), NEW j, j = Find(path, "/", i), NEW params
  PROVE  Meant(params, location, path, p, i) <=>
           \E later : Meant(later, location, path, q, j)
                      /\ params = WithDefault(later, NameAt(location, p), ValueAt(path, i))
<1>. DEFINE name == NameAt(location, p)
            value == ValueAt(path, i)
            more == SegmentsFrom(location, p)
            segs == SegmentsFrom(location, q)
<1>0. Len(location) \in Nat /\ Len(path) \in Nat /\ ":" # "/"
  OBVIOUS
<1>1. /\ q \in (p + 1)..(Len(location) + 1) /\ TakesFirst(more, segs)
      /\ more[1] = SubSeq(location, p, q - 1)
  <2>1. /\ p \in 1..(Len(location) + 1) /\ p + 1 \in p..(Len(location) + 1)
        /\ \A m \in p..((p + 1) - 1) : location[m] # "/"
    BY <1>0
  <2>2. q \in (p + 1)..(Len(location) + 1)
    BY <2>1, SegmentToCut
  <2>3. TakesFirst(more, segs)
    BY <2>1, SegmentToCut
  <2>4. more[1] = SubSeq(location, p, q - 1)
    BY <2>1, SegmentToCut
  <2>. QED
    BY <2>2, <2>3, <2>4
<1>2. AreSegments(more, S) /\ AreSegments(segs, S)
  <2>1. p \in 1..(Len(location) + 1) /\ q \in 1..(Len(location) + 1)
    BY <1>0, <1>1
  <2>. QED
    BY <2>1, SegmentsAreSegments
<1>3. j \in i..(Len(path) + 1)
  <2>1. i \in 1..(Len(path) + 1)
    OBVIOUS
  <2>. QED
    BY <2>1, FindIs DEF FoundAt
<1>4. more[1] \in Seq(S) /\ more[1] # <<>> /\ more[1][1] = ":" /\ SubSeq(more[1], 2, Len(more[1])) = name
  <2>1. name = SubSeq(location, p + 1, q - 1)
    BY DEF NameAt
  <2>. HIDE DEF name, more
  <2>2. ASSUME NEW x, x = SubSeq(location, p, q - 1) PROVE ParameterOf(x, name, S)
    BY <1>1, <2>1, <2>2, NameOfSegment
  <2>. QED
    BY <1>1, <2>2 DEF ParameterOf
<1>. HIDE DEF segs, more, name, value
<1>5. ASSUME NEW u \in Trimmed(path), i <= Len(u) + 1
      PROVE  Taking(params, location, path, u, p, i, q, j)
  <2>1. OnPath(u, path, S)
    BY TrimmedIs
  <2>2. j = Find(u, "/", i)
    BY <1>5, <2>1, SlashOnPath
  <2>3. u \in Seq(S) /\ i \in 1..(Len(u) + 1) /\ i \in i..(Len(u) + 1) /\ \A m \in i..(i - 1) : u[m] # "/"
    BY <1>5, <2>1 DEF OnPath
  <2>. DEFINE moreTexts == SegmentsFrom(u, i)
              texts == SegmentsFrom(u, j)
              whole == (u = path)
  <2>4. j \in i..(Len(u) + 1)
    BY <2>2, <2>3, SegmentToCut
  <2>5. TakesFirst(moreTexts, texts)
    BY <2>2, <2>3, SegmentToCut
  <2>6. moreTexts[1] = SubSeq(u, i, j - 1)
    BY <2>2, <2>3, SegmentToCut
  <2>7. AreSegments(moreTexts, S) /\ AreSegments(texts, S) /\ whole \in BOOLEAN
    <3>1. j \in 1..(Len(u) + 1)
      BY <2>3, <2>4
    <3>. QED
      BY <2>3, <3>1, SegmentsAreSegments
  <2>8. SubSeq(u, i, j - 1) = value /\ value \in Seq(S)
    BY <2>1, <2>4, ValueOnPath DEF value
  <2>9. value = <<>> => j = i /\ path[i] = "/"
    BY <2>1, <2>4, ValueOnPath DEF value
  <2>. HIDE DEF moreTexts
  <2>10. /\ HasParameter(more[1]) /\ SegmentFits(more[1], moreTexts[1])
         /\ name = NameOf(more[1]) /\ value = ValueOf(more[1], moreTexts[1])
    BY <1>4, <2>6, <2>8, ParameterIs
  <2>11. whole /\ Len(texts) = 1 => value # <<>>
    <3> SUFFICES ASSUME whole, Len(texts) = 1, value = <<>> PROVE FALSE
      OBVIOUS
    <3>1. j = i /\ path[i] = "/" /\ u = path
      BY <2>9
    <3>2. FirstIs(texts, SegmentsFrom(path, i + 1), "/")
      BY <3>1, FirstSegment
    <3>3. Len(texts) >= 2
      <4>1. AreSegments(SegmentsFrom(path, i + 1), S)
        <5>1. i + 1 \in 1..(Len(path) + 1)
          BY <1>0
        <5>. QED
          BY <5>1, SegmentsAreSegments
      <4>. QED
        BY <3>2, <4>1 DEF FirstIs, Follows, AreSegments
    <3>4. ~(1 >= 2)
      OBVIOUS
    <3>. QED
      BY <3>3, <3>4
  <2>. HIDE DEF texts, whole
  <2>12. Agrees(params, more, moreTexts, whole) <=>
           \E later : Agrees(later, segs, texts, whole) /\ params = WithDefault(later, name, value)
    <3> SUFFICES ASSUME NEW w \in BOOLEAN, w = whole
                 PROVE  AddsTaken(params, more, moreTexts, segs, texts, w, name, value)
      BY <2>7 DEF AddsTaken
    <3>1. w /\ Len(texts) = 1 => value # <<>>
      BY <2>11
    <3>2. TakesFirst(more, segs)
      BY <1>1
    <3>3. HasParameter(more[1])
      BY <2>10
    <3>4. SegmentFits(more[1], moreTexts[1])
      BY <2>10
    <3>5. name = NameOf(more[1])
      BY <2>10
    <3>6. value = ValueOf(more[1], moreTexts[1])
      BY <2>10
    <3>7. AreSegments(moreTexts, S)
      BY <2>7
    <3>8. AreSegments(texts, S)
      BY <2>7
    <3>9. AreSegments(more, S)
      BY <1>2
    <3>10. AreSegments(segs, S)
      BY <1>2
    <3>. QED
      BY <2>5, <3>1, <3>2, <3>3, <3>4, <3>5, <3>6, <3>7, <3>8, <3>9, <3>10, AgreesTaking
  <2>13. j <= Len(u) + 1
    BY <2>3, <2>4
  <2>. QED
    BY <2>12, <2>13 DEF Taking, moreTexts, texts, whole, more, segs, name, value
<1>6. \A u \in Trimmed(path) : i <= Len(u) + 1 <=> j <= Len(u) + 1
  <2>1. \A u \in Trimmed(path) : Len(u) \in Nat
    BY TrimmedIs DEF OnPath
  <2>2. \A u \in Trimmed(path) : i <= Len(u) + 1 => j <= Len(u) + 1
    BY <1>5 DEF Taking
  <2>. QED
    BY <1>0, <1>3, <2>1, <2>2
<1>. QED
  BY <1>5, <1>6 DEF Meant, Taking, more, segs, name, value

\* What match_pattern finds from a place on is what the rest of the location means.
LEMMA MatchIsMeant ==
  ASSUME NEW S, NEW location \in Seq(S), NEW path \in Seq(S), NEW match,
         Matching(match, location, path, S), NEW at \in Places(location, path)
  PROVE  \A params : params \in match[at] <=> Meant(params, location, path, at[1], at[2])
<1>. DEFINE D == Places(location, path)
            measure == [e \in D |-> (Len(location) + 1) - e[1]]
            T == {e \in D : \A params : params \in match[e] <=> Meant(params, location, path, e[1], e[2])}
<1>1. /\ measure \in [D -> Nat]
      /\ \A e \in D : e[1] \in 1..(Len(location) + 1) /\ e[2] \in 1..(Len(path) + 1)
  BY DEF Places
<1>2. ASSUME NEW d \in D, \A e \in D : measure[e] < measure[d] => e \in T PROVE d \in T
  <2>. DEFINE p == d[1]
              i == d[2]
  <2>0. p \in 1..(Len(location) + 1) /\ i \in 1..(Len(path) + 1) /\ Len(location) \in Nat /\ Len(path) \in Nat
    BY <1>1
  <2>1. \A e \in D : e[1] > p => \A params : params \in match[e] <=> Meant(params, location, path, e[1], e[2])
    <3>1. \A e \in D : e[1] > p => measure[e] < measure[d]
      BY <1>1
    <3>. QED
      BY <1>2, <3>1
  <2>2. match[d] = MatchFrom(location, path, match, p, i)
    BY DEF Matching
  <2>. HIDE DEF p, i
  <2>3. ASSUME NEW params PROVE params \in match[d] <=> Meant(params, location, path, p, i)
    <3>0. params \in match[d] <=>
            \/ Ends(params, location, path, p, i)
            \/ Takes(params, location, path, match, p, i)
            \/ Equals(params, location, path, match, p, i)
      BY <2>0, <2>2, MatchFromIs
    <3>1. CASE p > Len(location)
      <4>1. ~(p <= Len(location))
        BY <2>0, <3>1
      <4>2. Meant(params, location, path, p, i) <=> TrailingSlash(path, i) /\ params = <<>>
        BY <2>0, <3>1, MeantAtEnd
      <4>. QED
        BY <3>0, <3>1, <4>1, <4>2 DEF Ends, Takes, Equals
    <3>2. CASE p <= Len(location) /\ i > Len(path)
      <4>1. p \in 1..Len(location) /\ ~(i <= Len(path)) /\ ~(p > Len(location))
        BY <2>0, <3>2
      <4>2. ~Meant(params, location, path, p, i)
        BY <2>0, <3>2, <4>1, MeantBeyond
      <4>. QED
        BY <3>0, <4>1, <4>2 DEF Ends, Takes, Equals
    <3>3. CASE p <= Len(location) /\ i <= Len(path) /\ location[p] = ":"
      <4>1. p \in 1..Len(location) /\ i \in 1..Len(path) /\ ~(p > Len(location))
        BY <2>0, <3>3
      <4>. DEFINE further == Beyond(location, path, p, i)
      <4>2. further \in D /\ further[1] > p
        BY <4>1, BeyondIs
      <4>3. \A later : later \in match[further] <=> Meant(later, location, path, further[1], further[2])
        BY <2>1, <4>2
      <4>4. further[1] = Find(location, "/", p + 1) /\ further[2] = Find(path, "/", i)
        BY DEF Beyond
      <4>5. params \in match[d] <=>
              \E later \in match[further] : params = WithDefault(later, NameAt(location, p), ValueAt(path, i))
        BY <3>0, <3>3, <4>1 DEF Ends, Takes, Equals
      <4>. HIDE DEF further
      <4>6. Meant(params, location, path, p, i) <=>
              \E later : Meant(later, location, path, further[1], further[2])
                         /\ params = WithDefault(later, NameAt(location, p), ValueAt(path, i))
        BY <3>3, <4>1, <4>4, MeantTakes
      <4>. QED
        BY <4>3, <4>5, <4>6
    <3>4. CASE p <= Len(location) /\ i <= Len(path) /\ location[p] # ":"
      <4>1. p \in 1..Len(location) /\ i \in 1..Len(path) /\ ~(p > Len(location))
        BY <2>0, <3>4
      <4>2. <<p + 1, i + 1>> \in D /\ <<p + 1, i + 1>>[1] > p
        BY <4>1 DEF Places
      <4>3. params \in match[<<p + 1, i + 1>>] <=> Meant(params, location, path, p + 1, i + 1)
        BY <2>1, <4>2
      <4>4. params \in match[d] <=> location[p] = path[i] /\ params \in match[<<p + 1, i + 1>>]
        BY <3>0, <3>4, <4>1 DEF Ends, Takes, Equals
      <4>5. CASE location[p] = path[i]
        BY <3>4, <4>1, <4>3, <4>4, <4>5, MeantEquals
      <4>6. CASE location[p] # path[i]
        BY <3>4, <4>1, <4>4, <4>6, MeantDiffers
      <4>. QED
        BY <4>5, <4>6
    <3>. QED
      BY <2>0, <3>1, <3>2, <3>3, <3>4
  <2>. QED
    BY <2>3 DEF p, i
<1>3. \A e \in D : e \in T
  <2>. HIDE DEF D, T, measure
  <2>. QED
    BY <1>1, <1>2, MeasureInduction
<1>. QED
  BY <1>3

\* It finds one at most.
LEMMA MatchesOnce ==
  ASSUME NEW S, NEW location \in Seq(S), NEW path \in Seq(S),
         NEW a \in MatchPattern(location, path), NEW b \in MatchPattern(location, path)
  PROVE  a = b
<1>1. PICK match : Matching(match, location, path, S) /\ MatchPattern(location, path) = match[<<1, 1>>]
  BY MatchPatternDef
<1>. DEFINE D == Places(location, path)
            measure == [e \in D |-> (Len(location) + 1) - e[1]]
            T == {e \in D : \A x, y \in match[e] : x = y}
<1>2. /\ measure \in [D -> Nat] /\ <<1, 1>> \in D
      /\ \A e \in D : e[1] \in 1..(Len(location) + 1) /\ e[2] \in 1..(Len(path) + 1)
  BY DEF Places
<1>3. ASSUME NEW d \in D, \A e \in D : measure[e] < measure[d] => e \in T PROVE d \in T
  <2>. DEFINE p == d[1]
              i == d[2]
  <2>0. p \in 1..(Len(location) + 1) /\ i \in 1..(Len(path) + 1) /\ Len(location) \in Nat /\ Len(path) \in Nat
    BY <1>2
  <2>1. \A e \in D : e[1] > p => \A x, y \in match[e] : x = y
    <3>1. \A e \in D : e[1] > p => measure[e] < measure[d]
      BY <1>2
    <3>. QED
      BY <1>3, <3>1
  <2>2. match[d] = MatchFrom(location, path, match, p, i)
    BY <1>1 DEF Matching
  <2>. HIDE DEF p, i
  <2>3. ASSUME NEW x \in match[d], NEW y \in match[d] PROVE x = y
    <3>1. \A z \in match[d] : \/ Ends(z, location, path, p, i)
                              \/ Takes(z, location, path, match, p, i)
                              \/ Equals(z, location, path, match, p, i)
      BY <2>0, <2>2, MatchFromIs
    <3>2. CASE p > Len(location)
      BY <2>0, <3>1, <3>2 DEF Ends, Takes, Equals
    <3>3. CASE p <= Len(location) /\ i <= Len(path) /\ location[p] = ":"
      <4>1. p \in 1..Len(location) /\ i \in 1..Len(path) /\ ~(p > Len(location))
        BY <2>0, <3>3
      <4>. DEFINE further == Beyond(location, path, p, i)
      <4>2. further \in D /\ further[1] > p
        BY <4>1, BeyondIs
      <4>3. \A e, f \in match[further] : e = f
        BY <2>1, <4>2
      <4>4. \A z \in match[d] : \E e \in match[further] : z = WithDefault(e, NameAt(location, p), ValueAt(path, i))
        BY <3>1, <3>3, <4>1 DEF Ends, Takes, Equals
      <4>. QED
        BY <4>3, <4>4
    <3>4. CASE p <= Len(location) /\ i <= Len(path) /\ location[p] # ":"
      <4>1. <<p + 1, i + 1>> \in D /\ <<p + 1, i + 1>>[1] > p /\ ~(p > Len(location))
        BY <2>0, <3>4 DEF Places
      <4>2. x \in match[<<p + 1, i + 1>>] /\ y \in match[<<p + 1, i + 1>>]
        BY <3>1, <3>4, <4>1 DEF Ends, Takes, Equals
      <4>. QED
        BY <2>1, <4>1, <4>2
    <3>5. CASE p <= Len(location) /\ i > Len(path)
      BY <2>0, <3>1, <3>5 DEF Ends, Takes, Equals
    <3>. QED
      BY <2>0, <3>2, <3>3, <3>4, <3>5
  <2>. QED
    BY <2>3
<1>4. \A e \in D : e \in T
  <2>. HIDE DEF D, T, measure
  <2>. QED
    BY <1>2, <1>3, MeasureInduction
<1>5. \A x, y \in match[<<1, 1>>] : x = y
  BY <1>2, <1>4
<1>. QED
  BY <1>1, <1>5

\* match_pattern, which goes character by character, finds what the segments mean.
LEMMA MatchesBySegments ==
  ASSUME NEW S, NEW location \in Seq(S), NEW path \in Seq(S)
  PROVE  BySegments(location, path) = MatchPattern(location, path)
<1>1. PICK match : Matching(match, location, path, S) /\ MatchPattern(location, path) = match[<<1, 1>>]
  BY MatchPatternDef
<1>2. <<1, 1>> \in Places(location, path) /\ <<1, 1>>[1] = 1 /\ <<1, 1>>[2] = 1
  BY DEF Places
<1>3. \A params : params \in match[<<1, 1>>] <=> Meant(params, location, path, 1, 1)
  BY <1>1, <1>2, MatchIsMeant
<1>. DEFINE segs == SegmentsFrom(location, 1)
<1>4. segs \in Seq(Seq(S))
  <2>1. 1 \in 1..(Len(location) + 1)
    OBVIOUS
  <2>. QED
    BY <2>1, SegmentsType
<1>. HIDE DEF segs
<1>5. \A params, u :
        Agrees(params, segs, SegmentsFrom(u, 1), u = path) <=>
          /\ SegmentsFit(segs, SegmentsFrom(u, 1)) /\ ~(u = path /\ EndsEmpty(segs, SegmentsFrom(u, 1)))
          /\ params = Extracted(segs, SegmentsFrom(u, 1))
  <2> SUFFICES ASSUME NEW params, NEW u, NEW texts, texts = SegmentsFrom(u, 1), NEW whole, whole = (u = path)
               PROVE  Agrees(params, segs, texts, whole) <=>
                        /\ SegmentsFit(segs, texts) /\ ~(whole /\ EndsEmpty(segs, texts))
                        /\ params = Extracted(segs, texts)
    BY Zenon
  <2>1. Gives(params, segs, texts) <=> params = Extracted(segs, texts)
    BY <1>4, ExtractedGives
  <2>. QED
    BY <2>1 DEF Agrees
<1>6. \A u \in Trimmed(path) : 1 <= Len(u) + 1
  <2>1. \A u \in Trimmed(path) : Len(u) \in Nat
    BY TrimmedIs DEF OnPath
  <2>. QED
    BY <2>1
<1>7. ASSUME NEW params PROVE params \in BySegments(location, path) <=> Meant(params, location, path, 1, 1)
  <2>1. Meant(params, location, path, 1, 1) <=>
          \E u \in Trimmed(path) : Agrees(params, segs, SegmentsFrom(u, 1), u = path)
    BY <1>6 DEF Meant, segs
  <2>2. params \in BySegments(location, path) <=>
          \E u \in Trimmed(path) :
            /\ SegmentsFit(segs, SegmentsFrom(u, 1)) /\ ~(u = path /\ EndsEmpty(segs, SegmentsFrom(u, 1)))
            /\ params = Extracted(segs, SegmentsFrom(u, 1))
    BY Zenon DEF BySegments, SegmentsOf, segs
  <2>. QED
    BY <1>5, <2>1, <2>2
<1>8. \A params : params \in BySegments(location, path) <=> params \in MatchPattern(location, path)
  BY <1>1, <1>3, <1>7
<1>. QED
  BY <1>8

\* A set that is what match_pattern finds for an entry.
Means(means, entry, path) ==
  means = MatchPattern(entry.location, Before(path, "?")) /\ \A a, b \in means : a = b

\* What an entry means for a path is what match_pattern finds, once at most.
LEMMA EntryMeans ==
  ASSUME NEW path \in Seq(Text), NEW entry \in Entry,
         NEW means, means = BySegments(entry.location, Before(path, "?"))
  PROVE  Means(means, entry, path)
<1>1. entry.location \in Seq(Text)
  <2>1. entry.location \in Seq(STRING)
    BY RouterAssumption DEF Entry
  <2>2. STRING \subseteq Text
    BY DEF Text
  <2>. QED
    BY <2>1, <2>2, SeqMonotone
<1>2. Before(path, "?") \in Seq(Text)
  BY SplitInTwo
<1>3. BySegments(entry.location, Before(path, "?")) = MatchPattern(entry.location, Before(path, "?"))
  <2> SUFFICES ASSUME NEW location \in Seq(Text), NEW bare \in Seq(Text)
               PROVE  BySegments(location, bare) = MatchPattern(location, bare)
    BY <1>1, <1>2
  <2>. QED
    BY MatchesBySegments
<1>4. \A a, b \in MatchPattern(entry.location, Before(path, "?")) : a = b
  BY <1>1, <1>2, MatchesOnce
<1>. QED
  BY <1>3, <1>4 DEF Means

\* Routing a request, one resource is chosen as the segments say.
LEMMA RoutingIsBySegments ==
  ASSUME RoutesInv, NEW req \in Request, NotFound(req) \/ Serve(req)
  PROVE  MatchIsBySegments'
<1>. DEFINE handlers == resources[Handled(req.method)]
<1>1. MostSpecific' /\ added' = added
  BY RoutingIsSpecific DEF NotFound, Serve
<1>2. PICK path \in UrlDecode(req.uri) :
        /\ served'.request = req /\ served'.path = path
        /\ \/ served'.status = "not_found"
           \/ /\ served'.status = "served"
              /\ \E k \in First(handlers, path) :
                    served'.by = handlers[k] /\ served'.given \in Given(handlers[k], path)
  <2>1. CASE NotFound(req)
    BY <2>1 DEF NotFound
  <2>2. CASE Serve(req)
    BY <2>2 DEF Serve
  <2>. QED
    BY <2>1, <2>2
<1>3. path \in Seq(Text)
  BY DecodeType, RouterAssumption DEF Request
<1>4. served' # Unserved
  BY DEF NotFound, Serve, Unserved
<1>5. ASSUME NEW entry \in Dynamic(req.method), NEW means, means = BySegments(entry.location, Before(path, "?"))
      PROVE  IF served'.status = "served" /\ served'.by = entry THEN means = {served'.given.resources}
             ELSE means = {} \/ (served'.status = "served" /\ Len(entry.location) <= Len(served'.by.location))
  <2>1. entry \in Entry /\ entry.kind = "dynamic"
    BY DEF Dynamic, RoutesInv
  <2>2. means = MatchPattern(entry.location, Before(path, "?")) /\ \A a, b \in means : a = b
    <3>1. Means(means, entry, path)
      BY <1>3, <1>5, <2>1, EntryMeans
    <3>. QED
      BY <3>1 DEF Means
  <2>3. means # {} => entry \in Candidates(req, path)
    BY <2>1, <2>2 DEF Candidates, Dynamic, Matches
  <2>4. CASE served'.status = "served" /\ served'.by = entry
    <3>1. served'.given \in Given(entry, path)
      BY <1>2, <2>4
    <3>2. served'.given.resources \in means
      BY <2>1, <2>2, <3>1 DEF Given
    <3>. QED
      BY <2>2, <2>4, <3>2
  <2>5. CASE ~(served'.status = "served" /\ served'.by = entry)
    <3>1. Candidates(req, path)' = Candidates(req, path)
      BY <1>1 DEF Candidates
    <3>2. means # {} => served'.status = "served" /\ Len(entry.location) <= Len(served'.by.location)
      BY <1>1, <1>2, <1>4, <2>3, <3>1 DEF MostSpecific, Candidates
    <3>. QED
      BY <2>5, <3>2
  <2>. QED
    BY <2>4, <2>5
<1>6. Dynamic(req.method)' = Dynamic(req.method)
  BY <1>1 DEF Dynamic
<1>. QED
  BY <1>1, <1>2, <1>5, <1>6 DEF MatchIsBySegments, Dynamic

\* For any locations and uris: a dynamic resource serves the paths that match its
\* location segment by segment, with the parameters that are in the segments.
THEOREM MatchingIsBySegments == RouterSpec => []MatchIsBySegments
<1>1. RouterInit => MatchIsBySegments
  BY DEF RouterInit, MatchIsBySegments
<1>2. RoutesInv /\ MatchIsBySegments /\ [RouterNext]_rvars => MatchIsBySegments'
  <2> SUFFICES ASSUME RoutesInv, MatchIsBySegments, [RouterNext]_rvars PROVE MatchIsBySegments'
    OBVIOUS
  <2>1. CASE UNCHANGED rvars
    BY <2>1 DEF rvars, MatchIsBySegments, Dynamic
  <2>2. ASSUME NEW method, NEW location, NEW kind, served = Unserved, Add(method, location, kind)
        PROVE  MatchIsBySegments'
    BY <2>2 DEF Add, MatchIsBySegments
  <2>3. ASSUME NEW req \in Request, BadRequest(req) PROVE MatchIsBySegments'
    <3>1. served'.status = "bad_request"
      BY <2>3 DEF BadRequest
    <3>. QED
      BY <3>1 DEF MatchIsBySegments
  <2>. QED
    BY <2>1, <2>2, <2>3, RoutingIsBySegments DEF RouterNext
<1>. QED
  BY <1>1, <1>2, RoutesInvariance, PTL DEF RouterSpec

=============================================================================
