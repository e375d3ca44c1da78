-------------------------- MODULE ReturnHandlerProofs --------------------------
(***************************************************************************)
(* What the handler of a "return" section guarantees for any section, any  *)
(* request and any number of headers: the parts of a text, the fields of a *)
(* request, what is filled in, the blocks of a reply on the wire, and the  *)
(* invariant of the loop over the entries.                                 *)
(***************************************************************************)
EXTENDS ReturnHandler, SequenceLemmas

-----------------------------------------------------------------------------
(***************************************************************************)
(* The parts of a text.                                                    *)
(***************************************************************************)
\* Replaced: the text before the first occurrence, what replaces it, the text after.
LEMMA ReplacedFirst ==
  ASSUME NEW S, NEW text \in Seq(S), NEW by \in Seq(S), NEW variable,
         NEW k \in Nat, FirstAt(text, variable, k)
  PROVE  Replaced(text, variable, by) = (SubSeq(text, 1, k - 1) \o by) \o SubSeq(text, k + 1, Len(text))
<1>. DEFINE start(i) == SubSeq(text, 1, i)
<1>0. /\ Len(text) \in Nat /\ k \in Nat /\ k <= Len(text) /\ k >= 1 /\ text[k] = variable
      /\ \A j \in 1..(k - 1) : text[j] # variable
  BY DEF FirstAt
<1>1. ASSUME NEW i \in 0..Len(text)
      PROVE  /\ <<variable>> \in SubSeqs(start(i)) => k <= i
             /\ k <= i => <<variable>> \in SubSeqs(start(i))
  <2>1. start(i) \in Seq(S) /\ Len(start(i)) = i /\ \A j \in 1..i : start(i)[j] = text[j]
    OBVIOUS
  <2>. HIDE DEF start
  <2>2. <<variable>> \in SubSeqs(start(i)) <=> \E j \in 1..i : text[j] = variable
    BY <2>1, SingleIsSubSeq
  <2>3. ASSUME NEW j \in 1..i, text[j] = variable PROVE k <= i
    <3>1. ~(j \in 1..(k - 1))
      BY <1>0, <2>3
    <3>. QED
      BY <1>0, <3>1
  <2>4. k <= i => k \in 1..i
    BY <1>0
  <2>. QED
    BY <1>0, <2>2, <2>3, <2>4
<1>. DEFINE Last1(i) == /\ <<variable>> \in SubSeqs(SubSeq(text, 1, i))
                        /\ \A j \in 0..i-1 : <<variable>> \notin SubSeqs(SubSeq(text, 1, j))
<1>2. k \in 0..Len(text) /\ Last1(k)
  BY <1>0, <1>1
<1>3. ASSUME NEW i \in 0..Len(text), Last1(i) PROVE i = k
  <2>1. k <= i
    BY <1>1, <1>3
  <2>2. ~(k \in 0..i-1)
    BY <1>2, <1>3
  <2>. QED
    BY <1>0, <2>1, <2>2
<1>4. (CHOOSE i \in 0..Len(text) : Last1(i)) = k
  <2>. HIDE DEF Last1
  <2>. QED
    BY <1>2, <1>3
<1>5. Len(<<variable>>) = 1 /\ k - (1 - 1) = k
  OBVIOUS
<1>6. IndexFirstSubSeq(<<variable>>, text) = k
  BY <1>4, <1>5 DEF IndexFirstSubSeq
<1>7. <<variable>> \in SubSeqs(text)
  <2>1. k \in 1..Len(text)
    BY <1>0
  <2>. QED
    BY <1>0, <2>1, SingleIsSubSeq
<1>. QED
  BY <1>5, <1>6, <1>7 DEF Replaced, ReplaceFirstSubSeq, ReplaceSubSeqAt

LEMMA ReplacedNothing ==
  ASSUME NEW S, NEW text \in Seq(S), NEW by, NEW variable, \A k \in 1..Len(text) : text[k] # variable
  PROVE  Replaced(text, variable, by) = text
BY SingleIsSubSeq DEF Replaced, ReplaceFirstSubSeq

-----------------------------------------------------------------------------
(***************************************************************************)
(* The texts that stand for the variables.                                 *)
(***************************************************************************)
\* The strings, and those the model spells out: the provers do not know that a
\* literal is a string.
Atom ==
  STRING \cup Variables \cup Status \cup
  {"", "CRLF", ": ", "Content-Length", "Content-Type", "text/html", "text/plain",
   "Missing 'Host' header", "in the request"}

Piece(atom) ==
  CASE atom = "$host" -> HostName [] atom = "$request_uri" -> request.uri [] OTHER -> <<atom>>

Pieces(text) == [k \in DOMAIN text |-> Piece(text[k])]

\* What replaces a variable is a text.
PiecesAreTexts == HostName \in Seq(Atom) /\ request.uri \in Seq(Atom)

LEMMA FilledPieces ==
  ASSUME PiecesAreTexts, NEW text \in Seq(Atom)
  PROVE  Filled(text) = FlattenSeq(Pieces(text)) /\ Pieces(text) \in Seq(Seq(Atom))
<1>1. Filled(text) = FlattenSeq(Pieces(text))
  BY DEF Filled, Pieces, Piece
<1>2. ASSUME NEW k \in 1..Len(text) PROVE Piece(text[k]) \in Seq(Atom)
  <2>1. text[k] \in Atom
    OBVIOUS
  <2>2. <<text[k]>> \in Seq(Atom)
    BY <2>1
  <2>. QED
    BY <2>2 DEF Piece, PiecesAreTexts
<1>3. Pieces(text) = [k \in 1..Len(text) |-> Piece(text[k])] /\ Len(text) \in Nat
  BY DEF Pieces
<1>4. Pieces(text) \in Seq(Seq(Atom))
  BY <1>2, <1>3, IsASeq
<1>. QED
  BY <1>1, <1>4

LEMMA FilledConcat ==
  ASSUME PiecesAreTexts, NEW s \in Seq(Atom), NEW t \in Seq(Atom)
  PROVE  Filled(s \o t) = Filled(s) \o Filled(t)
<1>1. s \o t \in Seq(Atom)
  OBVIOUS
<1>2. Pieces(s \o t) = Pieces(s) \o Pieces(t)
  <2>1. /\ Pieces(s) \in Seq(Seq(Atom)) /\ Pieces(t) \in Seq(Seq(Atom))
        /\ Pieces(s \o t) \in Seq(Seq(Atom))
    BY <1>1, FilledPieces
  <2>2. /\ Len(Pieces(s)) = Len(s) /\ Len(Pieces(t)) = Len(t)
        /\ Len(Pieces(s \o t)) = Len(s) + Len(t)
    BY <2>1 DEF Pieces
  <2>3. Pieces(s) \o Pieces(t) \in Seq(Seq(Atom))
    BY <2>1, ConcatProperties
  <2>4. Len(Pieces(s) \o Pieces(t)) = Len(s) + Len(t)
    BY <2>1, <2>2, ConcatProperties
  <2>5. ASSUME NEW k \in 1..(Len(s) + Len(t))
        PROVE  Pieces(s \o t)[k] = (Pieces(s) \o Pieces(t))[k]
    <3>1. (Pieces(s) \o Pieces(t))[k] =
            IF k <= Len(s) THEN Pieces(s)[k] ELSE Pieces(t)[k - Len(s)]
      BY <2>1, <2>2, ConcatProperties
    <3>2. (s \o t)[k] = IF k <= Len(s) THEN s[k] ELSE t[k - Len(s)]
      OBVIOUS
    <3>3. Pieces(s \o t)[k] = Piece((s \o t)[k])
      BY <2>2 DEF Pieces
    <3>4. CASE k <= Len(s)
      <4>1. Pieces(s)[k] = Piece(s[k])
        BY <3>4 DEF Pieces
      <4>. QED
        BY <3>1, <3>2, <3>3, <3>4, <4>1
    <3>5. CASE ~(k <= Len(s))
      <4>1. k - Len(s) \in 1..Len(t)
        BY <3>5
      <4>2. Pieces(t)[k - Len(s)] = Piece(t[k - Len(s)])
        BY <4>1 DEF Pieces
      <4>. QED
        BY <3>1, <3>2, <3>3, <3>5, <4>2
    <3>. QED
      BY <3>4, <3>5
  <2>. QED
    BY <2>1, <2>2, <2>3, <2>4, <2>5, SeqEqual
<1>3. Pieces(s) \in Seq(Seq(Atom)) /\ Pieces(t) \in Seq(Seq(Atom))
  BY FilledPieces
<1>4. FlattenSeq(Pieces(s) \o Pieces(t)) = FlattenSeq(Pieces(s)) \o FlattenSeq(Pieces(t))
  BY <1>3, FlattenConcat
<1>5. /\ Filled(s) = FlattenSeq(Pieces(s)) /\ Filled(t) = FlattenSeq(Pieces(t))
      /\ Filled(s \o t) = FlattenSeq(Pieces(s \o t))
  BY <1>1, FilledPieces
<1>. QED
  BY <1>2, <1>4, <1>5

\* A variable on its own.
LEMMA FilledOne ==
  ASSUME PiecesAreTexts, NEW atom \in Atom
  PROVE  Filled(<<atom>>) = Piece(atom)
<1>1. <<atom>> \in Seq(Atom) /\ Len(<<atom>>) = 1 /\ <<atom>>[1] = atom
  BY Single
<1>2. /\ Pieces(<<atom>>) \in Seq(Seq(Atom)) /\ Len(Pieces(<<atom>>)) = 1
      /\ Pieces(<<atom>>)[1] = Piece(atom)
  <2>1. Pieces(<<atom>>) \in Seq(Seq(Atom))
    BY <1>1, FilledPieces
  <2>2. DOMAIN <<atom>> = 1..1
    BY <1>1
  <2>3. DOMAIN Pieces(<<atom>>) = 1..1 /\ \A k \in 1..1 : Pieces(<<atom>>)[k] = Piece(<<atom>>[k])
    BY <2>2 DEF Pieces
  <2>4. Len(Pieces(<<atom>>)) = 1
    BY <2>1, <2>3
  <2>5. Pieces(<<atom>>)[1] = Piece(<<atom>>[1])
    <3>1. 1 \in 1..1
      OBVIOUS
    <3>. QED
      BY <2>3, <3>1
  <2>. QED
    BY <1>1, <2>1, <2>4, <2>5, Zenon
<1>3. Piece(atom) \in Seq(Atom)
  <2>1. 1 \in 1..1
    OBVIOUS
  <2>2. Pieces(<<atom>>)[1] \in Seq(Atom)
    BY <1>2, <2>1, ElementOfSeq
  <2>. QED
    BY <1>2, <2>2, Zenon
<1>4. Pieces(<<atom>>) = Append(<<>>, Piece(atom))
  <2>1. Append(<<>>, Piece(atom)) = <<Piece(atom)>>
    BY <1>3
  <2>. QED
    BY <1>2, <2>1, SingleIs
<1>5. FlattenSeq(Append(<<>>, Piece(atom))) = <<>> \o Piece(atom)
  <2>1. <<>> \in Seq(Seq(Atom))
    OBVIOUS
  <2>. QED
    BY <1>3, <2>1, FlattenAppend, FlattenEmpty
<1>6. <<>> \o Piece(atom) = Piece(atom)
  BY <1>3, ConcatEmptySeq
<1>. QED
  BY <1>1, <1>4, <1>5, <1>6, FilledPieces

\* Nothing to fill in.
LEMMA FilledPlain ==
  ASSUME PiecesAreTexts, NEW text \in Seq(Atom), Plain(text)
  PROVE  Filled(text) = text
<1>. DEFINE P(n) == FlattenSeq(SubSeq(Pieces(text), 1, n)) = SubSeq(text, 1, n)
            T == {n \in Nat : P(n)}
<1>0. /\ Pieces(text) \in Seq(Seq(Atom)) /\ Filled(text) = FlattenSeq(Pieces(text))
      /\ Len(Pieces(text)) = Len(text)
  <2>1. Pieces(text) \in Seq(Seq(Atom)) /\ Filled(text) = FlattenSeq(Pieces(text))
    BY FilledPieces
  <2>. QED
    BY <2>1 DEF Pieces
<1>1. P(0)
  <2>1. SubSeq(Pieces(text), 1, 0) = <<>> /\ SubSeq(text, 1, 0) = <<>>
    BY <1>0
  <2>. QED
    BY <2>1, FlattenEmpty
<1>2. ASSUME NEW n \in Nat, n < Len(text), P(n) PROVE P(n + 1)
  <2>1. FlattenSeq(SubSeq(Pieces(text), 1, n + 1)) = SubSeq(text, 1, n) \o Pieces(text)[n + 1]
    BY <1>0, <1>2, FlattenNext
  <2>2. n + 1 \in 1..Len(text) /\ Pieces(text)[n + 1] = Piece(text[n + 1])
    BY <1>2 DEF Pieces
  <2>3. Piece(text[n + 1]) = <<text[n + 1]>>
    <3>1. text[n + 1] \in Range(text)
      BY <2>2 DEF Range
    <3>2. text[n + 1] \notin Variables
      BY <3>1 DEF Plain
    <3>. QED
      BY <3>2 DEF Piece, Variables
  <2>4. SubSeq(text, 1, n + 1) = SubSeq(text, 1, n) \o <<text[n + 1]>>
    BY <1>2
  <2>. QED
    BY <2>1, <2>2, <2>3, <2>4
<1>. HIDE DEF P
<1>3. Len(text) \in Nat /\ SubSeq(text, 1, Len(text)) = text
  OBVIOUS
<1>4. 0 \in T /\ \A n \in Nat : n < Len(text) /\ n \in T => n + 1 \in T
  BY <1>1, <1>2
<1>5. Len(text) \in T
  <2>. HIDE DEF T
  <2>. QED
    BY <1>3, <1>4, InductionTo
<1>6. SubSeq(Pieces(text), 1, Len(text)) = Pieces(text)
  BY <1>0
<1>. QED
  BY <1>0, <1>3, <1>5, <1>6 DEF P

\* Filling in what replaces a variable is filling in the variable.
LEMMA FilledReplaced ==
  ASSUME PiecesAreTexts, NEW text \in Seq(Atom), NEW variable \in Variables,
         Plain(Piece(variable))
  PROVE  Filled(Replaced(text, variable, Piece(variable))) = Filled(text)
<1>. DEFINE by == Piece(variable)
<1>1. variable \in Atom /\ by \in Seq(Atom)
  <2>2. variable = "$host" \/ variable = "$request_uri"
    BY DEF Variables
  <2>1. variable \in Atom
    BY DEF Atom
  <2>3. by = HostName \/ by = request.uri
    BY <2>2 DEF Piece
  <2>. QED
    BY <2>1, <2>3 DEF PiecesAreTexts
<1>. HIDE DEF by
<1>2. CASE \A k \in 1..Len(text) : text[k] # variable
  BY <1>2, ReplacedNothing
<1>3. CASE \E k \in 1..Len(text) : text[k] = variable
  <2>0. Len(text) \in Nat
    OBVIOUS
  <2>1. PICK k \in 1..Len(text) : FirstAt(text, variable, k)
    BY <1>3, <2>0, FirstPlace
  <2>. DEFINE before == SubSeq(text, 1, k - 1)
              after  == SubSeq(text, k + 1, Len(text))
              one    == <<variable>>
  <2>2. before \in Seq(Atom) /\ after \in Seq(Atom)
    BY <2>0
  <2>3. one \in Seq(Atom) /\ Len(one) = 1 /\ one[1] = variable
    BY <1>1, Single
  <2>4. text = (before \o one) \o after
    <3>1. /\ Len(before) = k - 1 /\ \A i \in 1..(k - 1) : before[i] = text[i]
          /\ Len(after) = Len(text) - k /\ \A i \in 1..(Len(text) - k) : after[i] = text[k + i]
      BY <2>0
    <3>2. text[k] = variable
      BY <2>1 DEF FirstAt
    <3>. HIDE DEF before, after, one
    <3>. DEFINE whole == (before \o one) \o after
    <3>3. /\ whole \in Seq(Atom) /\ Len(whole) = Len(text)
          /\ \A i \in 1..(k - 1) : whole[i] = text[i]
          /\ whole[k] = text[k]
          /\ \A i \in 1..(Len(text) - k) : whole[k + i] = text[k + i]
      <4>0. whole \in Seq(Atom) /\ InThree(whole, before, one, after)
        BY <2>2, <2>3, Concat3
      <4>. HIDE DEF whole
      <4>. DEFINE a == Len(before)
                  b == Len(one)
                  c == Len(after)
      <4>1. /\ Len(whole) = (a + b) + c
            /\ \A i \in 1..a : whole[i] = before[i]
            /\ \A i \in 1..b : whole[a + i] = one[i]
            /\ \A i \in 1..c : whole[(a + b) + i] = after[i]
        BY <4>0 DEF InThree
      <4>2. a = k - 1 /\ b = 1 /\ c = Len(text) - k
        BY <2>3, <3>1
      <4>3. whole[a + 1] = one[1]
        BY <2>3, <4>1
      <4>. HIDE DEF a, b, c
      <4>4. (a + b) + c = Len(text) /\ a + 1 = k /\ a + b = k
        BY <2>0, <4>2
      <4>. QED
        BY <2>3, <3>1, <3>2, <4>0, <4>1, <4>2, <4>3, <4>4
    <3>. HIDE DEF whole
    <3>4. ASSUME NEW i \in 1..Len(text) PROVE whole[i] = text[i]
      <4>1. i \in 1..(k - 1) \/ i = k \/ i - k \in 1..(Len(text) - k)
        BY <2>0
      <4>2. i - k \in 1..(Len(text) - k) => whole[k + (i - k)] = text[k + (i - k)]
        BY <3>3
      <4>. QED
        BY <3>3, <4>1, <4>2
    <3>5. whole = text
      BY <3>3, <3>4, SeqEqual
    <3>. QED
      BY <3>5 DEF whole
  <2>5. Replaced(text, variable, by) = (before \o by) \o after
    <3>1. k \in Nat
      BY <2>0
    <3>. HIDE DEF before, after
    <3>. QED
      BY <1>1, <2>1, <3>1, ReplacedFirst DEF before, after
  <2>. HIDE DEF before, after, one
  <2>6. before \o one \in Seq(Atom) /\ before \o by \in Seq(Atom)
    BY <1>1, <2>2, <2>3, ConcatProperties
  <2>7. /\ Filled((before \o one) \o after) = (Filled(before) \o Filled(one)) \o Filled(after)
        /\ Filled((before \o by) \o after) = (Filled(before) \o Filled(by)) \o Filled(after)
    BY <1>1, <2>2, <2>3, <2>6, FilledConcat
  <2>8. Filled(one) = by
    BY <1>1, FilledOne DEF one, by
  <2>9. Filled(by) = by
    BY <1>1, FilledPlain DEF by
  <2>. QED
    BY <2>4, <2>5, <2>7, <2>8, <2>9 DEF by
<1>. QED
  BY <1>2, <1>3

\* Where an atom of the result was, when it is not one of those that replace.
From(text, variable, by, atom, k, i, j) ==
  /\ text[i] = atom
  /\ \/ i < k /\ j = i
     \/ i > k /\ j = (i + Len(by)) - 1

LEMMA ReplacedAtom ==
  ASSUME NEW S, NEW text \in Seq(S), NEW by \in Seq(S), NEW variable,
         NEW k \in Nat, FirstAt(text, variable, k),
         NEW atom, \A j \in 1..Len(by) : by[j] # atom,
         NEW j \in 1..Len(Replaced(text, variable, by)), Replaced(text, variable, by)[j] = atom
  PROVE  \E i \in 1..Len(text) : From(text, variable, by, atom, k, i, j)
<1>. DEFINE before == SubSeq(text, 1, k - 1)
            after  == SubSeq(text, k + 1, Len(text))
<1>0. Len(text) \in Nat /\ k \in Nat /\ k >= 1 /\ k <= Len(text) /\ Len(by) \in Nat
  BY DEF FirstAt
<1>1. /\ before \in Seq(S) /\ Len(before) = k - 1 /\ \A i \in 1..(k - 1) : before[i] = text[i]
      /\ after \in Seq(S) /\ Len(after) = Len(text) - k
      /\ \A i \in 1..(Len(text) - k) : after[i] = text[k + i]
  BY <1>0
<1>. DEFINE result == (before \o by) \o after
<1>2. Replaced(text, variable, by) = result
  BY ReplacedFirst
<1>. HIDE DEF before, after
<1>9. InThree(result, before, by, after)
  BY <1>1, Concat3
<1>3. /\ Len(result) = ((k - 1) + Len(by)) + (Len(text) - k)
      /\ \A i \in 1..(k - 1) : result[i] = before[i]
      /\ \A i \in 1..Len(by) : result[(k - 1) + i] = by[i]
      /\ \A i \in 1..(Len(text) - k) : result[((k - 1) + Len(by)) + i] = after[i]
  <2>. HIDE DEF result
  <2>. QED
    BY <1>1, <1>9 DEF InThree
<1>. HIDE DEF result
<1>4. j \in Nat /\ j >= 1 /\ j <= ((k - 1) + Len(by)) + (Len(text) - k) /\ result[j] = atom
  BY <1>0, <1>2, <1>3
<1>5. CASE j <= k - 1
  <2>1. j \in 1..Len(text) /\ text[j] = atom /\ j < k
    BY <1>0, <1>1, <1>3, <1>4, <1>5
  <2>. QED
    BY <2>1 DEF From
<1>6. CASE j > k - 1 /\ j <= (k - 1) + Len(by)
  <2>. DEFINE i == j - (k - 1)
  <2>1. i \in 1..Len(by) /\ (k - 1) + i = j
    BY <1>0, <1>4, <1>6
  <2>. HIDE DEF i
  <2>. QED
    BY <1>3, <1>4, <2>1
<1>7. CASE j > (k - 1) + Len(by)
  <2>. DEFINE i == j - ((k - 1) + Len(by))
  <2>1. /\ i \in 1..(Len(text) - k) /\ ((k - 1) + Len(by)) + i = j
        /\ k + i \in 1..Len(text) /\ k + i > k /\ j = ((k + i) + Len(by)) - 1
    BY <1>0, <1>4, <1>7
  <2>. HIDE DEF i
  <2>2. text[k + i] = atom
    BY <1>1, <1>3, <1>4, <2>1
  <2>. QED
    BY <2>1, <2>2 DEF From
<1>. QED
  BY <1>0, <1>4, <1>5, <1>6, <1>7

LEMMA ReplacedType ==
  ASSUME NEW S, NEW text \in Seq(S), NEW by \in Seq(S), NEW variable
  PROVE  Replaced(text, variable, by) \in Seq(S)
<1>1. CASE \A k \in 1..Len(text) : text[k] # variable
  BY <1>1, ReplacedNothing
<1>2. CASE \E k \in 1..Len(text) : text[k] = variable
  <2>0. Len(text) \in Nat
    OBVIOUS
  <2>1. PICK k \in 1..Len(text) : FirstAt(text, variable, k)
    BY <1>2, <2>0, FirstPlace
  <2>2. Replaced(text, variable, by) = (SubSeq(text, 1, k - 1) \o by) \o SubSeq(text, k + 1, Len(text))
    <3>1. k \in Nat
      BY <2>0
    <3>. QED
      BY <2>1, <3>1, ReplacedFirst
  <2>. QED
    BY <2>0, <2>2
<1>. QED
  BY <1>1, <1>2

\* The atom is in the text once at most.
Once(text, atom) == \A i, j \in 1..Len(text) : text[i] = atom /\ text[j] = atom => i = j

LEMMA ReplacedOnce ==
  ASSUME NEW S, NEW text \in Seq(S), NEW by \in Seq(S), NEW variable, NEW atom,
         \A j \in 1..Len(by) : by[j] # atom, Once(text, atom)
  PROVE  /\ Once(Replaced(text, variable, by), atom)
         /\ atom = variable \/ (\A i \in 1..Len(text) : text[i] # atom) =>
              \A j \in 1..Len(Replaced(text, variable, by)) : Replaced(text, variable, by)[j] # atom
<1>1. CASE \A k \in 1..Len(text) : text[k] # variable
  <2>1. Replaced(text, variable, by) = text
    BY <1>1, ReplacedNothing
  <2>. QED
    BY <1>1, <2>1
<1>2. CASE \E k \in 1..Len(text) : text[k] = variable
  <2>. DEFINE result == Replaced(text, variable, by)
  <2>0. Len(text) \in Nat /\ Len(by) \in Nat
    OBVIOUS
  <2>1. PICK k \in 1..Len(text) : FirstAt(text, variable, k)
    BY <1>2, <2>0, FirstPlace
  <2>2. ASSUME NEW j \in 1..Len(result), result[j] = atom
        PROVE  \E i \in 1..Len(text) : From(text, variable, by, atom, k, i, j)
    BY <2>1, <2>2, ReplacedAtom
  <2>. HIDE DEF result
  <2>3. Once(result, atom)
    <3> SUFFICES ASSUME NEW i \in 1..Len(result), NEW j \in 1..Len(result),
                        result[i] = atom, result[j] = atom
                 PROVE  i = j
      BY DEF Once
    <3>1. PICK m \in 1..Len(text) : From(text, variable, by, atom, k, m, i)
      BY <2>2
    <3>2. PICK n \in 1..Len(text) : From(text, variable, by, atom, k, n, j)
      BY <2>2
    <3>3. m = n
      BY <3>1, <3>2 DEF Once, From
    <3>. QED
      BY <2>0, <3>1, <3>2, <3>3 DEF From
  <2>4. ASSUME atom = variable \/ \A i \in 1..Len(text) : text[i] # atom,
               NEW j \in 1..Len(result), result[j] = atom
        PROVE  FALSE
    <3>1. PICK i \in 1..Len(text) : text[i] = atom /\ (i < k \/ i > k)
      BY <2>2, <2>4 DEF From
    <3>2. i = k
      BY <2>1, <2>4, <3>1 DEF Once, FirstAt
    <3>. QED
      BY <3>1, <3>2
  <2>. QED
    BY <2>3, <2>4 DEF result
<1>. QED
  BY <1>1, <1>2

-----------------------------------------------------------------------------
(***************************************************************************)
(* The host: get_header and the substring before ':' against what they are *)
(* to find.                                                                *)
(***************************************************************************)
RequestType ==
  request \in [method : {"GET", "HEAD"}, uri : Uri, headers : Seq([name : DOMAIN Lowered, value : Host])]

LEMMA HostIsFound ==
  ASSUME RequestType
  PROVE  GetHeader("host") = HostSent
<1>. DEFINE hosts == {k \in DOMAIN request.headers : request.headers[k].name \in {"Host", "HOST"}}
            found == {i \in 1..Len(request.headers) : Lowered[request.headers[i].name] = "host"}
            least == CHOOSE k \in hosts : \A j \in hosts : k <= j
<1>1. request.headers \in Seq([name : DOMAIN Lowered, value : Host])
  BY DEF RequestType
<1>2. found = hosts
  <2>1. DOMAIN request.headers = 1..Len(request.headers)
    BY <1>1
  <2>2. ASSUME NEW i \in 1..Len(request.headers)
        PROVE  Lowered[request.headers[i].name] = "host" <=> request.headers[i].name \in {"Host", "HOST"}
    <3>1. request.headers[i] \in [name : DOMAIN Lowered, value : Host]
      BY <1>1, ElementOfSeq
    <3>. QED
      BY <3>1 DEF Lowered
  <2>. QED
    BY <2>1, <2>2
<1>3. hosts \in SUBSET Nat /\ \A k \in hosts : k # 0
  BY <1>1, <1>2
<1>4. CASE hosts = {}
  <2>1. SelectInSeq(request.headers, LAMBDA h : Lowered[h.name] = "host") = 0
    BY <1>2, <1>4 DEF SelectInSeq
  <2>. QED
    BY <1>4, <2>1 DEF GetHeader, HostSent
<1>5. CASE hosts # {}
  <2>1. SelectInSeq(request.headers, LAMBDA h : Lowered[h.name] = "host") = least
    BY <1>2, <1>5 DEF SelectInSeq, Min
  <2>2. least # 0
    <3>. HIDE DEF hosts
    <3>1. least \in hosts
      BY <1>3, <1>5, LeastChosen
    <3>. QED
      BY <1>3, <3>1
  <2>. QED
    BY <1>5, <2>1, <2>2 DEF GetHeader, HostSent
<1>. QED
  BY <1>4, <1>5

LEMMA HostSentType ==
  ASSUME RequestType
  PROVE  HostSent \in Seq(STRING \ {"CRLF"})
<1>. DEFINE hosts == {k \in DOMAIN request.headers : request.headers[k].name \in {"Host", "HOST"}}
            least == CHOOSE k \in hosts : \A j \in hosts : k <= j
<1>1. /\ request.headers \in Seq([name : DOMAIN Lowered, value : Host])
      /\ DOMAIN request.headers = 1..Len(request.headers)
  BY DEF RequestType
<1>2. CASE hosts = {}
  BY <1>2 DEF HostSent
<1>3. CASE hosts # {}
  <2>1. hosts \in SUBSET Nat
    BY <1>1
  <2>2. least \in hosts
    <3>. HIDE DEF hosts
    <3>. QED
      BY <1>3, <2>1, LeastChosen
  <2>3. HostSent = request.headers[least].value
    BY <1>3 DEF HostSent
  <2>. HIDE DEF least
  <2>4. least \in 1..Len(request.headers)
    BY <1>1, <2>2
  <2>5. request.headers[least] \in [name : DOMAIN Lowered, value : Host]
    BY <1>1, <2>4, ElementOfSeq
  <2>. QED
    BY <2>3, <2>5, HandlerAssumption DEF HandlerAssumption
<1>. QED
  BY <1>2, <1>3

\* The longest start with no ':', whichever way it is found.
LEMMA BareIsName ==
  ASSUME NEW S, HostSent \in Seq(S)
  PROVE  HostName = Bare(HostSent) /\ HostName \in Seq(S) /\ Range(HostName) \subseteq Range(HostSent)
<1>. DEFINE host == HostSent
            colons == {i \in 1..Len(host) : host[i] = ":"}
            IsEnd(k) == /\ ":" \notin Range(SubSeq(host, 1, k))
                        /\ k < Len(host) => host[k + 1] = ":"
            end == IF colons = {} THEN Len(host) ELSE (CHOOSE k \in colons : \A j \in colons : k <= j) - 1
<1>0. host \in Seq(S) /\ Len(host) \in Nat
  OBVIOUS
<1>1. ASSUME NEW k \in 0..Len(host)
      PROVE  ":" \notin Range(SubSeq(host, 1, k)) <=> \A i \in colons : k < i
  <2>. HIDE DEF host
  <2>1. /\ DOMAIN SubSeq(host, 1, k) = 1..k /\ k \in Nat
        /\ \A i \in 1..k : SubSeq(host, 1, k)[i] = host[i]
    BY <1>0
  <2>2. Range(SubSeq(host, 1, k)) = {host[i] : i \in 1..k}
    BY <2>1 DEF Range
  <2>. QED
    BY <1>0, <2>1, <2>2
<1>2. end \in 0..Len(host) /\ IsEnd(end) /\ (colons = {} \/ end + 1 \in colons)
  <2>. HIDE DEF host
  <2>1. CASE colons = {}
    BY <1>0, <1>1, <2>1
  <2>2. CASE colons # {}
    <3>1. PICK least \in colons : /\ \A j \in colons : least <= j
                                  /\ least = CHOOSE k \in colons : \A j \in colons : k <= j
      <4>1. colons \in SUBSET Nat
        OBVIOUS
      <4>. HIDE DEF colons
      <4>. QED
        BY <2>2, <4>1, LeastChosen
    <3>2. end = least - 1
      BY <2>2, <3>1
    <3>3. least \in 1..Len(host) /\ host[least] = ":"
      OBVIOUS
    <3>. HIDE DEF colons, end
    <3>4. end \in 0..Len(host) /\ end + 1 = least /\ \A i \in colons : end < i
      <4>1. colons \subseteq Nat
        BY DEF colons
      <4>2. end \in 0..Len(host) /\ end + 1 = least
        BY <1>0, <3>2, <3>3
      <4>3. ASSUME NEW i \in colons PROVE end < i
        <5>1. i \in Nat /\ least <= i /\ end \in Nat /\ least = end + 1
          BY <1>0, <3>1, <4>1, <4>2
        <5>. QED
          BY <5>1
      <4>. QED
        BY <4>2, <4>3
    <3>. QED
      BY <1>1, <3>3, <3>4
  <2>. QED
    BY <2>1, <2>2
<1>3. ASSUME NEW k \in 0..Len(host), IsEnd(k) PROVE k = end
  <2>. HIDE DEF host, end
  <2>1. \A i \in colons : k < i /\ end < i
    BY <1>1, <1>2, <1>3
  <2>2. k < Len(host) => k + 1 \in colons
    BY <1>0, <1>3
  <2>3. end < Len(host) => end + 1 \in colons
    BY <1>0, <1>2
  <2>4. ~(k < end) /\ ~(end < k)
    BY <1>0, <1>2, <2>1, <2>2, <2>3
  <2>. QED
    BY <1>0, <1>2, <2>4
<1>4. HostName = SubSeq(host, 1, end)
  <2>1. HostName = SubSeq(host, 1, CHOOSE k \in 0..Len(host) : IsEnd(k))
    BY DEF HostName
  <2>. HIDE DEF IsEnd, end, host
  <2>2. (CHOOSE k \in 0..Len(host) : IsEnd(k)) = end
    BY <1>2, <1>3
  <2>. QED
    BY <2>1, <2>2
<1>5. Bare(host) = SubSeq(host, 1, end)
  <2>. HIDE DEF host
  <2>1. CASE colons = {}
    <3>1. SelectInSeq(host, LAMBDA atom : atom = ":") = 0
      BY <2>1 DEF SelectInSeq
    <3>2. SubSeq(host, 1, Len(host)) = host
      BY <1>0
    <3>. QED
      BY <2>1, <3>1, <3>2 DEF Bare
  <2>2. CASE colons # {}
    <3>1. SelectInSeq(host, LAMBDA atom : atom = ":") = CHOOSE k \in colons : \A j \in colons : k <= j
      BY <2>2 DEF SelectInSeq, Min
    <3>2. (CHOOSE k \in colons : \A j \in colons : k <= j) # 0
      <4>1. colons \in SUBSET Nat /\ 0 \notin colons
        OBVIOUS
      <4>. HIDE DEF colons
      <4>. QED
        BY <2>2, <4>1, LeastChosen
    <3>. QED
      BY <2>2, <3>1, <3>2 DEF Bare
  <2>. QED
    BY <2>1, <2>2
<1>6. SubSeq(host, 1, end) \in Seq(S) /\ Range(SubSeq(host, 1, end)) \subseteq Range(host)
  <2>. HIDE DEF end, host
  <2>1. /\ DOMAIN host = 1..Len(host) /\ DOMAIN SubSeq(host, 1, end) = 1..end
        /\ \A i \in 1..end : i \in 1..Len(host) /\ SubSeq(host, 1, end)[i] = host[i]
    BY <1>0, <1>2
  <2>2. Range(SubSeq(host, 1, end)) \subseteq Range(host)
    BY <2>1 DEF Range
  <2>3. SubSeq(host, 1, end) \in Seq(S)
    BY <1>0, <1>2
  <2>. QED
    BY <2>2, <2>3
<1>. QED
  BY <1>4, <1>5, <1>6

-----------------------------------------------------------------------------
(***************************************************************************)
(* The loop over the headers of the section.                               *)
(***************************************************************************)
HeaderType == [name : Atom, value : Seq(Atom)]

Pushed(entry) ==
  Header(Name(entry),
         Replaced(Replaced(Value(entry), "$host", Bare(GetHeader("host"))), "$request_uri", request.uri))

AllPushed == [k \in 1..Len(section.headers) |-> Pushed(section.headers[k])]

\* The reply when n headers are done.
Served(n) ==
  [StockReply(section.status) EXCEPT !.headers = @ \o SubSeq(AllPushed, 1, n)]

Passes(entry) == IsText(entry) /\ (NeedsHost(entry) => GetHeader("host") # <<>>)

SectionType == section \in [status : Chosen, headers : Seq(Entry)]

\* While the loop runs, the reply is the stock one with the headers before the next
\* one, none of which stopped it; and when it returned, that of all headers, or the
\* 400 because of one that needs the host there is not.
HandlerInv ==
  /\ SectionType
  /\ RequestType
  /\ outcome \in {"running", "returned", "thrown"}
  /\ outcome = "running" =>
       /\ next \in 1..(Len(section.headers) + 1)
       /\ res = Served(next - 1)
       /\ \A k \in 1..(next - 1) : Passes(section.headers[k])
  /\ outcome = "returned" =>
       \/ /\ res = BadReply
          /\ GetHeader("host") = <<>>
          /\ \E k \in 1..Len(section.headers) : NeedsHost(section.headers[k])
       \/ /\ res = Served(Len(section.headers))
          /\ \A k \in 1..Len(section.headers) : Passes(section.headers[k])

LEMMA AtomTexts ==
  /\ Seq(STRING) \subseteq Seq(Atom)
  /\ Seq(STRING \ {"CRLF"}) \subseteq Seq(Atom \ {"CRLF"})
  /\ Seq(Atom \ {"CRLF"}) \subseteq Seq(Atom)
<1>1. /\ STRING \subseteq Atom /\ STRING \ {"CRLF"} \subseteq Atom \ {"CRLF"}
      /\ Atom \ {"CRLF"} \subseteq Atom
  BY DEF Atom
<1>. QED
  BY <1>1, SeqMonotone

LEMMA EntryType ==
  ASSUME NEW entry \in Entry
  PROVE  Name(entry) \in Atom /\ Value(entry) \in Seq(Atom)
<1>1. entry \in Seq(STRING \X Seq(STRING))
  BY HandlerAssumption DEF HandlerAssumption
<1>2. CASE entry = <<>>
  BY <1>2 DEF Name, Value, Atom
<1>3. CASE entry # <<>>
  <2>1. Len(entry) \in 1..Len(entry)
    BY <1>1, <1>3
  <2>2. Last(entry) \in STRING \X Seq(STRING)
    BY <1>1, <2>1, ElementOfSeq DEF Last
  <2>3. Last(entry)[1] \in STRING /\ Last(entry)[2] \in Seq(STRING)
    BY <2>2
  <2>4. Last(entry)[1] \in Atom
    BY <2>3 DEF Atom
  <2>. QED
    BY <1>3, <2>3, <2>4, AtomTexts DEF Name, Value
<1>. QED
  BY <1>2, <1>3

\* What stands for the variables has no line break.
LEMMA PieceTypes ==
  ASSUME RequestType
  PROVE  /\ HostName \in Seq(Atom \ {"CRLF"}) /\ request.uri \in Seq(Atom \ {"CRLF"})
         /\ HostName = Bare(GetHeader("host")) /\ PiecesAreTexts
<1>1. HostSent \in Seq(STRING \ {"CRLF"}) /\ GetHeader("host") = HostSent
  BY HostIsFound, HostSentType
<1>2. HostName = Bare(HostSent) /\ HostName \in Seq(STRING \ {"CRLF"})
  BY <1>1, BareIsName
<1>3. request.uri \in Seq(STRING \ {"CRLF"})
  BY HandlerAssumption DEF HandlerAssumption, RequestType
<1>4. HostName \in Seq(Atom \ {"CRLF"}) /\ request.uri \in Seq(Atom \ {"CRLF"})
  BY <1>2, <1>3, AtomTexts
<1>5. PiecesAreTexts
  BY <1>4, AtomTexts DEF PiecesAreTexts
<1>. QED
  BY <1>1, <1>2, <1>4, <1>5

LEMMA PushedType ==
  ASSUME RequestType, NEW entry \in Entry
  PROVE  Pushed(entry) \in HeaderType
<1>1. Bare(GetHeader("host")) \in Seq(Atom) /\ request.uri \in Seq(Atom)
  BY PieceTypes, AtomTexts
<1>2. Name(entry) \in Atom /\ Value(entry) \in Seq(Atom)
  BY EntryType
<1>3. Replaced(Value(entry), "$host", Bare(GetHeader("host"))) \in Seq(Atom)
  BY <1>1, <1>2, ReplacedType
<1>4. Replaced(Replaced(Value(entry), "$host", Bare(GetHeader("host"))), "$request_uri", request.uri) \in Seq(Atom)
  BY <1>1, <1>3, ReplacedType
<1>. QED
  BY <1>2, <1>4 DEF Pushed, Header, HeaderType

LEMMA AllPushedType ==
  ASSUME RequestType, SectionType
  PROVE  /\ AllPushed \in Seq(HeaderType) /\ Len(AllPushed) = Len(section.headers)
         /\ Len(section.headers) \in Nat
         /\ \A k \in 1..Len(section.headers) : section.headers[k] \in Entry /\ AllPushed[k] = Pushed(section.headers[k])
<1>1. Len(section.headers) \in Nat /\ \A k \in 1..Len(section.headers) : section.headers[k] \in Entry
  BY DEF SectionType
<1>2. \A k \in 1..Len(section.headers) : Pushed(section.headers[k]) \in HeaderType
  BY <1>1, PushedType
<1>3. AllPushed \in Seq(HeaderType)
  BY <1>1, <1>2, IsASeq DEF AllPushed
<1>4. Len(AllPushed) = Len(section.headers)
  BY <1>1, <1>3 DEF AllPushed
<1>. QED
  BY <1>1, <1>3, <1>4 DEF AllPushed

LEMMA DescribedType ==
  ASSUME NEW content, Len(content) \in 0..2, NEW type \in Atom \ {"CRLF"}
  PROVE  /\ Described(content, type) \in Seq(HeaderType) /\ Len(Described(content, type)) = 2
         /\ Described(content, type)[1] = Header("Content-Length", <<ToString(Len(content))>>)
         /\ Described(content, type)[2] = Header("Content-Type", <<type>>)
         /\ ToString(Len(content)) \in Atom \ {"CRLF"}
<1>1. ToString(Len(content)) \in Atom \ {"CRLF"}
  BY HandlerAssumption DEF HandlerAssumption, Atom
<1>2. "Content-Length" \in Atom /\ "Content-Type" \in Atom
  BY DEF Atom
<1>3. <<ToString(Len(content))>> \in Seq(Atom) /\ <<type>> \in Seq(Atom)
  BY <1>1, Single
<1>4. /\ Header("Content-Length", <<ToString(Len(content))>>) \in HeaderType
      /\ Header("Content-Type", <<type>>) \in HeaderType
  BY <1>2, <1>3 DEF Header, HeaderType
<1>. QED
  BY <1>1, <1>4 DEF Described

LEMMA StockReplyType ==
  ASSUME NEW status \in Status
  PROVE  /\ Len(StockBody(status)) \in 0..1
         /\ StockBody(status) \in Seq(Atom)
         /\ StockReply(status).headers \in Seq(HeaderType)
<1>1. /\ Len(StockBody(status)) \in 0..1
      /\ StockBody(status) \in Seq(Atom)
  <2>1. status \in Atom /\ "internal_server_error" \in Atom
    BY DEF Atom, Status
  <2>2. /\ <<status>> \in Seq(Atom) /\ Len(<<status>>) = 1
        /\ <<"internal_server_error">> \in Seq(Atom) /\ Len(<<"internal_server_error">>) = 1
    BY <2>1, Single
  <2>3. <<>> \in Seq(Atom) /\ Len(<<>>) = 0
    OBVIOUS
  <2>4. \/ StockBody(status) = <<>>
        \/ StockBody(status) = <<status>>
        \/ StockBody(status) = <<"internal_server_error">>
    BY DEF StockBody
  <2>5. CASE StockBody(status) = <<>>
    BY <2>3, <2>5
  <2>6. CASE StockBody(status) = <<status>>
    BY <2>2, <2>6
  <2>7. CASE StockBody(status) = <<"internal_server_error">>
    BY <2>2, <2>7
  <2>. QED
    BY <2>4, <2>5, <2>6, <2>7
<1>2. "text/html" \in Atom \ {"CRLF"}
  BY DEF Atom
<1>3. Described(StockBody(status), "text/html") \in Seq(HeaderType)
  <2>1. Len(StockBody(status)) \in 0..2
    BY <1>1
  <2>. QED
    BY <1>2, <2>1, DescribedType
<1>. QED
  BY <1>1, <1>3 DEF StockReply

LEMMA HandlerInitInv == HandlerInit => HandlerInv
<1> SUFFICES ASSUME HandlerInit PROVE HandlerInv
  OBVIOUS
<1>1. SectionType /\ RequestType
  BY SeqOfType, HandlerAssumption DEF HandlerAssumption, HandlerInit, SectionType, RequestType
<1>2. next = 1 /\ outcome = "running" /\ res = StockReply(section.status)
  BY DEF HandlerInit
<1>3. section.status \in Status
  BY <1>1, HandlerAssumption DEF SectionType, HandlerAssumption
<1>4. res = Served(0)
  <2>1. SubSeq(AllPushed, 1, 0) = <<>>
    BY <1>1, AllPushedType
  <2>2. StockReply(section.status).headers \o <<>> = StockReply(section.status).headers
    BY <1>3, StockReplyType, ConcatEmptySeq
  <2>. QED
    BY <1>2, <2>1, <2>2 DEF Served, StockReply
<1>5. next \in 1..(Len(section.headers) + 1) /\ next - 1 = 0
  BY <1>1, <1>2, AllPushedType
<1>. QED
  BY <1>1, <1>2, <1>4, <1>5 DEF HandlerInv

\* The reply after one header more.
LEMMA ServedNext ==
  ASSUME SectionType, RequestType, NEW n \in Nat, n < Len(section.headers)
  PROVE  Served(n + 1) = [Served(n) EXCEPT !.headers = Append(@, Pushed(section.headers[n + 1]))]
<1>. DEFINE base  == StockReply(section.status).headers
            start == SubSeq(AllPushed, 1, n)
            new   == AllPushed[n + 1]
<1>1. section.status \in Status
  BY HandlerAssumption DEF SectionType, HandlerAssumption
<1>2. base \in Seq(HeaderType)
  BY <1>1, StockReplyType
<1>3. start \in Seq(HeaderType) /\ new \in HeaderType /\ new = Pushed(section.headers[n + 1])
  BY AllPushedType
<1>4. SubSeq(AllPushed, 1, n + 1) = Append(start, new)
  BY AllPushedType
<1>. HIDE DEF base, start, new
<1>5. base \o Append(start, new) = Append(base \o start, new)
  BY <1>2, <1>3
<1>. QED
  BY <1>3, <1>4, <1>5 DEF Served, StockReply, base, start

LEMMA HandlerStepInv == HandlerInv /\ [HandlerNext]_hvars => HandlerInv'
<1> SUFFICES ASSUME HandlerInv, [HandlerNext]_hvars PROVE HandlerInv'
  OBVIOUS
<1>0. /\ SectionType /\ RequestType /\ Len(section.headers) \in Nat
      /\ outcome = "running" =>
           /\ next \in 1..(Len(section.headers) + 1)
           /\ res = Served(next - 1)
           /\ \A k \in 1..(next - 1) : Passes(section.headers[k])
  BY AllPushedType DEF HandlerInv
<1>1. ASSUME UNCHANGED <<section, request>>
      PROVE  /\ SectionType' /\ RequestType' /\ AllPushed' = AllPushed
             /\ GetHeader("host")' = GetHeader("host")
  <2>1. SectionType' /\ RequestType'
    BY <1>0, <1>1 DEF SectionType, RequestType
  <2>2. GetHeader("host")' = GetHeader("host")
    BY <1>1 DEF GetHeader, SelectInSeq
  <2>3. ASSUME NEW entry PROVE Pushed(entry)' = Pushed(entry)
    BY <1>1, <2>2 DEF Pushed
  <2>4. AllPushed' = [k \in 1..Len(section.headers) |-> Pushed(section.headers[k])']
    BY <1>1 DEF AllPushed
  <2>5. ASSUME NEW k PROVE Pushed(section.headers[k])' = Pushed(section.headers[k])
    BY <1>1, <2>2 DEF Pushed
  <2>6. AllPushed' = AllPushed
    BY <2>4, <2>5 DEF AllPushed
  <2>. QED
    BY <2>1, <2>2, <2>6
<1>2. CASE UNCHANGED hvars
  <2>1. UNCHANGED <<section, request>> /\ UNCHANGED <<next, res, outcome>>
    BY <1>2 DEF hvars
  <2>. QED
    BY <1>1, <2>1 DEF HandlerInv, Served, Passes
<1>3. CASE EntryThrows
  BY <1>1, <1>3 DEF EntryThrows, Looping, HandlerInv
<1>4. CASE HostMissing
  <2>1. /\ UNCHANGED <<section, request>> /\ outcome = "running" /\ outcome' = "returned"
        /\ res' = BadReply /\ GetHeader("host") = <<>>
        /\ next <= Len(section.headers) /\ NeedsHost(section.headers[next])
    BY <1>4 DEF HostMissing, Looping, This
  <2>2. next \in 1..Len(section.headers) /\ next \in Nat
    BY <1>0, <2>1
  <2>3. BadReply' = BadReply
    BY DEF BadReply
  <2>. QED
    BY <1>1, <2>1, <2>2, <2>3 DEF HandlerInv
<1>5. CASE PushHeader
  <2>1. /\ UNCHANGED <<section, request>> /\ outcome = "running" /\ outcome' = "running"
        /\ next' = next + 1 /\ next <= Len(section.headers)
        /\ res' = [res EXCEPT !.headers = Append(@, Pushed(section.headers[next]))]
        /\ Passes(section.headers[next])
    BY <1>5 DEF PushHeader, Looping, This, Pushed, Passes
  <2>2. /\ next \in Nat /\ next - 1 \in Nat /\ (next - 1) + 1 = next /\ next' - 1 = next
        /\ next' \in 1..(Len(section.headers) + 1) /\ next - 1 < Len(section.headers)
    BY <1>0, <2>1
  <2>3. res' = Served(next)
    <3>1. Served((next - 1) + 1) = [Served(next - 1) EXCEPT !.headers = Append(@, Pushed(section.headers[(next - 1) + 1]))]
      BY <1>0, <2>2, ServedNext
    <3>. QED
      BY <1>0, <2>1, <2>2, <3>1
  <2>4. res' = Served(next - 1)'
    BY <1>1, <2>1, <2>2, <2>3 DEF Served
  <2>5. \A k \in 1..(next' - 1) : Passes(section.headers[k])'
    <3>1. ASSUME NEW k \in 1..next PROVE k \in Nat /\ Passes(section.headers[k])
      BY <1>0, <2>1, <2>2
    <3>. QED
      BY <1>1, <2>1, <2>2, <3>1 DEF Passes
  <2>6. (Len(section.headers) + 1)' = Len(section.headers) + 1
    BY <2>1
  <2>. QED
    BY <1>1, <2>1, <2>2, <2>4, <2>5, <2>6 DEF HandlerInv
<1>6. CASE Return
  <2>1. /\ UNCHANGED <<section, request, next, res>> /\ outcome = "running" /\ outcome' = "returned"
        /\ next > Len(section.headers)
    BY <1>6 DEF Return
  <2>2. next - 1 = Len(section.headers)
    BY <1>0, <2>1
  <2>3. /\ res = Served(Len(section.headers))
        /\ \A k \in 1..Len(section.headers) : k \in Nat /\ Passes(section.headers[k])
    BY <1>0, <2>1, <2>2
  <2>4. res' = Served(Len(section.headers))'
    BY <1>1, <2>1, <2>3 DEF Served
  <2>5. \A k \in 1..Len(section'.headers) : Passes(section.headers[k])'
    BY <1>1, <2>1, <2>3 DEF Passes
  <2>. QED
    BY <1>1, <2>1, <2>4, <2>5 DEF HandlerInv
<1>. QED
  BY <1>2, <1>3, <1>4, <1>5, <1>6 DEF HandlerNext

\* The reply never has anything but the headers the loop has seen.
THEOREM HandlerInvariant == HandlerSpec => []HandlerInv
<1>. QED
  BY HandlerInitInv, HandlerStepInv, PTL DEF HandlerSpec

\* The host a header needs is missing exactly when the loop ended with the 400.
LEMMA Outcomes ==
  ASSUME HandlerInv, outcome = "returned"
  PROVE  \/ HostIsMissed /\ res = BadReply
         \/ ~HostIsMissed /\ res = Served(Len(section.headers))
<1>1. /\ DOMAIN section.headers = 1..Len(section.headers)
      /\ GetHeader("host") = HostSent
  BY HostIsFound DEF HandlerInv, SectionType
<1>. QED
  BY <1>1 DEF HandlerInv, HostIsMissed, Passes

\* A request that lacks the host some header needs gets the 400 of the handler, and
\* no other request does.
THEOREM MissingHost400 == HandlerSpec => []MissingHostIsBad
<1>1. ASSUME HandlerInv PROVE MissingHostIsBad
  <2> SUFFICES ASSUME outcome = "returned"
               PROVE  IF HostIsMissed
                      THEN /\ res.status = "bad_request"
                           /\ res.headers = Described(res.content, "text/plain")
                           /\ res.content = MissingHost
                      ELSE res.content # MissingHost
    BY DEF MissingHostIsBad
  <2>1. CASE HostIsMissed /\ res = BadReply
    BY <2>1 DEF BadReply
  <2>2. CASE ~HostIsMissed /\ res = Served(Len(section.headers))
    <3>1. section.status \in Status
      BY <1>1, HandlerAssumption DEF HandlerInv, SectionType, HandlerAssumption
    <3>2. res.content = StockBody(section.status)
      BY <2>2 DEF Served, StockReply
    <3>3. Len(StockBody(section.status)) \in 0..1
      BY <3>1, StockReplyType
    <3>4. Len(MissingHost) = 2
      BY DEF MissingHost
    <3>. QED
      BY <2>2, <3>2, <3>3, <3>4
  <2>. QED
    BY <1>1, <2>1, <2>2, Outcomes
<1>. QED
  BY <1>1, HandlerInvariant, PTL

-----------------------------------------------------------------------------
\* What is left when both variables have been replaced, one after the other, in a
\* text that names each of them once: the text with the variables filled in.
LEMMA ReplacedIsFilled ==
  ASSUME PiecesAreTexts, Plain(HostName), Plain(request.uri),
         NEW text \in Seq(Atom), NamesOnce(text)
  PROVE  Replaced(Replaced(text, "$host", HostName), "$request_uri", request.uri) = Filled(text)
<1>. DEFINE hosted == Replaced(text, "$host", HostName)
            result == Replaced(hosted, "$request_uri", request.uri)
<1>1. /\ Piece("$host") = HostName /\ Piece("$request_uri") = request.uri
      /\ "$host" \in Variables /\ "$request_uri" \in Variables
      /\ HostName \in Seq(Atom) /\ request.uri \in Seq(Atom)
  BY DEF Piece, Variables, PiecesAreTexts
<1>2. hosted \in Seq(Atom) /\ result \in Seq(Atom)
  <2>1. hosted \in Seq(Atom)
    BY <1>1, ReplacedType
  <2>. HIDE DEF hosted
  <2>. QED
    BY <1>1, <2>1, ReplacedType
<1>3. Filled(hosted) = Filled(text)
  BY <1>1, FilledReplaced
<1>4. Filled(result) = Filled(hosted)
  <2>. HIDE DEF hosted
  <2>. QED
    BY <1>1, <1>2, FilledReplaced
<1>5. /\ \A j \in 1..Len(HostName) : HostName[j] # "$host" /\ HostName[j] # "$request_uri"
      /\ \A j \in 1..Len(request.uri) : request.uri[j] # "$host" /\ request.uri[j] # "$request_uri"
  <2>1. DOMAIN HostName = 1..Len(HostName) /\ DOMAIN request.uri = 1..Len(request.uri)
    BY <1>1
  <2>. QED
    BY <2>1 DEF Plain, Range, Variables
<1>6. Once(text, "$host") /\ Once(text, "$request_uri")
  <2>1. DOMAIN text = 1..Len(text)
    OBVIOUS
  <2>. QED
    BY <1>1, <2>1 DEF NamesOnce, Once
<1>7. /\ \A j \in 1..Len(hosted) : hosted[j] # "$host"
      /\ Once(hosted, "$request_uri") /\ Once(hosted, "$host")
  BY <1>1, <1>5, <1>6, ReplacedOnce
<1>8. \A j \in 1..Len(result) : result[j] # "$host" /\ result[j] # "$request_uri"
  <2>. HIDE DEF hosted
  <2>1. \A j \in 1..Len(result) : result[j] # "$request_uri"
    BY <1>1, <1>2, <1>5, <1>7, ReplacedOnce
  <2>2. \A j \in 1..Len(result) : result[j] # "$host"
    BY <1>1, <1>2, <1>5, <1>7, ReplacedOnce
  <2>. QED
    BY <2>1, <2>2
<1>. HIDE DEF hosted, result
<1>9. Plain(result)
  <2>1. DOMAIN result = 1..Len(result)
    BY <1>2
  <2>. QED
    BY <1>8, <2>1 DEF Plain, Range, Variables
<1>10. Filled(result) = result
  BY <1>2, <1>9, FilledPlain
<1>. QED
  BY <1>3, <1>4, <1>10 DEF hosted, result

\* The reply is the stock one with the headers of the section, in order, each variable
\* standing for the host without its port, or for the uri.
THEOREM HeadersFilled == HandlerSpec => []HeadersAreFilled
<1>1. ASSUME HandlerInv PROVE HeadersAreFilled
  <2> SUFFICES ASSUME outcome = "returned", ~HostIsMissed, Plain(HostSent), Plain(request.uri),
                      \A k \in DOMAIN section.headers : NamesOnce(Value(section.headers[k]))
               PROVE  res = [StockReply(section.status) EXCEPT !.headers =
                              @ \o [k \in DOMAIN section.headers |->
                                      Header(Name(section.headers[k]), Filled(Value(section.headers[k])))]]
    BY DEF HeadersAreFilled
  <2>1. SectionType /\ RequestType /\ res = Served(Len(section.headers))
    BY <1>1, Outcomes DEF HandlerInv
  <2>2. /\ AllPushed \in Seq(HeaderType) /\ Len(AllPushed) = Len(section.headers)
        /\ DOMAIN section.headers = 1..Len(section.headers)
    BY <2>1, AllPushedType DEF SectionType
  <2>3. SubSeq(AllPushed, 1, Len(section.headers)) = AllPushed
    BY <2>2
  <2>4. /\ PiecesAreTexts /\ HostName = Bare(GetHeader("host"))
        /\ HostName \in Seq(Atom) /\ HostSent \in Seq(STRING \ {"CRLF"})
    BY <2>1, PieceTypes, AtomTexts, HostSentType
  <2>5. Plain(HostName)
    <3>1. Range(HostName) \subseteq Range(HostSent)
      BY <2>4, BareIsName
    <3>. QED
      BY <3>1 DEF Plain
  <2>6. ASSUME NEW k \in 1..Len(section.headers)
        PROVE  Pushed(section.headers[k]) = Header(Name(section.headers[k]), Filled(Value(section.headers[k])))
    <3>1. section.headers[k] \in Entry
      BY <2>1, AllPushedType
    <3>2. Value(section.headers[k]) \in Seq(Atom)
      BY <3>1, EntryType
    <3>3. NamesOnce(Value(section.headers[k]))
      BY <2>2
    <3>. QED
      BY <2>4, <2>5, <3>2, <3>3, ReplacedIsFilled DEF Pushed
  <2>7. AllPushed = [k \in DOMAIN section.headers |->
                      Header(Name(section.headers[k]), Filled(Value(section.headers[k])))]
    BY <2>2, <2>6 DEF AllPushed
  <2>. QED
    BY <2>1, <2>3, <2>7 DEF Served
<1>. QED
  BY <1>1, HandlerInvariant, PTL

-----------------------------------------------------------------------------
(***************************************************************************)
(* The lines of a reply.                                                   *)
(***************************************************************************)
CleanHeader == [name : Atom \ {"CRLF"}, value : Seq(Atom \ {"CRLF"})]

Line(header) == <<header.name, ": ">> \o header.value \o <<"CRLF">>

\* A line has one line break, at its end, and something before it.
IsLine(line) ==
  /\ line \in Seq(Atom)
  /\ Len(line) >= 3
  /\ line[Len(line)] = "CRLF"
  /\ \A i \in 1..(Len(line) - 1) : line[i] # "CRLF"

NoBlank(flat) == \A i \in 1..(Len(flat) - 1) : ~(flat[i] = "CRLF" /\ flat[i + 1] = "CRLF")

LEMMA LineIsLine ==
  ASSUME NEW header \in CleanHeader
  PROVE  /\ IsLine(Line(header)) /\ Len(Line(header)) = Len(header.value) + 3
         /\ Line(header)[1] = header.name /\ Line(header)[2] = ": "
         /\ \A i \in 1..Len(header.value) : Line(header)[i + 2] = header.value[i]
<1>. DEFINE start == <<header.name, ": ">>
            break == <<"CRLF">>
            value == header.value
            line  == Line(header)
<1>1. /\ header.name \in Atom /\ header.name # "CRLF"
      /\ value \in Seq(Atom) /\ Len(value) \in Nat /\ \A i \in 1..Len(value) : value[i] # "CRLF"
  <2>1. header.name \in Atom /\ header.name # "CRLF" /\ value \in Seq(Atom \ {"CRLF"})
    BY DEF CleanHeader
  <2>2. Len(value) \in Nat /\ \A i \in 1..Len(value) : value[i] \in Atom \ {"CRLF"}
    BY <2>1, ElementOfSeq
  <2>. QED
    BY <2>1, <2>2, AtomTexts
<1>2. /\ start \in Seq(Atom) /\ Len(start) = 2 /\ start[1] = header.name /\ start[2] = ": "
  <2>1. ": " \in Atom
    BY DEF Atom
  <2>. QED
    BY <1>1, <2>1, Pair
<1>3. break \in Seq(Atom) /\ Len(break) = 1 /\ break[1] = "CRLF"
  <2>1. "CRLF" \in Atom
    BY DEF Atom
  <2>. QED
    BY <2>1, Single
<1>4. line = (start \o value) \o break
  BY DEF Line
<1>. HIDE DEF start, break, value, line
<1>5. line \in Seq(Atom) /\ InThree(line, start, value, break)
  BY <1>1, <1>2, <1>3, <1>4, Concat3
<1>6. /\ Len(line) = Len(value) + 3
      /\ line[1] = header.name /\ line[2] = ": "
      /\ \A i \in 1..Len(value) : line[2 + i] = value[i]
      /\ line[Len(value) + 3] = "CRLF"
  <2>1. /\ Len(line) = (2 + Len(value)) + 1
        /\ \A i \in 1..2 : line[i] = start[i]
        /\ \A i \in 1..Len(value) : line[2 + i] = value[i]
        /\ \A i \in 1..1 : line[(2 + Len(value)) + i] = break[i]
    BY <1>2, <1>3, <1>5 DEF InThree
  <2>2. line[1] = start[1] /\ line[2] = start[2] /\ line[(2 + Len(value)) + 1] = break[1]
    BY <2>1
  <2>3. (2 + Len(value)) + 1 = Len(value) + 3
    BY <1>1
  <2>. QED
    BY <1>2, <1>3, <2>1, <2>2, <2>3
<1>7. ASSUME NEW i \in 1..(Len(line) - 1) PROVE line[i] # "CRLF"
  <2>0. i \in 1..(Len(value) + 2)
    <3>. DEFINE n == Len(value)
    <3>1. n \in Nat /\ i \in 1..((n + 3) - 1)
      BY <1>1, <1>6
    <3>. HIDE DEF n
    <3>2. i \in 1..(n + 2)
      BY <3>1
    <3>. QED
      BY <3>2 DEF n
  <2>1. CASE i = 1
    BY <1>1, <1>6, <2>1
  <2>2. CASE i = 2
    BY <1>6, <2>2
  <2>3. CASE i > 2
    <3>1. i - 2 \in 1..Len(value) /\ i = 2 + (i - 2)
      BY <1>1, <2>0, <2>3
    <3>2. line[2 + (i - 2)] = value[i - 2]
      BY <1>6, <3>1
    <3>. QED
      BY <1>1, <3>1, <3>2
  <2>. QED
    BY <1>1, <2>0, <2>1, <2>2, <2>3
<1>8. IsLine(line)
  <2>1. Len(line) >= 3
    <3>1. \A n \in Nat : n + 3 >= 3
      OBVIOUS
    <3>2. Len(line) = Len(value) + 3 /\ Len(value) \in Nat
      BY <1>1, <1>6
    <3>. QED
      BY <3>1, <3>2, Zenon
  <2>2. line[Len(line)] = "CRLF"
    BY <1>6
  <2>. QED
    BY <1>5, <1>7, <2>1, <2>2 DEF IsLine
<1>9. \A i \in 1..Len(value) : i + 2 = 2 + i
  BY <1>1
<1>. QED
  BY <1>6, <1>8, <1>9 DEF value, line

LEMMA ShortLine ==
  ASSUME NEW header \in CleanHeader, Len(header.value) = 1
  PROVE  /\ Len(Line(header)) = 4 /\ Line(header)[1] = header.name /\ Line(header)[2] = ": "
         /\ Line(header)[3] = header.value[1]
<1>1. /\ Len(Line(header)) = Len(header.value) + 3
      /\ Line(header)[1] = header.name /\ Line(header)[2] = ": "
      /\ \A i \in 1..Len(header.value) : Line(header)[i + 2] = header.value[i]
  BY LineIsLine
<1>2. 1 + 2 = 3 /\ 1 + 3 = 4 /\ 1 \in 1..Len(header.value)
  OBVIOUS
<1>3. Line(header)[1 + 2] = header.value[1]
  BY <1>1, <1>2, Zenon
<1>. QED
  BY <1>1, <1>2, <1>3, Zenon

\* What lines make when they follow each other.
InLines(flat, first) ==
  /\ flat \in Seq(Atom) /\ NoBlank(flat)
  /\ Len(flat) >= Len(first) /\ flat[Len(flat)] = "CRLF"
  /\ \A i \in 1..Len(first) : flat[i] = first[i]

LEMMA LineAdded ==
  ASSUME NEW first, NEW flat, NEW line, IsLine(first), IsLine(line), InLines(flat, first)
  PROVE  InLines(flat \o line, first)
<1>1. /\ flat \in Seq(Atom) /\ line \in Seq(Atom)
      /\ Len(flat) \in Nat /\ Len(line) \in Nat /\ Len(first) \in Nat /\ Len(line) >= 3
      /\ Len(flat) >= Len(first) /\ Len(first) >= 3
  BY DEF IsLine, InLines
<1>. DEFINE more == flat \o line
<1>2. /\ more \in Seq(Atom) /\ Len(more) = Len(flat) + Len(line)
      /\ \A i \in 1..Len(flat) : more[i] = flat[i]
      /\ \A i \in 1..Len(line) : more[Len(flat) + i] = line[i]
  BY <1>1
<1>. HIDE DEF more
<1>3. more[Len(more)] = "CRLF"
  BY <1>1, <1>2 DEF IsLine
<1>4. ASSUME NEW i \in 1..(Len(more) - 1), more[i] = "CRLF", more[i + 1] = "CRLF" PROVE FALSE
  <2>1. CASE i < Len(flat)
    <3>1. i \in 1..(Len(flat) - 1) /\ i \in 1..Len(flat) /\ i + 1 \in 1..Len(flat)
      BY <1>1, <2>1
    <3>. QED
      BY <1>2, <1>4, <3>1 DEF InLines, NoBlank
  <2>2. CASE i >= Len(flat)
    <3>. DEFINE j == (i + 1) - Len(flat)
    <3>1. /\ j \in 1..Len(line) /\ Len(flat) + j = i + 1
          /\ j # 1 => j - 1 \in 1..(Len(line) - 1) /\ Len(flat) + (j - 1) = i
      <4>. DEFINE f == Len(flat)
                  l == Len(line)
      <4>1. f \in Nat /\ l \in Nat /\ i \in 1..((f + l) - 1) /\ i >= f
        BY <1>1, <1>2, <2>2
      <4>. HIDE DEF f, l
      <4>2. /\ (i + 1) - f \in 1..l /\ f + ((i + 1) - f) = i + 1
            /\ (i + 1) - f # 1 => ((i + 1) - f) - 1 \in 1..(l - 1) /\ f + (((i + 1) - f) - 1) = i
        BY <4>1
      <4>. QED
        BY <4>2 DEF f, l
    <3>. HIDE DEF j
    <3>2. line[j] = "CRLF"
      BY <1>2, <1>4, <3>1
    <3>3. j # 1
      BY <1>1, <3>2 DEF IsLine
    <3>4. j - 1 \in 1..Len(line)
      BY <1>1, <3>1, <3>3
    <3>5. line[j - 1] = "CRLF"
      BY <1>2, <1>4, <3>1, <3>3, <3>4
    <3>. QED
      BY <3>1, <3>3, <3>5 DEF IsLine
  <2>. QED
    BY <1>1, <2>1, <2>2
<1>5. \A i \in 1..Len(first) : i \in 1..Len(flat) /\ more[i] = first[i]
  BY <1>1, <1>2 DEF InLines
<1>6. Len(more) >= Len(first)
  BY <1>1, <1>2
<1>7. InLines(more, first)
  BY <1>2, <1>3, <1>4, <1>5, <1>6 DEF InLines, NoBlank
<1>. QED
  BY <1>7 DEF more

LEMMA LinesFollow ==
  ASSUME NEW lines \in Seq(Seq(Atom)), lines # <<>>, \A k \in 1..Len(lines) : IsLine(lines[k])
  PROVE  InLines(FlattenSeq(lines), lines[1])
<1>. DEFINE P(n) == n >= 1 => InLines(FlattenSeq(SubSeq(lines, 1, n)), lines[1])
            T == {n \in Nat : P(n)}
<1>0. Len(lines) \in Nat /\ Len(lines) >= 1
  OBVIOUS
<1>1. P(0)
  OBVIOUS
<1>2. ASSUME NEW n \in Nat, n < Len(lines), P(n) PROVE P(n + 1)
  <2>. DEFINE flat == FlattenSeq(SubSeq(lines, 1, n))
              line == lines[n + 1]
  <2>1. FlattenSeq(SubSeq(lines, 1, n + 1)) = flat \o line
    BY <1>2, FlattenNext
  <2>2. IsLine(line) /\ IsLine(lines[1]) /\ line \in Seq(Atom)
    BY <1>0, <1>2
  <2>3. CASE n = 0
    <3>1. flat = <<>>
      <4>1. SubSeq(lines, 1, 0) = <<>>
        OBVIOUS
      <4>. QED
        BY <2>3, <4>1, FlattenEmpty
    <3>2. <<>> \o line = line
      BY <2>2, ConcatEmptySeq
    <3>3. line = lines[1]
      BY <2>3
    <3>. HIDE DEF flat, line
    <3>4. NoBlank(line)
      <4>1. Len(line) \in Nat
        BY <2>2
      <4>. QED
        BY <2>2, <4>1 DEF IsLine, NoBlank
    <3>5. InLines(line, line)
      <4>1. Len(line) >= Len(line)
        BY <2>2
      <4>. QED
        BY <2>2, <3>4, <4>1 DEF IsLine, InLines
    <3>. QED
      BY <2>1, <3>1, <3>2, <3>3, <3>5
  <2>4. CASE n # 0
    <3>1. InLines(flat, lines[1])
      BY <1>2, <2>4
    <3>. HIDE DEF flat, line
    <3>. QED
      BY <2>1, <2>2, <3>1, LineAdded
  <2>. QED
    BY <2>3, <2>4
<1>. HIDE DEF P
<1>3. SubSeq(lines, 1, Len(lines)) = lines
  OBVIOUS
<1>4. 0 \in T /\ \A n \in Nat : n < Len(lines) /\ n \in T => n + 1 \in T
  BY <1>1, <1>2
<1>5. Len(lines) \in T
  <2>. HIDE DEF T
  <2>. QED
    BY <1>0, <1>4, InductionTo
<1>. QED
  BY <1>0, <1>3, <1>5 DEF P

\* The headers of the reply have no line break, unless the section has one.
LEMMA PushedClean ==
  ASSUME RequestType, NEW entry \in Entry, Unbroken(entry)
  PROVE  Pushed(entry) \in CleanHeader
<1>. DEFINE Clean == Atom \ {"CRLF"}
            hosted == Replaced(Value(entry), "$host", Bare(GetHeader("host")))
<1>1. Name(entry) \in Clean /\ Value(entry) \in Seq(Clean)
  <2>1. Name(entry) \in Atom /\ Value(entry) \in Seq(Atom)
    BY EntryType
  <2>2. /\ Len(Value(entry)) \in Nat /\ DOMAIN Value(entry) = 1..Len(Value(entry))
        /\ Value(entry) = [k \in 1..Len(Value(entry)) |-> Value(entry)[k]]
    BY <2>1
  <2>3. \A k \in 1..Len(Value(entry)) : Value(entry)[k] \in Clean
    BY <2>1, <2>2, ElementOfSeq DEF Unbroken, Range
  <2>4. [k \in 1..Len(Value(entry)) |-> Value(entry)[k]] \in Seq(Clean)
    BY <2>2, <2>3, IsASeq
  <2>. QED
    BY <2>1, <2>2, <2>4 DEF Unbroken
<1>2. Bare(GetHeader("host")) \in Seq(Clean) /\ request.uri \in Seq(Clean)
  BY PieceTypes
<1>. HIDE DEF Clean
<1>3. hosted \in Seq(Clean)
  BY <1>1, <1>2, ReplacedType
<1>. HIDE DEF hosted
<1>4. Replaced(hosted, "$request_uri", request.uri) \in Seq(Clean)
  BY <1>2, <1>3, ReplacedType
<1>. QED
  BY <1>1, <1>4 DEF Pushed, Header, CleanHeader, Clean, hosted

LEMMA DescribedClean ==
  ASSUME NEW content, Len(content) \in 0..2, NEW type \in Atom \ {"CRLF"}
  PROVE  \A k \in 1..2 : Described(content, type)[k] \in CleanHeader
<1>1. /\ Described(content, type)[1] = Header("Content-Length", <<ToString(Len(content))>>)
      /\ Described(content, type)[2] = Header("Content-Type", <<type>>)
      /\ ToString(Len(content)) \in Atom \ {"CRLF"}
  BY DescribedType
<1>2. <<ToString(Len(content))>> \in Seq(Atom \ {"CRLF"}) /\ <<type>> \in Seq(Atom \ {"CRLF"})
  BY <1>1, Single
<1>3. "Content-Length" \in Atom \ {"CRLF"} /\ "Content-Type" \in Atom \ {"CRLF"}
  BY DEF Atom
<1>4. /\ Header("Content-Length", <<ToString(Len(content))>>) \in CleanHeader
      /\ Header("Content-Type", <<type>>) \in CleanHeader
  BY <1>2, <1>3 DEF Header, CleanHeader
<1>. QED
  BY <1>1, <1>4

\* A reply whose first header is its Content-Length, and whose headers break no line.
IsReply(rep) ==
  /\ rep.status \in Status
  /\ rep.content \in Seq(Atom) /\ Len(rep.content) \in 0..2
  /\ rep.headers \in Seq(CleanHeader) /\ Len(rep.headers) >= 2
  /\ rep.headers[1] = Header("Content-Length", <<ToString(Len(rep.content))>>)

LEMMA ReturnedIsReply ==
  ASSUME HandlerInv, outcome = "returned", \A k \in DOMAIN section.headers : Unbroken(section.headers[k])
  PROVE  IsReply(res)
<1>1. CASE res = BadReply
  <2>1. Len(MissingHost) = 2 /\ MissingHost \in Seq(Atom)
    <3>1. "Missing 'Host' header" \in Atom /\ "in the request" \in Atom
      BY DEF Atom
    <3>. QED
      BY <3>1, Pair DEF MissingHost
  <2>2. "text/plain" \in Atom \ {"CRLF"} /\ "bad_request" \in Status /\ Len(MissingHost) \in 0..2
    <3>1. "text/plain" \in Atom \ {"CRLF"}
      BY DEF Atom
    <3>2. "bad_request" \in Status
      BY DEF Status
    <3>3. Len(MissingHost) \in 0..2
      BY <2>1
    <3>. QED
      BY <3>1, <3>2, <3>3
  <2>. DEFINE headers == Described(MissingHost, "text/plain")
  <2>3. /\ headers \in Seq(HeaderType) /\ Len(headers) = 2
        /\ headers[1] = Header("Content-Length", <<ToString(Len(MissingHost))>>)
        /\ \A k \in 1..2 : headers[k] \in CleanHeader
    BY <2>2, DescribedType, DescribedClean
  <2>4. headers \in Seq(CleanHeader)
    <3>. HIDE DEF headers
    <3>1. headers = [k \in 1..2 |-> headers[k]] /\ [k \in 1..2 |-> headers[k]] \in Seq(CleanHeader)
      BY <2>3
    <3>. QED
      BY <3>1
  <2>5. res.status = "bad_request" /\ res.content = MissingHost /\ res.headers = headers
    BY <1>1 DEF BadReply
  <2>. HIDE DEF headers
  <2>6. Len(headers) >= 2
    BY <2>3
  <2>. QED
    BY <2>1, <2>2, <2>3, <2>4, <2>5, <2>6 DEF IsReply
<1>2. CASE res = Served(Len(section.headers))
  <2>. DEFINE content == StockBody(section.status)
              base == Described(content, "text/html")
  <2>1. SectionType /\ RequestType /\ section.status \in Status
    BY HandlerAssumption DEF HandlerInv, SectionType, HandlerAssumption
  <2>2. /\ content \in Seq(Atom) /\ Len(content) \in 0..2
        /\ "text/html" \in Atom \ {"CRLF"}
    <3>1. content \in Seq(Atom) /\ Len(content) \in 0..1
      BY <2>1, StockReplyType
    <3>. HIDE DEF content
    <3>2. Len(content) \in 0..2
      BY <3>1
    <3>. QED
      BY <3>1, <3>2 DEF Atom
  <2>3. /\ base \in Seq(HeaderType) /\ Len(base) = 2
        /\ base[1] = Header("Content-Length", <<ToString(Len(content))>>)
        /\ \A k \in 1..2 : base[k] \in CleanHeader
    <3>. HIDE DEF content
    <3>. QED
      BY <2>2, DescribedType, DescribedClean
  <2>4. base \in Seq(CleanHeader)
    <3>. HIDE DEF base
    <3>1. base = [k \in 1..2 |-> base[k]] /\ [k \in 1..2 |-> base[k]] \in Seq(CleanHeader)
      BY <2>3
    <3>. QED
      BY <3>1
  <2>5. AllPushed \in Seq(CleanHeader)
    <3>1. /\ Len(section.headers) \in Nat /\ DOMAIN section.headers = 1..Len(section.headers)
          /\ \A k \in 1..Len(section.headers) : section.headers[k] \in Entry
      BY <2>1, AllPushedType DEF SectionType
    <3>2. \A k \in 1..Len(section.headers) : Pushed(section.headers[k]) \in CleanHeader
      BY <2>1, <3>1, PushedClean
    <3>. QED
      BY <3>1, <3>2, IsASeq DEF AllPushed
  <2>6. SubSeq(AllPushed, 1, Len(section.headers)) = AllPushed
    BY <2>1, AllPushedType
  <2>7. res.status = section.status /\ res.content = content /\ res.headers = base \o AllPushed
    BY <1>2, <2>6 DEF Served, StockReply
  <2>8. base \o AllPushed \in Seq(CleanHeader) /\ Len(base \o AllPushed) >= 2 /\ (base \o AllPushed)[1] = base[1]
    <3>. HIDE DEF base
    <3>1. /\ base \o AllPushed \in Seq(CleanHeader)
          /\ Len(base \o AllPushed) = Len(base) + Len(AllPushed) /\ Len(AllPushed) \in Nat
      BY <2>4, <2>5, ConcatProperties, LenProperties
    <3>2. Len(base \o AllPushed) >= 2
      BY <2>3, <3>1
    <3>3. (base \o AllPushed)[1] = base[1]
      <4>1. InTwo(base \o AllPushed, base, AllPushed) /\ 1 \in 1..Len(base)
        BY <2>3, <2>4, <2>5, Concat2
      <4>. QED
        BY <4>1 DEF InTwo
    <3>. QED
      BY <3>1, <3>2, <3>3
  <2>. HIDE DEF base, content
  <2>. QED
    BY <2>1, <2>2, <2>3, <2>7, <2>8 DEF IsReply
<1>. QED
  BY <1>1, <1>2, Outcomes

\* The first empty line of a reply on the wire is the one after the headers.
LEMMA WireOfReply ==
  ASSUME NEW rep, IsReply(rep)
  PROVE  LET wire  == Wire(rep)
             blank == CHOOSE k \in DOMAIN wire :
                        /\ wire[k] = "CRLF" /\ wire[k + 1] = "CRLF"
                        /\ \A j \in 1..(k - 1) : ~(wire[j] = "CRLF" /\ wire[j + 1] = "CRLF")
             body  == SubSeq(wire, blank + 2, Len(wire))
         IN  /\ SubSeq(wire, 2, 4) = <<"Content-Length", ": ", ToString(Len(body))>>
             /\ body = rep.content
<1>. DEFINE lines == [k \in DOMAIN rep.headers |-> Line(rep.headers[k])]
            flat  == FlattenSeq(lines)
            top   == <<rep.status>>
            break == <<"CRLF">>
            wire  == Wire(rep)
            c     == Len(rep.content)
            IsBlank(k) == /\ wire[k] = "CRLF" /\ wire[k + 1] = "CRLF"
                          /\ \A j \in 1..(k - 1) : ~(wire[j] = "CRLF" /\ wire[j + 1] = "CRLF")
            blank == CHOOSE k \in DOMAIN wire : IsBlank(k)
            body  == SubSeq(wire, blank + 2, Len(wire))
<1>1. /\ lines \in Seq(Seq(Atom)) /\ Len(lines) = Len(rep.headers) /\ Len(lines) >= 2
      /\ \A k \in 1..Len(lines) : IsLine(lines[k])
      /\ lines[1] = Line(rep.headers[1]) /\ rep.headers[1] \in CleanHeader
  <2>1. /\ rep.headers \in Seq(CleanHeader) /\ Len(rep.headers) \in Nat /\ Len(rep.headers) >= 2
        /\ DOMAIN rep.headers = 1..Len(rep.headers)
    BY DEF IsReply
  <2>2. \A k \in 1..Len(rep.headers) : rep.headers[k] \in CleanHeader
    BY <2>1, ElementOfSeq
  <2>3. \A k \in 1..Len(rep.headers) : IsLine(Line(rep.headers[k]))
    BY <2>2, LineIsLine
  <2>4. \A k \in 1..Len(rep.headers) : Line(rep.headers[k]) \in Seq(Atom)
    BY <2>3 DEF IsLine
  <2>5. lines = [k \in 1..Len(rep.headers) |-> Line(rep.headers[k])]
    BY <2>1
  <2>6. lines \in Seq(Seq(Atom))
    BY <2>1, <2>4, <2>5, IsASeq
  <2>7. Len(lines) = Len(rep.headers) /\ 1 \in 1..Len(rep.headers)
    BY <2>1, <2>5, <2>6
  <2>8. \A k \in 1..Len(rep.headers) : lines[k] = Line(rep.headers[k])
    BY <2>1
  <2>. QED
    BY <2>1, <2>2, <2>3, <2>6, <2>7, <2>8
<1>2. /\ Len(lines[1]) = 4 /\ lines[1][1] = "Content-Length" /\ lines[1][2] = ": "
      /\ lines[1][3] = ToString(c)
  <2>1. rep.headers[1] = Header("Content-Length", <<ToString(c)>>)
    BY DEF IsReply
  <2>. HIDE DEF lines, c
  <2>. DEFINE header == rep.headers[1]
  <2>2. header.name = "Content-Length" /\ Len(header.value) = 1 /\ header.value[1] = ToString(c)
    <3>1. header.name = "Content-Length" /\ header.value = <<ToString(c)>>
      BY <2>1 DEF Header
    <3>. QED
      BY <3>1
  <2>. HIDE DEF header
  <2>3. header \in CleanHeader /\ lines[1] = Line(header)
    BY <1>1 DEF header
  <2>. QED
    BY <2>2, <2>3, ShortLine
<1>3. InLines(flat, lines[1])
  <2>. HIDE DEF lines
  <2>1. lines # <<>>
    BY <1>1
  <2>. QED
    BY <1>1, <2>1, LinesFollow
<1>4. wire = ((top \o flat) \o break) \o rep.content
  BY DEF Wire, Line
<1>5. /\ top \in Seq(Atom) /\ Len(top) = 1 /\ top[1] # "CRLF"
      /\ break \in Seq(Atom) /\ Len(break) = 1 /\ break[1] = "CRLF"
      /\ rep.content \in Seq(Atom) /\ c \in Nat
  <2>1. rep.status \in Atom /\ rep.status # "CRLF" /\ "CRLF" \in Atom
    BY DEF IsReply, Status, Atom
  <2>2. rep.content \in Seq(Atom) /\ c \in Nat
    BY DEF IsReply
  <2>. QED
    BY <2>1, <2>2, Single
<1>6. flat \in Seq(Atom) /\ Len(flat) \in Nat /\ Len(flat) >= 4 /\ flat[Len(flat)] = "CRLF" /\ NoBlank(flat)
      /\ \A i \in 1..3 : flat[i] = lines[1][i]
  <2>. HIDE DEF lines, flat
  <2>1. \A i \in 1..3 : i \in 1..4
    OBVIOUS
  <2>2. /\ flat \in Seq(Atom) /\ NoBlank(flat) /\ Len(flat) >= 4 /\ flat[Len(flat)] = "CRLF"
        /\ \A i \in 1..4 : flat[i] = lines[1][i]
    BY <1>2, <1>3 DEF InLines
  <2>3. Len(flat) \in Nat
    BY <2>2
  <2>. QED
    BY <2>1, <2>2, <2>3
<1>. HIDE DEF lines, flat, top, break, wire
<1>. DEFINE f == Len(flat)
            head == (top \o flat) \o break
<1>7. /\ head \in Seq(Atom) /\ Len(head) = f + 2
      /\ head[1] = top[1] /\ \A i \in 1..f : head[i + 1] = flat[i]
      /\ head[f + 2] = "CRLF"
  <2>1. head \in Seq(Atom) /\ InThree(head, top, flat, break)
    BY <1>5, <1>6, Concat3
  <2>. HIDE DEF head
  <2>2. /\ Len(head) = (1 + f) + 1
        /\ \A i \in 1..1 : head[i] = top[i]
        /\ \A i \in 1..f : head[1 + i] = flat[i]
        /\ \A i \in 1..1 : head[(1 + f) + i] = break[i]
    BY <1>5, <2>1 DEF InThree
  <2>3. head[1] = top[1] /\ head[(1 + f) + 1] = break[1]
    BY <2>2
  <2>4. (1 + f) + 1 = f + 2 /\ \A i \in 1..f : 1 + i = i + 1
    BY <1>6
  <2>. QED
    BY <1>5, <2>1, <2>2, <2>3, <2>4
<1>8. /\ wire \in Seq(Atom) /\ Len(wire) = (f + 2) + c
      /\ \A i \in 1..(f + 2) : wire[i] = head[i]
      /\ \A i \in 1..c : wire[(f + 2) + i] = rep.content[i]
  <2>1. wire = head \o rep.content
    BY <1>4
  <2>. HIDE DEF head
  <2>. QED
    <3>1. wire \in Seq(Atom) /\ InTwo(wire, head, rep.content)
      BY <1>5, <1>7, <2>1, Concat2
    <3>. HIDE DEF c, f
    <3>2. Len(head) = f + 2 /\ Len(rep.content) = c
      BY <1>7 DEF c
    <3>3. /\ Len(wire) = Len(head) + Len(rep.content)
          /\ \A i \in 1..Len(head) : wire[i] = head[i]
          /\ \A i \in 1..Len(rep.content) : wire[Len(head) + i] = rep.content[i]
      BY <3>1 DEF InTwo
    <3>. QED
      BY <3>1, <3>2, <3>3, Zenon
<1>. HIDE DEF head, c, f
<1>9. f \in Nat /\ f >= 4
  BY <1>6 DEF f
<1>10. /\ wire[1] # "CRLF" /\ \A i \in 1..f : wire[i + 1] = flat[i]
       /\ wire[f + 1] = "CRLF" /\ wire[f + 2] = "CRLF"
  <2>1. 1 \in 1..(f + 2) /\ f + 2 \in 1..(f + 2) /\ \A i \in 1..f : i + 1 \in 1..(f + 2)
    BY <1>9
  <2>2. wire[1] = head[1] /\ wire[f + 2] = head[f + 2] /\ \A i \in 1..f : wire[i + 1] = head[i + 1]
    BY <1>8, <2>1
  <2>3. f \in 1..f /\ flat[f] = "CRLF"
    BY <1>6, <1>9 DEF f
  <2>. QED
    BY <1>5, <1>7, <2>2, <2>3
<1>11. IsBlank(f + 1) /\ f + 1 \in DOMAIN wire
  <2>1. ASSUME NEW j \in 1..f, wire[j] = "CRLF", wire[j + 1] = "CRLF" PROVE FALSE
    <3>1. CASE j = 1
      BY <1>10, <2>1, <3>1
    <3>2. CASE j # 1
      <4>1. j - 1 \in 1..f /\ (j - 1) + 1 = j /\ j - 1 \in 1..(f - 1)
        BY <1>9, <3>2
      <4>2. wire[j] = flat[j - 1] /\ wire[j + 1] = flat[j]
        BY <1>10, <4>1
      <4>. QED
        BY <1>6, <2>1, <4>1, <4>2 DEF NoBlank, f
    <3>. QED
      BY <3>1, <3>2
  <2>2. (f + 1) + 1 = f + 2 /\ (f + 1) - 1 = f
    BY <1>9
  <2>3. f + 1 \in 1..Len(wire) /\ DOMAIN wire = 1..Len(wire)
    BY <1>5, <1>8, <1>9
  <2>. QED
    BY <1>10, <2>1, <2>2, <2>3
<1>12. ASSUME NEW k \in DOMAIN wire, IsBlank(k) PROVE k = f + 1
  <2>1. k \in Nat /\ k >= 1
    BY <1>8
  <2>2. ~(k \in 1..((f + 1) - 1))
    BY <1>11, <1>12
  <2>3. ~(f + 1 \in 1..(k - 1))
    BY <1>11, <1>12
  <2>. QED
    BY <1>9, <2>1, <2>2, <2>3
<1>13. blank = f + 1
  <2>. HIDE DEF IsBlank
  <2>. QED
    BY <1>11, <1>12
<1>14. body = rep.content
  <2>1. blank + 2 = (f + 2) + 1
    <3>. HIDE DEF blank
    <3>. QED
      BY <1>9, <1>13
  <2>2. body = SubSeq(wire, (f + 2) + 1, (f + 2) + c)
    BY <1>8, <2>1
  <2>3. /\ body \in Seq(Atom) /\ Len(body) = c
        /\ \A i \in 1..c : body[i] = wire[(f + 2) + i]
    <3>. HIDE DEF body, blank
    <3>. DEFINE d == f + 2
    <3>1. d \in Nat /\ c \in Nat /\ Len(wire) = d + c /\ body = SubSeq(wire, d + 1, d + c)
      BY <1>5, <1>8, <1>9, <2>2
    <3>. HIDE DEF d
    <3>2. /\ body \in Seq(Atom) /\ Len(body) = c
          /\ \A i \in 1..c : body[i] = wire[d + i]
      BY <1>8, <3>1
    <3>. QED
      BY <3>2 DEF d
  <2>. HIDE DEF body
  <2>4. Len(rep.content) = c /\ \A i \in 1..c : body[i] = rep.content[i]
    BY <1>8, <2>3 DEF c
  <2>. QED
    BY <1>5, <2>3, <2>4, SeqEqual
<1>. HIDE DEF IsBlank, blank, body
<1>15. SubSeq(wire, 2, 4) = <<"Content-Length", ": ", ToString(c)>>
  <2>1. wire[2] = flat[1] /\ wire[3] = flat[2] /\ wire[4] = flat[3]
    <3>1. 1 \in 1..f /\ 2 \in 1..f /\ 3 \in 1..f
      BY <1>9
    <3>2. wire[1 + 1] = flat[1] /\ wire[2 + 1] = flat[2] /\ wire[3 + 1] = flat[3]
      BY <1>10, <3>1
    <3>. QED
      BY <3>2
  <2>2. SubSeq(wire, 2, 4) = <<wire[2], wire[3], wire[4]>>
    <3>1. Len(wire) \in Nat /\ Len(wire) >= 4
      BY <1>5, <1>8, <1>9
    <3>. QED
      BY <1>8, <3>1, Triple
  <2>3. flat[1] = "Content-Length" /\ flat[2] = ": " /\ flat[3] = ToString(c)
    <3>1. 1 \in 1..3 /\ 2 \in 1..3 /\ 3 \in 1..3
      OBVIOUS
    <3>2. flat[1] = lines[1][1] /\ flat[2] = lines[1][2] /\ flat[3] = lines[1][3]
      BY <1>6, <3>1
    <3>. QED
      BY <1>2, <3>2
  <2>. QED
    BY <2>1, <2>2, <2>3
<1>. QED
  BY <1>14, <1>15 DEF c, wire, body, blank, IsBlank

\* On the wire the body starts after the first empty line, and is as long as the first
\* Content-Length says, whichever way the handler ended and whatever the client sent.
THEOREM RepliesFramed == HandlerSpec => []Framed
<1>1. ASSUME HandlerInv PROVE Framed
  <2>1. ASSUME outcome = "returned", \A k \in DOMAIN section.headers : Unbroken(section.headers[k])
        PROVE  IsReply(res)
    BY <1>1, <2>1, ReturnedIsReply
  <2>. QED
    BY <2>1, WireOfReply DEF Framed
<1>. QED
  BY <1>1, HandlerInvariant, PTL

=============================================================================
