----------------------------- MODULE SequenceLemmas -----------------------------
(***************************************************************************)
(* Facts about numbers and sequences that the proofs of several components *)
(* rest on.  Induction on the natural numbers is for sets of them, from    *)
(* the least element of what is left over; with it, that a recursive       *)
(* definition has a solution, and what FlattenSeq computes.                *)
(***************************************************************************)
EXTENDS Naturals, Sequences, Listing, SequencesExt, FiniteSetTheorems, SequenceTheorems, WellFoundedInduction, TLAPS

\* Every non-empty set of naturals has a least element.
LEMMA LeastNatural ==
  ASSUME NEW S \in SUBSET Nat, S # {}
  PROVE  \E n \in S : \A m \in S : n <= m
<1>1. \E n \in S : \A m \in S : ~(<<m, n>> \in OpToRel(<, Nat))
  BY WFMin, NatLessThanWellFounded
<1>2. PICK n \in S : \A m \in S : ~(<<m, n>> \in OpToRel(<, Nat))
  BY <1>1
<1>3. ASSUME NEW m \in S PROVE n <= m
  <2>1. m \in Nat /\ n \in Nat
    OBVIOUS
  <2>2. ~(m < n)
    BY <1>2, <2>1 DEF OpToRel
  <2>. QED
    BY <2>1, <2>2
<1>. QED
  BY <1>3

\* A set of naturals that has 0, and n + 1 whenever it has n, has them all.
LEMMA Induction ==
  ASSUME NEW S \in SUBSET Nat, 0 \in S, \A n \in S : n + 1 \in S
  PROVE  S = Nat
<1> SUFFICES ASSUME Nat \ S # {} PROVE FALSE
  OBVIOUS
<1>1. PICK n \in Nat \ S : \A m \in Nat \ S : n <= m
  <2>. DEFINE T == Nat \ S
  <2>1. T \in SUBSET Nat /\ T # {}
    OBVIOUS
  <2>. HIDE DEF T
  <2>2. \E n \in T : \A m \in T : n <= m
    BY <2>1, LeastNatural
  <2>. QED
    BY <2>2 DEF T
<1>2. n - 1 \in Nat /\ (n - 1) + 1 = n /\ ~(n <= n - 1)
  OBVIOUS
<1>. QED
  BY <1>1, <1>2

\* The same, up to N only.
LEMMA InductionTo ==
  ASSUME NEW N \in Nat, NEW T, 0 \in T, \A n \in Nat : n < N /\ n \in T => n + 1 \in T
  PROVE  N \in T
<1>. DEFINE S == {n \in Nat : n <= N => n \in T}
<1>1. 0 \in S
  OBVIOUS
<1>2. ASSUME NEW n \in S PROVE n + 1 \in S
  <2>1. n \in Nat /\ (n + 1 <= N => n < N /\ n <= N)
    OBVIOUS
  <2>. QED
    BY <2>1
<1>3. S \in SUBSET Nat
  OBVIOUS
<1>4. S = Nat
  <2>. HIDE DEF S
  <2>. QED
    BY <1>1, <1>2, <1>3, Induction
<1>5. N \in S
  BY <1>4
<1>. QED
  BY <1>5

\* The least element is what CHOOSE finds.
LEMMA LeastChosen ==
  ASSUME NEW S \in SUBSET Nat, S # {}
  PROVE  /\ (CHOOSE n \in S : \A m \in S : n <= m) \in S
         /\ \A m \in S : (CHOOSE n \in S : \A j \in S : n <= j) <= m
<1>1. \E n \in S : \A m \in S : n <= m
  BY LeastNatural
<1>. QED
  BY <1>1

\* A set that has a point whenever it has all of smaller measure has them all.
LEMMA MeasureInduction ==
  ASSUME NEW D, NEW T, NEW measure \in [D -> Nat],
         \A d \in D : (\A e \in D : measure[e] < measure[d] => e \in T) => d \in T
  PROVE  \A d \in D : d \in T
<1> SUFFICES ASSUME NEW a \in D, a \notin T PROVE FALSE
  OBVIOUS
<1>. DEFINE M == {measure[d] : d \in {e \in D : e \notin T}}
<1>1. M \in SUBSET Nat /\ M # {}
  OBVIOUS
<1>2. PICK m \in M : \A n \in M : m <= n
  <2>. HIDE DEF M
  <2>. QED
    BY <1>1, LeastNatural
<1>3. PICK d \in D : d \notin T /\ measure[d] = m
  BY <1>2
<1>4. ASSUME NEW e \in D, measure[e] < measure[d], e \notin T PROVE FALSE
  <2>1. measure[e] \in M /\ measure[e] \in Nat /\ measure[d] \in Nat
    BY <1>4
  <2>. HIDE DEF M
  <2>. QED
    BY <1>2, <1>3, <1>4, <2>1
<1>. QED
  BY <1>3, <1>4

\* What a recursive definition says of a point depends only on points of smaller
\* measure; f is a solution of it.
Grounded(Step, D, V, measure) ==
  \A f, g \in [D -> V], d \in D :
     (\A e \in D : measure[e] < measure[d] => f[e] = g[e]) => Step[<<f, d>>] = Step[<<g, d>>]

Solves(f, Step, D) == \A d \in D : f[d] = Step[<<f, d>>]

\* Such a definition has a solution.
LEMMA Recursion ==
  ASSUME NEW D, NEW V, NEW v \in V, NEW N \in Nat, NEW measure \in [D -> 0..N],
         NEW Step \in [[D -> V] \X D -> V], Grounded(Step, D, V, measure)
  PROVE  \E f \in [D -> V] : Solves(f, Step, D)
<1>. DEFINE P(n) == \E f \in [D -> V] : \A d \in D : measure[d] < n => f[d] = Step[<<f, d>>]
            T == {n \in Nat : P(n)}
<1>0. \A d \in D : measure[d] \in Nat /\ measure[d] < N + 1
  OBVIOUS
<1>1. P(0)
  <2>1. [d \in D |-> v] \in [D -> V]
    OBVIOUS
  <2>2. \A d \in D : ~(measure[d] < 0)
    BY <1>0
  <2>. QED
    BY <2>1, <2>2
<1>2. ASSUME NEW n \in Nat, P(n) PROVE P(n + 1)
  <2>1. PICK f \in [D -> V] : \A d \in D : measure[d] < n => f[d] = Step[<<f, d>>]
    BY <1>2
  <2>. DEFINE g == [d \in D |-> Step[<<f, d>>]]
  <2>2. g \in [D -> V] /\ \A d \in D : g[d] = Step[<<f, d>>]
    OBVIOUS
  <2>. HIDE DEF g
  <2>3. ASSUME NEW d \in D, measure[d] < n + 1 PROVE g[d] = Step[<<g, d>>]
    <3>1. ASSUME NEW e \in D, measure[e] < measure[d] PROVE f[e] = g[e]
      <4>1. measure[e] < n
        BY <1>0, <2>3, <3>1
      <4>. QED
        BY <2>1, <2>2, <4>1
    <3>2. Step[<<f, d>>] = Step[<<g, d>>]
      BY <2>2, <3>1 DEF Grounded
    <3>. QED
      BY <2>2, <3>2
  <2>. QED
    BY <2>2, <2>3
<1>. HIDE DEF P
<1>3. 0 \in T /\ \A n \in Nat : n < N + 1 /\ n \in T => n + 1 \in T
  BY <1>1, <1>2
<1>4. N + 1 \in T
  <2>. HIDE DEF T
  <2>. QED
    BY <1>3, InductionTo
<1>. QED
  BY <1>0, <1>4 DEF P, Solves

-----------------------------------------------------------------------------
\* Short sequences.
LEMMA Single ==
  ASSUME NEW S, NEW atom \in S
  PROVE  <<atom>> \in Seq(S) /\ Len(<<atom>>) = 1 /\ <<atom>>[1] = atom
OBVIOUS

LEMMA Pair ==
  ASSUME NEW S, NEW a \in S, NEW b \in S
  PROVE  <<a, b>> \in Seq(S) /\ Len(<<a, b>>) = 2 /\ <<a, b>>[1] = a /\ <<a, b>>[2] = b
OBVIOUS

\* The only sequence of its length that starts so.
LEMMA SingleIs ==
  ASSUME NEW S, NEW text \in Seq(S), NEW atom, Len(text) = 1, text[1] = atom
  PROVE  text = <<atom>>
<1>1. atom \in S
  <2>1. 1 \in 1..Len(text)
    OBVIOUS
  <2>. QED
    BY <2>1, ElementOfSeq
<1>2. <<atom>> \in Seq(S) /\ Len(<<atom>>) = 1 /\ <<atom>>[1] = atom
  BY <1>1, Single
<1>3. \A i \in 1..1 : text[i] = <<atom>>[i]
  BY <1>2
<1>. QED
  BY <1>2, <1>3, SeqEqual

LEMMA Triple ==
  ASSUME NEW S, NEW text \in Seq(S), Len(text) >= 4
  PROVE  SubSeq(text, 2, 4) = <<text[2], text[3], text[4]>>
<1>. DEFINE a == text[2]
            b == text[3]
            c == text[4]
            part == SubSeq(text, 2, 4)
<1>1. /\ part \in Seq(S) /\ Len(part) = 3 /\ part[1] = a /\ part[2] = b /\ part[3] = c
      /\ a \in S /\ b \in S /\ c \in S
  OBVIOUS
<1>. HIDE DEF a, b, c, part
<1>2. /\ <<a, b, c>> \in Seq(S) /\ Len(<<a, b, c>>) = 3 /\ <<a, b, c>>[1] = a
      /\ <<a, b, c>>[2] = b /\ <<a, b, c>>[3] = c
  BY <1>1
<1>3. \A i \in 1..3 : i = 1 \/ i = 2 \/ i = 3
  OBVIOUS
<1>4. \A i \in 1..3 : part[i] = <<a, b, c>>[i]
  BY <1>1, <1>2, <1>3
<1>5. part = <<a, b, c>>
  BY <1>1, <1>2, <1>4, SeqEqual
<1>. QED
  BY <1>5 DEF a, b, c, part

\* A sequence over fewer elements.
LEMMA SeqMonotone ==
  ASSUME NEW S, NEW T, S \subseteq T
  PROVE  Seq(S) \subseteq Seq(T)
<1> SUFFICES ASSUME NEW s \in Seq(S) PROVE s \in Seq(T)
  OBVIOUS
<1>1. \A k \in 1..Len(s) : s[k] \in T
  BY ElementOfSeq
<1>2. s = [k \in 1..Len(s) |-> s[k]] /\ Len(s) \in Nat
  OBVIOUS
<1>3. [k \in 1..Len(s) |-> s[k]] \in Seq(T)
  BY <1>1, <1>2, IsASeq
<1>. QED
  BY <1>2, <1>3

\* What TLC enumerates as sequences is sequences.
LEMMA SeqOfType ==
  ASSUME NEW S, NEW n \in Nat, NEW s \in SeqOf(S, n)
  PROVE  s \in Seq(S)
<1>1. PICK m \in 0..n : s \in [1..m -> S]
  BY DEF SeqOf
<1>. QED
  BY <1>1

\* Two sequences in one, and three.
InTwo(whole, a, b) ==
  /\ Len(whole) = Len(a) + Len(b)
  /\ \A i \in 1..Len(a) : whole[i] = a[i]
  /\ \A i \in 1..Len(b) : whole[Len(a) + i] = b[i]

LEMMA Concat2 ==
  ASSUME NEW S, NEW a \in Seq(S), NEW b \in Seq(S)
  PROVE  a \o b \in Seq(S) /\ InTwo(a \o b, a, b)
BY DEF InTwo

InThree(whole, a, b, c) ==
  /\ Len(whole) = (Len(a) + Len(b)) + Len(c)
  /\ \A i \in 1..Len(a) : whole[i] = a[i]
  /\ \A i \in 1..Len(b) : whole[Len(a) + i] = b[i]
  /\ \A i \in 1..Len(c) : whole[(Len(a) + Len(b)) + i] = c[i]

LEMMA Concat3 ==
  ASSUME NEW S, NEW a \in Seq(S), NEW b \in Seq(S), NEW c \in Seq(S)
  PROVE  (a \o b) \o c \in Seq(S) /\ InThree((a \o b) \o c, a, b, c)
BY DEF InThree

-----------------------------------------------------------------------------
\* f is what FlattenSeq computes on the way: the first i sequences in one.
Flattens(f, seqs, n) == f = [i \in 1..n |-> IF i = 1 THEN seqs[i] ELSE f[i - 1] \o seqs[i]]

LEMMA FlattensExists ==
  ASSUME NEW seqs, NEW n \in Nat
  PROVE  \E f : Flattens(f, seqs, n)
<1>. DEFINE S == {m \in Nat : \E f : Flattens(f, seqs, m)}
<1>1. 0 \in S
  <2>1. Flattens([i \in 1..0 |-> <<>>], seqs, 0)
    BY DEF Flattens
  <2>. QED
    BY <2>1
<1>2. ASSUME NEW m \in S PROVE m + 1 \in S
  <2>1. PICK f : Flattens(f, seqs, m)
    OBVIOUS
  <2>. DEFINE g == [i \in 1..(m + 1) |-> IF i = 1 THEN seqs[i] ELSE f[i - 1] \o seqs[i]]
  <2>2. ASSUME NEW i \in 1..(m + 1), i # 1 PROVE g[i - 1] = f[i - 1]
    <3>1. i - 1 \in 1..m /\ i - 1 \in 1..(m + 1)
      BY <2>2
    <3>2. f[i - 1] = IF i - 1 = 1 THEN seqs[i - 1] ELSE f[(i - 1) - 1] \o seqs[i - 1]
      BY <2>1, <3>1 DEF Flattens
    <3>. QED
      BY <3>1, <3>2
  <2>3. Flattens(g, seqs, m + 1)
    BY <2>2 DEF Flattens
  <2>. QED
    BY <2>3
<1>. HIDE DEF S
<1>3. S \in SUBSET Nat
  BY DEF S
<1>4. S = Nat
  BY <1>1, <1>2, <1>3, Induction
<1>. QED
  BY <1>4 DEF S

\* The recursive definition of FlattenSeq has a solution, and FlattenSeq is its end.
LEMMA FlattenSeqDef ==
  ASSUME NEW seqs, Len(seqs) \in Nat \ {0}
  PROVE  \E f : Flattens(f, seqs, Len(seqs)) /\ FlattenSeq(seqs) = f[Len(seqs)]
<1>. DEFINE flatten == CHOOSE f : f = [i \in 1..Len(seqs) |->
                         IF i = 1 THEN seqs[i] ELSE f[i - 1] \o seqs[i]]
<1>1. \E f : f = [i \in 1..Len(seqs) |-> IF i = 1 THEN seqs[i] ELSE f[i - 1] \o seqs[i]]
  BY FlattensExists DEF Flattens
<1>2. flatten = [i \in 1..Len(seqs) |-> IF i = 1 THEN seqs[i] ELSE flatten[i - 1] \o seqs[i]]
  BY <1>1
<1>3. FlattenSeq(seqs) = flatten[Len(seqs)]
  BY DEF FlattenSeq
<1>. QED
  BY <1>2, <1>3 DEF Flattens

\* What it computes does not depend on the sequence that comes next.
LEMMA FlattensAgree ==
  ASSUME NEW s, NEW t, NEW f, NEW g, NEW n \in Nat,
         Flattens(f, s, n), Flattens(g, t, n + 1), \A i \in 1..n : s[i] = t[i]
  PROVE  \A i \in 1..n : f[i] = g[i]
<1>. DEFINE S == {j \in Nat : j \in 1..n => f[j] = g[j]}
<1>1. 0 \in S
  OBVIOUS
<1>2. ASSUME NEW j \in S PROVE j + 1 \in S
  <2> SUFFICES ASSUME j + 1 \in 1..n PROVE f[j + 1] = g[j + 1]
    OBVIOUS
  <2>1. /\ f[j + 1] = IF j + 1 = 1 THEN s[j + 1] ELSE f[(j + 1) - 1] \o s[j + 1]
        /\ g[j + 1] = IF j + 1 = 1 THEN t[j + 1] ELSE g[(j + 1) - 1] \o t[j + 1]
    <3>1. j + 1 \in 1..n /\ j + 1 \in 1..(n + 1)
      OBVIOUS
    <3>. QED
      BY <3>1 DEF Flattens
  <2>2. s[j + 1] = t[j + 1] /\ (j + 1) - 1 = j
    OBVIOUS
  <2>3. CASE j = 0
    BY <2>1, <2>2, <2>3
  <2>4. CASE j # 0
    <3>1. j \in 1..n
      BY <2>4
    <3>2. f[j] = g[j]
      BY <3>1
    <3>. QED
      BY <2>1, <2>2, <2>4, <3>2
  <2>. QED
    BY <2>3, <2>4
<1>. HIDE DEF S
<1>3. S = Nat
  <2>1. S \in SUBSET Nat
    BY DEF S
  <2>. QED
    BY <1>1, <1>2, <2>1, Induction
<1>. QED
  BY <1>3 DEF S

LEMMA FlattenEmpty == FlattenSeq(<<>>) = <<>>
  BY DEF FlattenSeq

\* One sequence more at the end.
LEMMA FlattenAppend ==
  ASSUME NEW S, NEW seqs \in Seq(Seq(S)), NEW s \in Seq(S)
  PROVE  FlattenSeq(Append(seqs, s)) = FlattenSeq(seqs) \o s
<1>. DEFINE more == Append(seqs, s)
            n == Len(seqs)
<1>1. /\ n \in Nat /\ Len(more) = n + 1 /\ Len(more) \in Nat \ {0}
      /\ more[n + 1] = s /\ \A i \in 1..n : more[i] = seqs[i]
  OBVIOUS
<1>. HIDE DEF more
<1>2. PICK g : Flattens(g, more, n + 1) /\ FlattenSeq(more) = g[n + 1]
  BY <1>1, FlattenSeqDef
<1>3. g[n + 1] = IF n + 1 = 1 THEN more[n + 1] ELSE g[(n + 1) - 1] \o more[n + 1]
  <2>1. n + 1 \in 1..(n + 1)
    BY <1>1
  <2>. QED
    BY <1>2, <2>1 DEF Flattens
<1>4. CASE n = 0
  <2>1. seqs = <<>>
    BY <1>4
  <2>2. <<>> \o s = s
    OBVIOUS
  <2>. QED
    BY <1>1, <1>2, <1>3, <1>4, <2>1, <2>2, FlattenEmpty DEF more
<1>5. CASE n # 0
  <2>1. PICK f : Flattens(f, seqs, n) /\ FlattenSeq(seqs) = f[n]
    BY <1>1, <1>5, FlattenSeqDef
  <2>2. f[n] = g[n]
    <3>. HIDE DEF n
    <3>1. \A i \in 1..n : seqs[i] = more[i]
      BY <1>1
    <3>2. \A i \in 1..n : f[i] = g[i]
      BY <1>1, <1>2, <2>1, <3>1, FlattensAgree
    <3>3. n \in 1..n
      BY <1>1, <1>5
    <3>. QED
      BY <3>2, <3>3
  <2>3. g[n + 1] = g[n] \o s
    BY <1>1, <1>3, <1>5
  <2>. QED
    BY <1>2, <2>1, <2>2, <2>3 DEF more
<1>. QED
  BY <1>4, <1>5


\* All sequences up to n in one, and then the next one.
LEMMA FlattenNext ==
  ASSUME NEW S, NEW seqs \in Seq(Seq(S)), NEW n \in Nat, n < Len(seqs)
  PROVE  FlattenSeq(SubSeq(seqs, 1, n + 1)) = FlattenSeq(SubSeq(seqs, 1, n)) \o seqs[n + 1]
<1>1. SubSeq(seqs, 1, n) \in Seq(Seq(S)) /\ seqs[n + 1] \in Seq(S)
  OBVIOUS
<1>2. SubSeq(seqs, 1, n + 1) = Append(SubSeq(seqs, 1, n), seqs[n + 1])
  OBVIOUS
<1>. QED
  BY <1>1, <1>2, FlattenAppend

LEMMA FlattenType ==
  ASSUME NEW S, NEW seqs \in Seq(Seq(S))
  PROVE  FlattenSeq(seqs) \in Seq(S)
<1>. DEFINE P(n) == FlattenSeq(SubSeq(seqs, 1, n)) \in Seq(S)
            T == {n \in Nat : P(n)}
<1>1. P(0)
  <2>1. SubSeq(seqs, 1, 0) = <<>> /\ <<>> \in Seq(S)
    OBVIOUS
  <2>. QED
    BY <2>1, FlattenEmpty
<1>2. ASSUME NEW n \in Nat, n < Len(seqs), P(n) PROVE P(n + 1)
  <2>1. FlattenSeq(SubSeq(seqs, 1, n + 1)) = FlattenSeq(SubSeq(seqs, 1, n)) \o seqs[n + 1]
    BY <1>2, FlattenNext
  <2>2. seqs[n + 1] \in Seq(S)
    BY <1>2
  <2>3. FlattenSeq(SubSeq(seqs, 1, n)) \o seqs[n + 1] \in Seq(S)
    BY <1>2, <2>2, ConcatProperties
  <2>. QED
    BY <2>1, <2>3
<1>. HIDE DEF P
<1>3. Len(seqs) \in Nat /\ SubSeq(seqs, 1, Len(seqs)) = seqs
  OBVIOUS
<1>4. 0 \in T /\ \A n \in Nat : n < Len(seqs) /\ n \in T => n + 1 \in T
  BY <1>1, <1>2
<1>5. Len(seqs) \in T
  <2>. HIDE DEF T
  <2>. QED
    BY <1>3, <1>4, InductionTo
<1>. QED
  BY <1>3, <1>5 DEF P

\* What is put together from two halves.
LEMMA FlattenConcat ==
  ASSUME NEW S, NEW s \in Seq(Seq(S)), NEW t \in Seq(Seq(S))
  PROVE  FlattenSeq(s \o t) = FlattenSeq(s) \o FlattenSeq(t)
<1>. DEFINE P(n) == FlattenSeq(s \o SubSeq(t, 1, n)) = FlattenSeq(s) \o FlattenSeq(SubSeq(t, 1, n))
            T == {n \in Nat : P(n)}
<1>1. P(0)
  <2>1. SubSeq(t, 1, 0) = <<>> /\ s \o <<>> = s
    OBVIOUS
  <2>2. FlattenSeq(s) \in Seq(S)
    BY FlattenType
  <2>3. FlattenSeq(s) \o <<>> = FlattenSeq(s)
    BY <2>2, ConcatEmptySeq
  <2>. QED
    BY <2>1, <2>3, FlattenEmpty
<1>2. ASSUME NEW n \in Nat, n < Len(t), P(n) PROVE P(n + 1)
  <2>. DEFINE before == SubSeq(t, 1, n)
              last == t[n + 1]
  <2>0. before \in Seq(Seq(S)) /\ last \in Seq(S) /\ SubSeq(t, 1, n + 1) = Append(before, last)
    BY <1>2
  <2>1. s \o Append(before, last) = Append(s \o before, last) /\ s \o before \in Seq(Seq(S))
    <3>. HIDE DEF before, last
    <3>. QED
      BY <2>0
  <2>2. FlattenSeq(Append(s \o before, last)) = FlattenSeq(s \o before) \o last
    BY <2>0, <2>1, FlattenAppend
  <2>3. FlattenSeq(Append(before, last)) = FlattenSeq(before) \o last
    BY <2>0, FlattenAppend
  <2>4. FlattenSeq(s) \in Seq(S) /\ FlattenSeq(before) \in Seq(S)
    BY <2>0, FlattenType
  <2>5. (FlattenSeq(s) \o FlattenSeq(before)) \o last = FlattenSeq(s) \o (FlattenSeq(before) \o last)
    <3>. HIDE DEF before, last, T, P
    <3>1. \A a, b, c \in Seq(S) : (a \o b) \o c = a \o (b \o c)
      BY ConcatAssociative
    <3>. QED
      BY <2>0, <2>4, <3>1
  <2>6. FlattenSeq(s \o before) = FlattenSeq(s) \o FlattenSeq(before)
    BY <1>2
  <2>. HIDE DEF before, last
  <2>7. FlattenSeq(s \o Append(before, last)) = FlattenSeq(s) \o FlattenSeq(Append(before, last))
    BY <2>1, <2>2, <2>3, <2>5, <2>6
  <2>. QED
    BY <2>0, <2>7
<1>. HIDE DEF P
<1>3. Len(t) \in Nat /\ SubSeq(t, 1, Len(t)) = t
  OBVIOUS
<1>4. 0 \in T /\ \A n \in Nat : n < Len(t) /\ n \in T => n + 1 \in T
  BY <1>1, <1>2
<1>5. Len(t) \in T
  <2>. HIDE DEF T
  <2>. QED
    BY <1>3, <1>4, InductionTo
<1>. QED
  BY <1>3, <1>5 DEF P

-----------------------------------------------------------------------------
\* A sequence of one element as a part of another.
LEMMA SingleIsSubSeq ==
  ASSUME NEW S, NEW text \in Seq(S), NEW atom
  PROVE  <<atom>> \in SubSeqs(text) <=> \E k \in 1..Len(text) : text[k] = atom
<1>1. ASSUME <<atom>> \in SubSeqs(text) PROVE \E k \in 1..Len(text) : text[k] = atom
  <2>1. PICK i, j \in 0..Len(text) : <<atom>> = SubSeq(text, i + 1, j)
    BY <1>1 DEF SubSeqs
  <2>2. i \in Nat /\ j \in Nat /\ Len(text) \in Nat /\ i <= Len(text) /\ j <= Len(text)
    OBVIOUS
  <2>3. i < j
    <3> SUFFICES ASSUME ~(i < j) PROVE FALSE
      OBVIOUS
    <3>1. SubSeq(text, i + 1, j) = <<>>
      BY <2>2
    <3>. QED
      BY <2>1, <3>1
  <2>4. SubSeq(text, i + 1, j)[1] = text[i + 1] /\ <<atom>>[1] = atom
    BY <2>2, <2>3
  <2>5. i + 1 \in 1..Len(text) /\ text[i + 1] = atom
    BY <2>1, <2>2, <2>3, <2>4
  <2>. QED
    BY <2>5
<1>2. ASSUME NEW k \in 1..Len(text), text[k] = atom PROVE <<atom>> \in SubSeqs(text)
  <2>1. SubSeq(text, k, k) \in Seq(S) /\ Len(SubSeq(text, k, k)) = 1 /\ SubSeq(text, k, k)[1] = atom
    BY <1>2
  <2>2. SubSeq(text, k, k) = <<atom>>
    BY <2>1, SingleIs
  <2>3. k - 1 \in 0..Len(text) /\ k \in 0..Len(text) /\ (k - 1) + 1 = k
    OBVIOUS
  <2>4. \E i, j \in 0..Len(text) : <<atom>> = SubSeq(text, i + 1, j)
    BY <2>2, <2>3
  <2>. QED
    BY <2>4 DEF SubSeqs
<1>. QED
  BY <1>1, <1>2

\* Where an atom is first.
FirstAt(text, atom, k) ==
  k \in 1..Len(text) /\ text[k] = atom /\ \A j \in 1..(k - 1) : text[j] # atom

LEMMA FirstPlace ==
  ASSUME NEW text, Len(text) \in Nat, NEW atom, \E k \in 1..Len(text) : text[k] = atom
  PROVE  \E k \in 1..Len(text) : FirstAt(text, atom, k)
<1>. DEFINE places == {k \in 1..Len(text) : text[k] = atom}
<1>1. places \in SUBSET Nat /\ places # {}
  OBVIOUS
<1>2. PICK k \in places : \A j \in places : k <= j
  <2>. HIDE DEF places
  <2>. QED
    BY <1>1, LeastNatural
<1>3. ASSUME NEW j \in 1..(k - 1), text[j] = atom PROVE FALSE
  <2>1. j \in places /\ ~(k <= j)
    BY <1>3
  <2>. QED
    BY <1>2, <2>1
<1>. QED
  BY <1>3 DEF FirstAt

-----------------------------------------------------------------------------
\* s has the members of S, the least first.
Lists(s, S) ==
  /\ s \in Seq(Nat)
  /\ \A j, k \in 1..Len(s) : j < k => s[j] < s[k]
  /\ \A x : x \in S <=> \E k \in 1..Len(s) : s[k] = x

\* Then Nth finds them in that order.
LEMMA ListsNth ==
  ASSUME NEW S, NEW s, Lists(s, S)
  PROVE  Cardinality(S) = Len(s) /\ \A n \in 1..Len(s) : Nth(S, n) = s[n]
<1>0. s \in Seq(Nat) /\ Len(s) \in Nat /\ \A k \in 1..Len(s) : s[k] \in Nat
  BY DEF Lists
<1>1. \A j, k \in 1..Len(s) : s[j] = s[k] => j = k
  <2> SUFFICES ASSUME NEW j \in 1..Len(s), NEW k \in 1..Len(s), s[j] = s[k], j # k PROVE FALSE
    OBVIOUS
  <2>1. j < k \/ k < j
    OBVIOUS
  <2>. QED
    BY <1>0, <2>1 DEF Lists
<1>2. ASSUME NEW m \in 0..Len(s) PROVE Cardinality({s[k] : k \in 1..m}) = m
  <2>. DEFINE T == {s[k] : k \in 1..m}
              f == [k \in 1..m |-> s[k]]
  <2>1. 1..m \subseteq 1..Len(s) /\ m \in Nat
    BY <1>0
  <2>2. f \in [1..m -> T] /\ \A j, k \in 1..m : f[j] = f[k] => j = k
    BY <1>1, <2>1
  <2>3. \A x \in T : \E k \in 1..m : f[k] = x
    OBVIOUS
  <2>. HIDE DEF f, T
  <2>4. f \in Bijection(1..m, T)
    BY <2>2, <2>3 DEF Bijection, Injection, Surjection, IsInjective
  <2>5. ExistsBijection(1..m, T)
    BY <2>4 DEF ExistsBijection
  <2>. QED
    BY <2>1, <2>5, FS_CountingElements DEF T
<1>3. S = {s[k] : k \in 1..Len(s)}
  BY DEF Lists
<1>4. ASSUME NEW n \in 1..Len(s) PROVE Cardinality({y \in S : y < s[n]}) = n - 1
  <2>1. {y \in S : y < s[n]} = {s[k] : k \in 1..(n - 1)}
    <3>1. ASSUME NEW k \in 1..Len(s), s[k] < s[n] PROVE k \in 1..(n - 1)
      <4>1. ~(n <= k)
        <5> SUFFICES ASSUME n <= k PROVE FALSE
          OBVIOUS
        <5>1. n = k \/ n < k
          BY <1>0
        <5>. QED
          BY <1>0, <3>1, <5>1 DEF Lists
      <4>. QED
        BY <1>0, <4>1
    <3>2. ASSUME NEW k \in 1..(n - 1) PROVE k \in 1..Len(s) /\ s[k] < s[n]
      BY <1>0 DEF Lists
    <3>. QED
      BY <1>3, <3>1, <3>2
  <2>2. n - 1 \in 0..Len(s)
    BY <1>0
  <2>. QED
    BY <1>2, <2>1, <2>2
<1>5. ASSUME NEW n \in 1..Len(s) PROVE Nth(S, n) = s[n]
  <2>1. s[n] \in S
    BY <1>3
  <2>2. ASSUME NEW x \in S, Cardinality({y \in S : y < x}) = n - 1 PROVE x = s[n]
    <3>1. PICK k \in 1..Len(s) : x = s[k]
      BY <1>3
    <3>2. k - 1 = n - 1
      BY <1>4, <2>2, <3>1
    <3>3. k = n
      BY <1>0, <3>2
    <3>. QED
      BY <3>1, <3>3
  <2>3. Cardinality({y \in S : y < s[n]}) = n - 1
    BY <1>4
  <2>. QED
    BY <2>1, <2>2, <2>3, Zenon DEF Nth
<1>6. Cardinality(S) = Len(s)
  <2>1. Len(s) \in 0..Len(s)
    BY <1>0
  <2>. QED
    BY <1>2, <1>3, <2>1
<1>. QED
  BY <1>5, <1>6

\* The first elements of a sequence.
LEMMA FrontIs ==
  ASSUME NEW S, NEW s \in Seq(S), NEW n \in Nat, n <= Len(s)
  PROVE  /\ SubSeq(s, 1, n) \in Seq(S) /\ Len(SubSeq(s, 1, n)) = n
         /\ \A k \in 1..n : SubSeq(s, 1, n)[k] = s[k]
<1>1. SubSeq(s, 1, n) = [k \in 1..n |-> s[k]]
  OBVIOUS
<1>2. \A k \in 1..n : s[k] \in S
  OBVIOUS
<1>. QED
  BY <1>1, <1>2

\* A number more at the end of the list.
LEMMA ListsAppend ==
  ASSUME NEW S, NEW T, NEW s, Lists(s, T), NEW i \in Nat, \A x \in T : x < i,
         \A x : x \in S <=> x \in T \/ x = i
  PROVE  Lists(Append(s, i), S)
<1>. DEFINE t == Append(s, i)
            n == Len(s)
<1>1. /\ s \in Seq(Nat) /\ n \in Nat
      /\ \A j, k \in 1..n : j < k => s[j] < s[k]
      /\ \A x : x \in T <=> \E k \in 1..n : s[k] = x
  BY DEF Lists
<1>2. t \in Seq(Nat) /\ Len(t) = n + 1 /\ t[n + 1] = i /\ \A k \in 1..n : t[k] = s[k]
  BY <1>1
<1>. HIDE DEF t, n
<1>3. \A k \in 1..n : s[k] < i
  BY <1>1
<1>4. ASSUME NEW j \in 1..(n + 1), NEW k \in 1..(n + 1), j < k PROVE t[j] < t[k]
  <2>1. j \in 1..n /\ t[j] = s[j]
    BY <1>1, <1>2, <1>4
  <2>2. CASE k = n + 1
    BY <1>2, <1>3, <2>1, <2>2
  <2>3. CASE k # n + 1
    <3>1. k \in 1..n
      BY <1>1, <2>3
    <3>. QED
      BY <1>1, <1>2, <1>4, <2>1, <3>1
  <2>. QED
    BY <2>2, <2>3
<1>5. \A x : x \in S <=> \E k \in 1..(n + 1) : t[k] = x
  <2>1. \A k : k \in 1..(n + 1) <=> k \in 1..n \/ k = n + 1
    BY <1>1
  <2>. QED
    BY <1>1, <1>2, <2>1
<1>. QED
  BY <1>2, <1>4, <1>5 DEF Lists, t

\* The last number less.
LEMMA ListsFront ==
  ASSUME NEW S, NEW T, NEW s, Lists(s, T), NEW i \in T, \A x \in T : x <= i,
         \A x : x \in S <=> x \in T /\ x # i
  PROVE  /\ Lists(SubSeq(s, 1, Len(s) - 1), S)
         /\ Len(s) >= 1 /\ s[Len(s)] = i
<1>. DEFINE n == Len(s)
            t == SubSeq(s, 1, n - 1)
<1>1. /\ s \in Seq(Nat) /\ n \in Nat /\ \A k \in 1..n : s[k] \in Nat
      /\ \A j, k \in 1..n : j < k => s[j] < s[k]
      /\ \A x : x \in T <=> \E k \in 1..n : s[k] = x
  BY DEF Lists
<1>2. PICK m \in 1..n : s[m] = i
  BY <1>1
<1>3. n >= 1 /\ n - 1 \in Nat /\ n \in 1..n
  BY <1>1, <1>2
<1>4. t \in Seq(Nat) /\ Len(t) = n - 1 /\ \A k \in 1..(n - 1) : t[k] = s[k]
  <2>1. n - 1 <= n
    BY <1>3
  <2>. QED
    BY <1>1, <1>3, <2>1, FrontIs
<1>. HIDE DEF t, n
<1>5. m = n
  <2> SUFFICES ASSUME m # n PROVE FALSE
    OBVIOUS
  <2>1. m < n /\ s[m] < s[n] /\ s[n] \in T
    BY <1>1, <1>2, <1>3
  <2>2. s[n] \in Nat /\ s[m] \in Nat /\ s[n] <= s[m]
    BY <1>1, <1>2, <1>3, <2>1
  <2>. QED
    BY <2>1, <2>2
<1>6. \A k \in 1..(n - 1) : k \in 1..n /\ s[k] # i
  <2> SUFFICES ASSUME NEW k \in 1..(n - 1) PROVE k \in 1..n /\ s[k] # i
    OBVIOUS
  <2>1. k \in 1..n /\ k < n
    BY <1>3
  <2>2. s[k] < s[n] /\ s[k] \in Nat /\ s[n] \in Nat
    BY <1>1, <1>3, <2>1
  <2>. QED
    BY <1>2, <1>5, <2>1, <2>2
<1>7. \A x : x \in S <=> \E k \in 1..(n - 1) : t[k] = x
  <2>1. \A k \in 1..n : k \in 1..(n - 1) \/ k = n
    BY <1>3
  <2>. QED
    BY <1>1, <1>2, <1>4, <1>5, <1>6, <2>1
<1>8. \A j, k \in 1..(n - 1) : j < k => t[j] < t[k]
  BY <1>1, <1>4, <1>6
<1>. QED
  BY <1>2, <1>3, <1>4, <1>5, <1>7, <1>8 DEF Lists, t, n

\* S is T and a first number, i.
FirstOf(i, S, T) == /\ \A x \in T : i < x
                    /\ \A x : x \in S <=> x \in T \/ x = i

-----------------------------------------------------------------------------
\* Two elements, one after the other.
LEMMA PairAppend ==
  ASSUME NEW B, NEW a \in B, NEW b \in B
  PROVE  Append(<<a>>, b) = <<a, b>>
<1>1. <<a>> \in Seq(B) /\ Len(<<a>>) = 1
  OBVIOUS
<1>2. /\ Append(<<a>>, b) \in Seq(B) /\ Len(Append(<<a>>, b)) = 2
      /\ Append(<<a>>, b)[1] = a /\ Append(<<a>>, b)[2] = b
  BY <1>1
<1>3. <<a, b>> \in Seq(B) /\ Len(<<a, b>>) = 2 /\ <<a, b>>[1] = a /\ <<a, b>>[2] = b
  OBVIOUS
<1>4. \A i \in 1..2 : Append(<<a>>, b)[i] = <<a, b>>[i]
  <2>1. \A i \in 1..2 : i = 1 \/ i = 2
    OBVIOUS
  <2>. QED
    BY <1>2, <1>3, <2>1
<1>. QED
  BY <1>2, <1>3, <1>4, SeqEqual

\* One element more of the same sequence.
LEMMA PrefixGrows ==
  ASSUME NEW S, NEW s \in Seq(S), NEW n \in Nat, n < Len(s)
  PROVE  /\ SubSeq(s, 1, n) \in Seq(S)
         /\ SubSeq(s, 1, n + 1) = Append(SubSeq(s, 1, n), s[n + 1])
OBVIOUS

\* All of it.
LEMMA PrefixWhole ==
  ASSUME NEW S, NEW s \in Seq(S)
  PROVE  SubSeq(s, 1, Len(s)) = s
OBVIOUS

\* A sequence that is not empty has a last element.
LEMMA LastIs ==
  ASSUME NEW S, NEW s \in Seq(S), s # <<>>
  PROVE  \E before \in Seq(S), x \in S : s = Append(before, x)
<1>1. Len(s) \in Nat /\ Len(s) # 0
  OBVIOUS
<1>2. Len(s) - 1 \in Nat /\ Len(s) - 1 < Len(s) /\ (Len(s) - 1) + 1 = Len(s)
  BY <1>1
<1>. DEFINE n == Len(s) - 1
<1>3. SubSeq(s, 1, n) \in Seq(S) /\ SubSeq(s, 1, n + 1) = Append(SubSeq(s, 1, n), s[n + 1])
  BY <1>2, PrefixGrows
<1>4. SubSeq(s, 1, n + 1) = s /\ s[n + 1] \in S
  BY <1>2, PrefixWhole
<1>. QED
  BY <1>3, <1>4

\* A part in its place: what comes after does not matter.
LEMMA SliceOf ==
  ASSUME NEW S, NEW a \in Seq(S), NEW b \in Seq(S), NEW c \in Seq(S), NEW u, u = a \o b \o c
  PROVE  SubSeq(u, Len(a) + 1, Len(a) + Len(b)) = b
<1>1. /\ u \in Seq(S) /\ Len(u) = Len(a) + Len(b) + Len(c)
      /\ \A k \in 1..Len(b) : u[Len(a) + k] = b[k]
      /\ Len(a) \in Nat /\ Len(b) \in Nat /\ Len(c) \in Nat
  OBVIOUS
<1>. DEFINE part == SubSeq(u, Len(a) + 1, Len(a) + Len(b))
<1>2. part \in Seq(S) /\ Len(part) = Len(b) /\ \A k \in 1..Len(b) : part[k] = u[Len(a) + k]
  BY <1>1
<1>. HIDE DEF part
<1>3. part = b
  BY <1>1, <1>2, SeqEqual
<1>. QED
  BY <1>3 DEF part

=============================================================================
