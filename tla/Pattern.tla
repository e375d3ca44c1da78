------------------------------- MODULE Pattern --------------------------------
(***************************************************************************)
(* split_string and match_pattern: where a text is cut, and how a path is  *)
(* matched against a location with parameters, "/user/:id/profile".        *)
(***************************************************************************)
EXTENDS Naturals, Sequences, FiniteSetsExt

\* Mutant of Find: the search starts one character late.
FindNext(text, delim, from) == Min({i \in (from + 1)..Len(text) : text[i] = delim} \cup {Len(text) + 1})

\* text.find(delim, from), one past the end when it is npos.
Find(text, delim, from) == Min({i \in from..Len(text) : text[i] = delim} \cup {Len(text) + 1})

\* split_string
Before(text, delim) == SubSeq(text, 1, Find(text, delim, 1) - 1)
After(text, delim) == SubSeq(text, Find(text, delim, 1) + 1, Len(text))

\* Mutant of TrailingSlash: a path may go on after the pattern's end.
TrailingAnything(input, i) == i > Len(input) \/ input[i] = "/"

\* What may be left of the input once the pattern is used up.
TrailingSlash(input, i) == i > Len(input) \/ (i = Len(input) /\ input[i] = "/")

\* The value, unless the name has one.
WithDefault(params, name, value) ==
  [n \in DOMAIN params \cup {name} |-> IF n \in DOMAIN params THEN params[n] ELSE value]

\* match_pattern from p and i on: the set of the parameters it extracts, empty
\* when it returns false.  A later parameter replaces one of the same name.
MatchPattern(pattern, input) ==
  LET match[at \in (1..(Len(pattern) + 1)) \X (1..(Len(input) + 1))] ==
        LET p == at[1]
            i == at[2]
        IN  CASE p > Len(pattern) -> IF TrailingSlash(input, i) THEN {<<>>} ELSE {}
              [] p <= Len(pattern) /\ i > Len(input) -> {}
              [] p <= Len(pattern) /\ i <= Len(input) /\ pattern[p] = ":" ->
                   LET nameEnd  == Find(pattern, "/", p + 1)
                       valueEnd == Find(input, "/", i)
                       name     == SubSeq(pattern, p + 1, nameEnd - 1)
                       value    == SubSeq(input, i, valueEnd - 1)
                   IN  {WithDefault(later, name, value) : later \in match[<<nameEnd, valueEnd>>]}
              [] OTHER -> IF pattern[p] = input[i] THEN match[<<p + 1, i + 1>>] ELSE {}
  IN  match[<<1, 1>>]

=============================================================================
