--------------------------------- MODULE Url ----------------------------------
(***************************************************************************)
(* url_decode: the uri of a request to the path it names.  A text is a     *)
(* sequence of characters; hexadecimal digits are written in upper case.   *)
(***************************************************************************)
EXTENDS Naturals, Sequences

Hexadecimal == <<"0", "1", "2", "3", "4", "5", "6", "7", "8", "9", "A", "B", "C", "D", "E", "F">>
HexDigit == {Hexadecimal[i] : i \in 1..16}

\* The characters an escape is used for in the models, by code.
Ascii == [code \in 0..255 |->
  CASE code = 32 -> "SP" [] code = 37 -> "%" [] code = 38 -> "&" [] code = 43 -> "+"
    [] code = 46 -> "." [] code = 47 -> "/" [] code = 61 -> "=" [] code = 63 -> "?"
    [] OTHER -> "byte"]

HexValue(digit) == (CHOOSE i \in 1..16 : Hexadecimal[i] = digit) - 1

\* static_cast<char>(value)
Escaped(high, low) == Ascii[16 * HexValue(high) + HexValue(low)]

\* Mutant of EscapeAt: an escape that ends the uri is refused.
EscapeAtStrictly(in, i) == i + 2 < Len(in) /\ {in[i + 1], in[i + 2]} \subseteq HexDigit

\* The '%' at i is followed by two hexadecimal digits.
EscapeAt(in, i) == i + 2 <= Len(in) /\ {in[i + 1], in[i + 2]} \subseteq HexDigit

\* One turn of the loop at i: the character to add and where the next turn is.
Unit(in, i) ==
  CASE in[i] = "%" -> IF EscapeAt(in, i) THEN {<<Escaped(in[i + 1], in[i + 2]), i + 3>>} ELSE {}
    [] in[i] = "+" -> {<<"SP", i + 1>>}
    [] OTHER -> {<<in[i], i + 1>>}

\* url_decode: the set of its result, empty when it returns false.
UrlDecode(in) ==
  LET from[i \in 1..(Len(in) + 1)] ==
        IF i > Len(in) THEN {<<>>}
        ELSE UNION {{<<u[1]>> \o out : out \in from[u[2]]} : u \in Unit(in, i)}
  IN  from[1]

=============================================================================
