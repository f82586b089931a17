----------------------------- MODULE MCRedaction -----------------------------
\* Instances of Redaction for TLC: two lines of three words, "a b a" and "b c d".
EXTENDS Redaction

CONSTANTS c1, c2

TwoLines == <<"a", "b", "a", "b", "c", "d">>

\* OCR takes the second "b" for an "e".
Misread == {<<"a", "b", "a", "e", "c", "d">>}

\* One word, parts of a line, a line, across the break, an excluded word, and none.
SomeSpans == {<<0, 1>>, <<0, 3>>, <<0, 5>>, <<2, 5>>, <<4, 7>>, <<10, 11>>, <<5, 6>>}

SomePolicies == {<<"high", c1>>, <<"medium", NoCode>>, <<"low", c2>>}

OnlyD == {{<<0, "d">>}}

\* A text that occurs twice, one across the break, and a misread one.
SomeQuotes == {<<"a", "b">>, <<"a", "b", "c">>, <<"e">>}
=============================================================================
