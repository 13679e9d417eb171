--------------------------- MODULE MCFrameAssembler ---------------------------
(* FrameAssembler for TLC: a message with characters of two bytes and an object *)
(* in it, {"a":"{",":":1}, {"}":2} and {}.  A "u" is the closing brace in the    *)
(* string of the third, a "t" what stands there of other characters.  The noise *)
(* is the end of a line, which no string may contain.                           *)
EXTENDS FrameAssembler

Nested == <<"open", "m1", "m2", "m1", "m2", "m1", "m2", "open", "close", "close">>
Opens == <<"open", "t", "q", "t", "close">>
Closes == <<"open", "t", "u", "t", "close">>
Short == <<"open", "close">>

MCMessages == {Nested, Opens, Closes, Short}
MCNoises == {<<>>, <<"t">>}

\* {",":":1}{"} and {",":":1}{}{"}
MCStrays ==
    {<<"q", "t", "close">> \o between \o <<"open", "t", "u">> : between \in {<<>>, Short}}
===============================================================================
