------------------------------ MODULE MCLexer ------------------------------
(* Short sources, with lines that nest, close, go on in parentheses, or are   *)
(* made of nothing the lexer knows.                                          *)
EXTENDS Lexer

L(indent, words) ==
    [indent |-> indent, words |-> words, unknown |-> 0, dots |-> 0, tabs |-> FALSE, endless |-> FALSE]

Unknown == [L(0, << >>) EXCEPT !.unknown = 2]

Tabs == [L(0, << >>) EXCEPT !.tabs = TRUE]

Decimal(indent) == [L(indent, <<"word">>) EXCEPT !.dots = 1]

\* 1.5.2 % 2
Wrong(indent) == [L(indent, <<"word", "word">>) EXCEPT !.dots = 2, !.unknown = 1]

MCLines ==
    {L(0, << >>), L(2, << >>), Tabs, L(0, <<"word">>), Decimal(1), Wrong(2),
     L(0, <<"(">>), L(1, <<"(", "(", ")">>), L(2, <<")">>),
     Unknown, [L(0, <<"word">>) EXCEPT !.endless = TRUE]}

\* Lines that are followed by more of them.
Longer == {L(0, <<"word">>), Decimal(1), L(2, <<"word">>)}

\* Before other lines, one of tabs is like one of spaces.
MCSources ==
    {s \in UNION {[1..n -> MCLines] : n \in 1..3} : \A i \in 1..(Len(s) - 1) : s[i] # Tabs} \cup [1..4 -> Longer]
=============================================================================
