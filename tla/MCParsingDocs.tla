--------------------------- MODULE MCParsingDocs ---------------------------
(* What LDESIGN.md says of statements, against what the parser does with      *)
(* them.                                                                      *)
EXTENDS Parsing, TLC

Scripts == INSTANCE Scripts

L(indent, words) == Scripts!L(indent, words)

\* The statement of LDESIGN.md:16 with its blocks on lines of their own, in a
\* function and in a block.
Conditional(n, condition) ==
    <<L(n, <<"if">> \o condition \o <<":">>), L(n + 4, <<"a", "=", "1">>),
      L(n, <<"else", ":">>),                  L(n + 4, <<"a", "=", "5">>)>>

ElseNumbers == Scripts!Numbers

Texts ==
    {<<L(0, <<"fn", "g", "(", "a", ")", ":">>)>> \o body :
        body \in {Conditional(4, c) : c \in {<<"a">>, <<"a", "<", "1">>}}
            \cup {<<L(4, <<"while", "a", "<", "6", ":">>)>> \o Conditional(8, <<"a">>)}}

ElseSources == {[text |-> Scripts!Tokenized(t), longhand |-> << >>] : t \in Texts}

\* LDESIGN.md:16, "if a: <block> else: <block>": the statement is read, with
\* the block after else and nothing to report.
ElseIsRead ==
    Ended =>
        /\ parser.errors = {}
        /\ \A func \in Functions :
              \A n \in {s \in ToSet(func.childrens) : s.nt = "if_else"} : n.else_block # << >>

=============================================================================
