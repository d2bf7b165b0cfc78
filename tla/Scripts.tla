------------------------------ MODULE Scripts ------------------------------
(* Scripts: their lines, the tokens of those, and their nodes. One is         *)
(* the example of README.md:22-39, the other that of comdisint.cpp:12-37,    *)
(* where names are declared again: in the block of a loop, and by a second   *)
(* loop.                                                                     *)
EXTENDS Lexemes, Indentation, Nodes, SequencesExt

L(indent, words) == [indent |-> indent, words |-> words]

Opening ==
    <<L(0, <<"uses", "std">>),
      L(0, <<"fn", "max", "(", "a", ",", "b", ")", ":">>),
      L(4, <<"if", "a", ">", "b", ":">>),
      L(8, <<"ret", "a">>),
      L(4, <<"ret", "b">>),
      L(0, <<"fn", "test", ":">>),
      L(4, <<"var", "a", "=", "6">>),
      L(4, <<"var", "b", "=", "7", "+", "max", "(", "5", ",", "6", ")">>),
      L(4, <<"var", "c", "=", "new", "array", "(", "12", ",", "15", ",", "27", ")">>)>>

CountedLoop ==
    L(4, <<"for", "var", "i", "=", "0", ";", "i", "<", "length", "(", "c", ")", ";", "i", "+=", "1", ":">>)

Ending ==
    <<L(0, <<"fn", "main", ":">>),
      L(4, <<"test", "(", ")">>)>>

Readme ==
    Opening \o <<CountedLoop, L(8, <<"print", "(", "{} ", ",", "c", "[", "i", "]", ")">>)>> \o Ending

Example ==
    Opening \o
    <<L(4, <<"var", "d", "=", "12">>),
      CountedLoop,
      L(7, <<"var", "d", "=", "7">>),
      L(7, <<"print", "(", "{} {} ", ",", "c", "[", "i", "]", ",", "d", ")">>),
      CountedLoop,
      L(7, <<"print", "(", "{} ", ",", "i", ")">>)>> \o Ending

-----------------------------------------------------------------------------
(* Their tokens                                                              *)

Numbers ==
    "0" :> 0 @@ "1" :> 1 @@ "5" :> 5 @@ "6" :> 6 @@ "7" :> 7 @@ "12" :> 12 @@ "15" :> 15 @@ "27" :> 27

ScriptStrs  == {"", "{} ", "{} {} "}
ScriptHoles == "" :> 0 @@ "{} " :> 1 @@ "{} {} " :> 2

LayoutLexeme(token) == [type |-> token.type, str |-> IF token.type = "indent" THEN "{" ELSE "}"]

\* lex_line, for one line after the other; no parenthesis stays open.
LineLexed(lexed, l) ==
    [tokens |-> lexed.tokens
        \o [k \in DOMAIN Layout(lexed.stack, l.indent, 0) |-> LayoutLexeme(Layout(lexed.stack, l.indent, 0)[k])]
        \o [k \in DOMAIN l.words |-> Lexeme(l.words[k], DOMAIN Numbers, ScriptStrs)],
     stack  |-> Stack(lexed.stack, l.indent)]

\* The script ends in an empty line: no dedent comes before the end.
Tokenized(lines) ==
    FoldLeft(LineLexed, [tokens |-> << >>, stack |-> <<0>>], lines).tokens
        \o <<[type |-> "eof", str |-> "EOF"]>>

-----------------------------------------------------------------------------
(* Their nodes                                                               *)

\* The variables of max and test: in both scripts declared in the same places.
MaxA  == <<"a", 5>>
MaxB  == <<"b", 7>>
TestA == <<"a", 28>>
TestB == <<"b", 32>>
TestC == <<"c", 43>>

max == fn("max", <<MaxA, MaxB>>, << >>, <<if(calc("greater", var(MaxA), var(MaxB)), <<ret(var(MaxA))>>), ret(var(MaxB))>>)

Assigned ==
    <<assign(var(TestA), num(6)), assign(var(TestB), calc("add", num(7), callf("max", <<num(5), num(6)>>))),
      assign(var(TestC), array(<<num(12), num(15), num(27)>>))>>

counted(i, body) ==
    for(<<assign(var(i), num(0))>>, <<calc("less", var(i), callf("length", <<var(TestC)>>))>>, <<increment(i)>>, body)

Unit(test) == <<uses("std"), max, test, fn("main", << >>, << >>, <<callf("test", << >>)>>)>>

ReadmeNodes ==
    LET i == <<"i", 56>>
    IN  Unit(fn("test", << >>, <<TestA, TestB, TestC, i>>,
            Assigned \o <<counted(i, <<callf("print", <<str("{} "), at(TestC, var(i))>>)>>)>>))

ExampleNodes ==
    LET d  == <<"d", 55>>
        i  == <<"i", 60>>
        d1 == <<"d", 77>>
        i1 == <<"i", 94>>
    IN  Unit(fn("test", << >>, <<TestA, TestB, TestC, d, i, d1, i1>>,
            Assigned \o
            <<assign(var(d), num(12)),
              counted(i, <<assign(var(d1), num(7)), callf("print", <<str("{} {} "), at(TestC, var(i)), var(d1)>>)>>),
              counted(i1, <<callf("print", <<str("{} "), var(i1)>>)>>)>>))

Scripts ==
    {[name |-> "README.md",     text |-> Tokenized(Readme),  nodes |-> ReadmeNodes],
     [name |-> "comdisint.cpp", text |-> Tokenized(Example), nodes |-> ExampleNodes]}

=============================================================================
