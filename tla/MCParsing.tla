----------------------------- MODULE MCParsing -----------------------------
(* Sources of one or two functions, in the forms LDESIGN.md and README.md    *)
(* give, and lists of a few tokens that are nothing.                         *)
EXTENDS Parsing, Lexemes

Scripts == INSTANCE Scripts

MCstod == "1" :> 1 @@ "2" :> 2 @@ Scripts!Numbers

\* Besides words, a source has the layout and the end that the lexer adds.
Layout == "{" :> "indent" @@ "}" :> "dedent" @@ "EOF" :> "eof"

Tokenized(w) ==
    IF w \in DOMAIN Layout THEN [str |-> w, type |-> Layout[w]] ELSE Lexeme(w, DOMAIN MCstod, {"'{}'"})

Lexed(words) == [i \in 1..(Len(words) + 1) |-> Tokenized(Append(words, "EOF")[i])]

-----------------------------------------------------------------------------
(* Sources, in pairs: as they are written, and in full                       *)

Same(S) == {<<s, s>> : s \in S}

Position(words, w) == SelectInSeq(words, LAMBDA x : x = w)

NoVar(words) == SelectSeq(words, LAMBDA w : w # "var")

\* One form with pairs in it.
Form(a, S, b) == {<<a \o s[1] \o b, a \o s[2] \o b>> : s \in S}
Form2(a, S, b, T, c) == {<<a \o s[1] \o b \o t[1] \o c, a \o s[2] \o b \o t[2] \o c>> : s \in S, t \in T}

\* Expressions over a, b and the array c.
Atoms == Same({<<"a">>, <<"1">>, <<"b">>})

Small ==
    Atoms \cup Same({<<"c", "[", "a", "]">>, <<"f", "(", ")">>, <<"f", "(", "a", ",", "1", "+", "b", ")">>,
                     <<"a", "-", "b", "-", "1">>, <<"a", "-", "b", "*", "1">>, <<"a", "*", "b", "*", "2">>,
                     <<"a", "-", "(", "b", "-", "1", ")">>, <<"(", "a", "-", "b", ")", "*", "1">>,
                     <<"a", "&&", "b", "<", "1">>, <<"-", "a", "-", "1">>, <<"!", "f", "(", "a", ")">>,
                     <<"'{}'">>, <<"c", "[", "c", "[", "1", "]", "+", "a", "]", "*", "2">>,
                     <<"f", "(", "f", "(", "a", ",", "'{}'", ")", ",", "-", "a", ")">>})
          \cup {<<<<"(", "a", ")">>, <<"a">>>>, <<<<"(", "a", "*", "b", ")", "-", "1">>, <<"a", "*", "b", "-", "1">>>>,
                <<<<"a", "*", "-", "b", "+", "1">>, <<"a", "*", "(", "-", "b", "+", "1", ")">>>>,
                <<<<"a", "<", "b", "+", "1">>, <<"a", "<", "b", "+", "1">>>>}

Conditions == Same({<<"a", "<", "b">>, <<"a", "-", "1">>, <<"1">>})

Simple ==
    Form(<<"a", "=">>, Small, << >>) \cup Form(<<"c", "[", "b", "]", "=">>, Atoms, << >>)
        \cup Form(<<"ret">>, Small, << >>) \cup Form(<<"f", "(">>, Small, <<")">>)
        \cup {<<<<"a", "+=">> \o e[1], <<"a", "=", "a", "+">> \o e[2]>> : e \in Atoms}
        \cup Same({<<"c", "=", "new", "array", "(", ")">>, <<"c", "=", "new", "array", "(", "a", ",", "b", "*", "2", ")">>})
        \cup {<<<<"var">> \o x \o <<"=">> \o e[1], x \o <<"=">> \o e[2]>> : x \in {<<"d">>}, e \in Atoms}
        \cup {<<<<"var", "d">>, <<"d">>>>}

Body == Form(<<"{">>, Same({<<"a", "=", "b">>, <<"ret", "a">>, <<"f", "(", ")">>})
                \cup {<<<<"var", "a", "=", "b", "b", "=", "a">>, <<"a", "=", "b", "b", "=", "a">>>>}, <<"}">>)

\* A loop as it is, and with its header in parentheses, which are optional.
Bracketed(loop) ==
    {loop, <<SubSeq(loop[1], 1, 1) \o <<"(">> \o SubSeq(loop[1], 2, Position(loop[1], ":") - 1) \o <<")">>
                \o SubSeq(loop[1], Position(loop[1], ":"), Len(loop[1])), loop[2]>>}

Fors(body) == UNION {Bracketed(loop) : loop \in
    {<<<<"for", "var", "i", "=", "1", ";", "i", "<", "a", ";", "i", "+=", "1", ":">> \o b[1],
       <<"for", "i", "=", "1", ";", "i", "<", "a", ";", "i", "=", "i", "+", "1", ":">> \o b[2]>> : b \in body}
    \cup {<<<<"for", "var", "a", "=", "1", ",", "b", "=", "a", ";", "a", "<", "b", ",", "a", "-", "2", ";", "a", "=", "b", ",", "f", "(", ")", ":">> \o b[1],
       <<"for", "a", "=", "1", ",", "b", "=", "a", ";", "a", "<", "b", ",", "a", "-", "2", ";", "a", "=", "b", ",", "f", "(", ")", ":">> \o b[2]>> :
            b \in {x \in body : x[1] = x[2]}}}

Compound(body) ==
    Form2(<<"if">>, Small, <<":">>, body, << >>)
        \cup Form2(<<"while">>, Same({<<"a", "<", "b">>, <<"a", "-", "1">>}), <<":">>, body, << >>)
        \cup Fors(body)
        \cup Form(<<"do", ":">>, body, << >>)
        \cup {<<<<"do", ":">> \o b[1] \o <<"unless">> \o c[1], <<"if", "!">> \o c[2] \o <<":">> \o b[2]>> :
                    b \in body, c \in Conditions}

Nested ==
    {<<<<"{">> \o s[1] \o <<"}">>, <<"{">> \o s[2] \o <<"}">>>> :
        s \in Compound(Form(<<"{">>, Same({<<"b", "=", "a">>}), <<"}">>))}

Statements == Simple \cup Compound(Body) \cup Fors(Nested)

Parameters == <<"(", "a", ",", "b", ",", "c", ")">>

GivenUnit(args, body) ==
    <<"uses", "std", "fn", "f">> \o args \o <<":", "{", "ret", "1", "}",
      "fn", "g">> \o Parameters \o <<":", "{">> \o body \o <<"a", "=", "1", "}">>

\* After the statement, a is the parameter again.
Units ==
    {<<GivenUnit(<<"(", ")">>, s[1]), GivenUnit(<<"(", ")">>, s[2])>> : s \in Statements}
        \cup {<<GivenUnit(<< >>, s[1]), GivenUnit(<<"(", ")">>, s[2])>> : s \in Same({<<"a", "=", "b">>})}

Junk == {"a", "x", "1", "(", ")", "[", "]", ",", ":", ";", "=", "+", "*", "{", "}", "var", "ret", "if", "for", "while", "do", "new", "uses"}

Garbage(n) ==
    {<<"fn", "g", "(", "a", ")", ":", "{">> \o w \o <<"}", "fn", "h", ":", "{", "ret", "1", "}">> : w \in [1..n -> Junk]}

Source(text, longhand_) == [text |-> Lexed(text), longhand |-> longhand_]

ScriptSources == {[text |-> s.text, longhand |-> << >>] : s \in Scripts!Scripts}

MCSources ==
    ScriptSources \cup {Source(u[1], u[2]) : u \in Units} \cup {Source(w, << >>) : w \in UNION {Garbage(n) : n \in 0..3}}

-----------------------------------------------------------------------------
\* The scripts of README.md:22-39 and of comdisint.cpp:12-37 are read as their
\* nodes, the two loops' variables of one name as two, and nothing is reported.
ReadsScripts ==
    \A s \in Scripts!Scripts :
        Ended /\ parser.text = s.text =>
            Alive /\ parser.errors = {} /\ parser.childrens = s.nodes

=============================================================================
