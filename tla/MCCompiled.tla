----------------------------- MODULE MCCompiled -----------------------------
(* Sources whose compiled code TLC runs to its end.                          *)
EXTENDS CompiledProgram, Nodes

MCNums  == -30..30
MCStrs  == {"", "{} "}
MCHoles == [s \in MCStrs |-> IF s = "" THEN 0 ELSE 1]

-----------------------------------------------------------------------------
(* The functions that main calls, and main                                   *)

\* fn down(x): if x > 0: down(x - 1), which returns nothing
Down ==
    fn("down", <<"x">>, << >>,
       <<if(calc("greater", var("x"), num(0)), <<callf("down", <<calc("sub", var("x"), num(1))>>)>>)>>)

Helpers ==
    {<<fn("f", <<"x", "y">>, << >>, <<ret(calc("sub", var("x"), var("y")))>>)>>,
     <<fn("f", <<"x", "y">>, << >>,
          <<if(calc("less", var("x"), var("y")), <<ret(var("x"))>>), ret(unary("sub", var("y")))>>)>>,
     \* fn f(x, y): if x > 0: ret y + f(x - 1, y)
     \*             ret y
     <<fn("f", <<"x", "y">>, << >>,
          <<if(calc("greater", var("x"), num(0)),
               <<ret(calc("add", var("y"), callf("f", <<calc("sub", var("x"), num(1)), var("y")>>)))>>),
            ret(var("y"))>>)>>,
     <<fn("f", <<"x">>, << >>, <<ret(var("x"))>>),
       fn("f", <<"x", "y">>, << >>, <<ret(callf("g", <<var("y"), callf("f", <<var("x")>>)>>))>>),
       fn("g", <<"p", "q">>, << >>, <<ret(calc("less_equal", var("p"), var("q")))>>)>>}

\* Expressions of main, over its variables and array.
Exprs ==
    {var("a"), var("b"), calc("sub", var("a"), var("b")), unary("not", var("a")),
     calc("sub", num(2), calc("mul", var("a"), var("b"))),
     callf("f", <<var("a"), var("b")>>), callf("f", <<var("b"), num(1)>>), at("c", num(1))}

Conditions ==
    {calc("less", var("a"), var("b")), calc("equal", var("a"), var("b")),
     calc("greater", callf("f", <<var("a"), num(1)>>), var("b")), unary("not", var("a"))}

Simple ==
    {assign(var("a"), e) : e \in Exprs}
        \cup {assign(at("c", num(1)), e) : e \in Exprs \ {at("c", num(1))}}
        \cup {callf("f", <<num(1), num(0)>>), callf("down", <<num(2)>>)}

\* for var i = 0; i < 2; i = i + 1: with one or two conditions
Loops(body) ==
    {for(<<assign(var("i"), num(0))>>, cs, <<increment("i")>>, body) :
        cs \in {<<calc("less", var("i"), num(2))>>,
                <<calc("less", var("i"), num(3)), calc("less", var("i"), var("b"))>>}}
    \cup {while(calc("less", var("b"), num(2)), body \o <<increment("b")>>)}

Compound ==
    {if(c, <<s>>) : c \in Conditions, s \in {assign(var("a"), e) : e \in Exprs}}
        \cup UNION {Loops(<<s>>) : s \in Simple}
        \cup UNION {Loops(<<if(c, <<assign(var("a"), num(1))>>)>>) : c \in Conditions}
        \cup UNION {Loops(l) : l \in {<<k>> : k \in {while(calc("less", var("a"), num(2)), <<increment("a")>>)}}}

Main(n, m, body) ==
    fn("main", << >>, <<"a", "b", "c", "i">>,
       <<assign(var("a"), num(n)), assign(var("b"), num(m)),
         assign(var("c"), array(<<var("b"), num(1)>>))>> \o body)

Sources ==
    {<<uses("std"), Down>> \o h \o <<Main(init[1], init[2], body)>> :
        h \in Helpers, init \in {<<0, 1>>, <<1, 1>>},
        body \in {<<s>> : s \in Compound}
            \cup {<<s, t>> : s \in Simple, t \in {assign(at("c", num(0)), var("a")), assign(var("b"), at("c", num(1)))}}}

CompiledPrograms == {Compiled(source) : source \in Sources}

==================================================
