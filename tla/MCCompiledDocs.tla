--------------------------- MODULE MCCompiledDocs ---------------------------
(* What a comment of the compiler says of conditions, against what their     *)
(* code does.                                                                *)
EXTENDS MCCompiled

\* var b = 0; var a = 2; while b && a: a = 1
AndLoop ==
    <<fn("main", << >>, <<"a", "b">>,
         <<assign(var("b"), num(0)), assign(var("a"), num(2)),
           while(calc("logical_and", var("b"), var("a")), <<assign(var("a"), num(1))>>)>>)>>

LoopPrograms == {Compiled(AndLoop)}

\* Where the body starts: after the brf that leaves the loop.
BodyStart ==
    LET exits == {a \in DOMAIN code : code[a].op = "brf"}
    IN  Max(exits) + Width("brf")

\* ir_compiler.cpp:653, "if one of these conditions failed, it should not
\* continue execution": when the body is entered, the condition holds.
BodyNeedsItsCondition ==
    Depth = 1 /\ top.pc = BodyStart =>
        Local(top.slots, 0).num # 0 /\ Local(top.slots, 1).num # 0

=============================================================================
