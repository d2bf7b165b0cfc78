-------------------------- MODULE MCInterpreter --------------------------
(* Small programs for TLC to run on the Interpreter.                        *)
EXTENDS Interpreter

\* The numbers and strings of the runs: "{}" is the text with one hole.
MCNums  == -1..2
MCStrs  == {"", "s", "{}"}
MCHoles == [s \in MCStrs |-> IF s = "{}" THEN 1 ELSE 0]

-----------------------------------------------------------------------------
(* Writing programs                                                          *)

op(o)          == [op |-> o]
ldcst(n)       == [op |-> "ldcst", cst |-> Num(n)]
ldcststr(s)    == [op |-> "ldcststr", cst |-> Str(s)]
local(o, i)    == [op |-> o, idx |-> i]
jump(o, i)     == [op |-> o, to |-> i]      \* to the i-th instruction, met being the first
call(u, f)     == [op |-> "call", unit |-> u, func |-> f]
met(n)         == [op |-> "met", argc |-> n]

\* The code of a list of instructions, each at its byte address.
Asm(list) ==
    LET at[i \in 1..(Len(list) + 1)] ==
            IF i = 1 THEN 0 ELSE at[i - 1] + Width(list[i - 1].op)
        code_at(a) == CHOOSE i \in 1..Len(list) : at[i] = a
    IN  [a \in {at[i] : i \in 1..Len(list)} |->
            LET ins == list[code_at(a)]
            IN  IF ins.op \in JumpOps THEN [ins EXCEPT !.to = at[@]] ELSE ins]

Function(argc, body) == Asm(<<met(argc)>> \o body \o <<op("endmet")>>)

\* One unit of the given functions, which refers to std; the host calls the first.
Program(funcs) ==
    [units |-> [u \in {"main"} |-> [funcs |-> funcs, refs |-> <<StdUnit>>]],
     entries |-> {<<"main", 1>>}]

Bodies(alphabet, n) == [1..n -> alphabet]

=============================================================================
