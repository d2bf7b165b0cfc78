----------------------------- MODULE MCPrograms -----------------------------
EXTENDS MCInterpreter

(* Every opcode, with operands at the edges of what it accepts, on every     *)
(* stack of two values of any type (of three, where it may take three), and  *)
(* on an array a function returned.                                          *)

Pushes == {ldcst(-1), ldcst(2), ldcststr("s"), ldcststr("{}"),
           op("newarr"), local("ldlc", 0)}

EdgeIndices == {0, 29, 30, 127, 128, 199, 200, 255}

OfThree == {op("strelm"), op("ret")} \cup {call(0, f) : f \in 0..5}

OfTwo ==
    {op(o) : o \in PlainOps}
        \cup {local(o, i) : o \in LocalOps, i \in EdgeIndices}
        \cup {[op |-> "ldcst", cst |-> Str("s")], [op |-> "ldcststr", cst |-> Num(0)]}

\* A branch goes to endmet.
Mains ==
    {b \o <<i>> : b \in Bodies(Pushes, 3), i \in OfThree}
        \cup {b \o <<i>> : b \in Bodies(Pushes, 2), i \in OfTwo \cup {jump(o, 5) : o \in JumpOps}}
        \cup {<<call(Self, 1), i>> : i \in OfTwo \cup OfThree}

OpcodePrograms ==
    {Program(<<Function(0, b), Function(0, <<op("newarr"), op("ret")>>)>>) : b \in Mains}

(* Every pair of a short function in each of two units that call each other, *)
(* themselves and a unit that is missing; the host calls either.             *)

CallerAlphabet == {ldcst(2), local("strlc", 0), call(1, 0), call(2, 0),
                   op("ret")}
CalleeAlphabet == {local("ldarg", 0), local("ldarg", 1), ldcst(1), call(0, 0),
                   call(Self, 0), op("ret")}

TwoUnits(main, lib) ==
    [units |-> [u \in {"main", "lib"} |->
                    IF u = "main" THEN [funcs |-> <<main>>, refs |-> <<StdUnit, "lib", "gone">>]
                                  ELSE [funcs |-> <<lib>>, refs |-> <<"main">>]],
     entries |-> {<<"main", 1>>, <<"lib", 1>>}]

CallPrograms ==
    {TwoUnits(Function(0, b), Function(n, c)) :
        b \in Bodies(CallerAlphabet, 3), c \in Bodies(CalleeAlphabet, 2), n \in 0..2}
    \cup {TwoUnits(Function(0, <<i, call(1, 0)>>), Function(Args + 1, << >>)) : i \in CallerAlphabet}

MCProgramSet == OpcodePrograms \cup CallPrograms
=============================================================================
