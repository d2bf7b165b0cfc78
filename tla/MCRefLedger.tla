---------------------------- MODULE MCRefLedger -----------------------------
EXTENDS RefLedger, MCInterpreter

(* The counters: short mains over one variable holding an array, with helpers *)
(* that create, pass on, keep or drop one.                                   *)

ArrayAlphabet == {op("newarr"), local("strlc", 0), local("ldlc", 0), ldcst(0),
                  op("strelm"), op("ldelm"), call(Self, 1), call(0, 4)}

ArrayHelpers ==
    {Function(0, <<op("newarr"), op("ret")>>),
     Function(0, <<op("newarr"), local("strlc", 0)>>),
     Function(1, <<local("ldarg", 0), op("ret")>>),
     Function(1, <<local("ldarg", 0), local("ldarg", 0), op("ret")>>)}

\* Long enough to load a variable whose array is gone.
LoadAlphabet == {local("strlc", 0), local("ldlc", 0), ldcst(0), op("ldelm"), call(Self, 1)}

ArrayPrograms ==
    {Program(<<Function(0, m[1]), m[2]>>) :
        m \in (Bodies(ArrayAlphabet, 4) \X ArrayHelpers)
                \cup (Bodies(LoadAlphabet, 5) \X {Function(0, <<op("newarr"), op("ret")>>)})}
=============================================================================
