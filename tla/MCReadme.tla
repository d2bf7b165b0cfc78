------------------------------ MODULE MCReadme ------------------------------
(* The sources of MCCompiled, and the scripts of the README and of the       *)
(* example, compiled and run. README.md:57-99 lists the code of the first.   *)
EXTENDS MCCompiled, Scripts

Listing ==
    <<"met", "ldcst", "strlc", "ldcst", "ldcst", "ldcst", "call", "add", "strlc",
      "newarr", "strlc", "ldlc", "ldcst", "ldcst", "strelm", "ldlc", "ldcst", "ldcst", "strelm",
      "ldlc", "ldcst", "ldcst", "strelm", "ldlc", "strlc", "ldcst", "strlc",
      "ldlc", "ldlc", "call", "clt", "brf", "ldlc", "ldlc", "ldelm", "ldcststr", "call",
      "ldlc", "ldcst", "add", "strlc", "br", "endmet">>

ScriptPrograms ==
    {[script |-> s.name] @@ Compiled(s.nodes) : s \in Scripts}
        \cup {[script |-> "none"] @@ p : p \in CompiledPrograms}

\* README.md:57-99, "IR emitted": test has the opcodes, branches and calls that
\* are listed there, at their addresses. The compiler has nothing to report.
ReadmeListing ==
    LET test == prog.units["main"].funcs[2]
        address[i \in DOMAIN Listing] ==
            IF i = 1 THEN 0 ELSE address[i - 1] + Width(Listing[i - 1])
        Emits(ins) == \E a \in DOMAIN test : test[a] = ins
    IN  /\ prog.errors = {}
        /\ prog.script = "README.md" =>
              /\ DOMAIN test = {address[i] : i \in DOMAIN Listing}
              /\ \A i \in DOMAIN Listing : test[address[i]].op = Listing[i]
              /\ Emits([op |-> "br", to |-> 165]) /\ Emits([op |-> "brf", to |-> 241])
              /\ Emits([op |-> "call", unit |-> Self, func |-> 0])
              /\ Emits([op |-> "call", unit |-> 0, func |-> 4]) /\ Emits([op |-> "call", unit |-> 0, func |-> 0])

-----------------------------------------------------------------------------
(* What is printed                                                           *)

AtPrint == Decodes({"call"}) /\ External /\ StdFunctions[CalleeFunc] = "print"

Prints(numbers) ==
    /\ Has(Len(numbers) + 1)
    /\ \A k \in DOMAIN numbers : IsNumber(Peek(k), numbers[k])

Elements == <<12, 15, 27>>

\* The variables of test, by the order in which they are declared: a, b, c and
\* i, in the example a, b, c, d, i, the d of the loop's block, the second i.
Value(slot) == Local(top.slots, slot).num

\* README.md:122-123, "Interpreted result: 12 15 27": each print finds its text on
\* top of the stack, and under it the element of the array whose turn it is,
\* after a call to max, an array built element by element, and a loop that
\* calls length and print of another unit. In comdisint.cpp, the elements and
\* the 7 that is only in the block, then the second loop's own count: no
\* variable is taken for another of its name, in the nodes, the code or the
\* slots.
PrintsTheElements ==
    AtPrint /\ prog.script # "none" =>
        CASE prog.script = "README.md" -> el1.str = "{} " /\ Prints(<<Elements[Value(3) + 1]>>)
          [] prog.script = "comdisint.cpp" /\ el1.str = "{} {} " ->
                Prints(<<Elements[Value(4) + 1], 7>>) /\ Value(3) = 12
          [] prog.script = "comdisint.cpp" /\ el1.str = "{} " ->
                Prints(<<Value(6)>>) /\ Value(3) = 12 /\ Value(4) = 3

=============================================================================
