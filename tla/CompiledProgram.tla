-------------------------- MODULE CompiledProgram --------------------------
(* The compiler and the interpreter together: the program that runs is what  *)
(* compile() emits for a source. Beside it is what SourceSemantics says the  *)
(* function the host calls leaves in its variables.                          *)
EXTENDS Interpreter, Compiler, SourceSemantics

\* What the source leaves in the local variables of its last function: by
\* slot, the numbers, and the arrays.
Variables(childrens) ==
    LET main  == Last(childrens)
        env   == Outcome(childrens, main)
        slots == {i \in DOMAIN main.local_vars : main.local_vars[i] \in DOMAIN env}
        array == {i \in slots : \E stmt \in ToSet(main.childrens) :
                    /\ stmt.nt = "assign" /\ stmt.left.name = main.local_vars[i]
                    /\ stmt.right.nt = "new_object"}
        values(S) == [j \in {i - 1 : i \in S} |-> env[main.local_vars[j + 1]]]
    IN  [numbers |-> values(slots \ array), arrays |-> values(array)]

\* The interpreter's program for what is built of a unit: the host calls its
\* last function.
Loaded(built, outcome) ==
    [units   |-> [u \in {"main"} |-> [funcs |-> built.funcs, refs |-> built.unit_table]],
     entries |-> {<<"main", Len(built.funcs)>>},
     outcome |-> outcome,
     errors  |-> built.errors,
     fault   |-> built.fault]

\* A unit that uses std, compiled.
Compiled(childrens) ==
    Loaded(compile(childrens, [u \in {StdUnit} |-> StdTable]), Variables(childrens))

IsNumber(el, n) == el.type = "num" /\ el.num = n

IsArray(el, numbers) ==
    /\ el.type = "ref" /\ el.ref \in DOMAIN objects
    /\ LET elements == objects[el.ref].elements
       IN  Len(elements) = Len(numbers) /\ \A k \in DOMAIN numbers : IsNumber(elements[k], numbers[k])

\* A program runs as it is written: execution has no fault, and when the
\* function the host called is about to end, every variable it assigned has
\* the value the source gives it. Calls, conditions, loops and the order of
\* evaluation have to agree between what the compiler emits and what the
\* handlers do.
RunsAsWritten ==
    /\ fault = "none" /\ prog.fault = "none" /\ prog.errors = {}
    /\ Depth = 1 /\ instr.op = "endmet" =>
            LET outcome == prog.outcome
            IN  /\ \A i \in DOMAIN outcome.numbers : IsNumber(Local(top.slots, i), outcome.numbers[i])
                /\ \A i \in DOMAIN outcome.arrays : IsArray(Local(top.slots, i), outcome.arrays[i])

=============================================================================
