------------------------------ MODULE MCDocs ------------------------------
(* What OPCODE.md says of ret, against what the handler does with it. The    *)
(* program is what the compiler emits for the source on top of it.           *)
EXTENDS MCInterpreter

\* fn f(x): var y = x; return y        fn main(): f(2)
RetPrograms ==
    {Program(<<Function(0, <<ldcst(2), call(Self, 1)>>),
               Function(1, <<local("ldarg", 0), local("strlc", 0), local("ldlc", 0), op("ret")>>)>>)}

\* OPCODE.md:17-21, "ret: Pop the last element from evaluation stack of current
\* thread context. Pop the func contexts stack. Push the element that just
\* popped to the evaluation stack of current thread context." A ret that has an
\* element to return, and a caller, ends its context.
RetPopsTheContext ==
    [][Decodes({"ret"}) /\ Has(1) /\ Depth > 1 => Len(func_contexts') = Depth - 1]_vars

=============================================================================
