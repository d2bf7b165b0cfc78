------------------------------ MODULE Emitter ------------------------------
(* How ir_compiler writes the code of a function: instructions one after     *)
(* the other, branches whose target is written later, and the br that closes *)
(* a loop. The build_* functions of Compiler are made of these operators,    *)
(* and Emission is whatever they can do with them.                           *)
EXTENDS Bytecode

\* The code of the current function and its crr_pc, the addresses remembered
\* for later (the newest first), and the functions before it.
NothingEmitted == [code |-> << >>, pc |-> 0, saved |-> << >>, funcs |-> << >>]

emit(st, ins) ==
    [st EXCEPT !.code = [a \in DOMAIN @ \cup {st.pc} |-> IF a = st.pc THEN ins ELSE @[a]],
               !.pc = @ + Width(ins.op)]

\* Remembers where it is: the start of a loop, or of a branch that is emitted
\* with its target 0 and rewritten when the target is known.
save(st) == [st EXCEPT !.saved = <<st.pc>> \o @]

branch(st, op) == emit(save(st), [op |-> op, to |-> 0])

Target(ins, pc) == [ins EXCEPT !.to = pc]

\* MUTANT: one branch too few is rewritten.
rewrite_OneTooFew(st, i, j) ==
    LET branches == {st.saved[k] : k \in i..(j - 1)}
    IN  [st EXCEPT !.code = [a \in DOMAIN @ |-> IF a \in branches THEN Target(@[a], st.pc) ELSE @[a]],
                   !.saved = SubSeq(@, 1, i - 1) \o SubSeq(@, j + 1, Len(@))]

\* Seeks back to the i-th to j-th branch saved, the newest being the first, and
\* writes where they go: here.
rewrite(st, i, j) ==
    LET branches == {st.saved[k] : k \in i..j}
    IN  [st EXCEPT !.code = [a \in DOMAIN @ |-> IF a \in branches THEN Target(@[a], st.pc) ELSE @[a]],
                   !.saved = SubSeq(@, 1, i - 1) \o SubSeq(@, j + 1, Len(@))]

\* MUTANT: the if's branch goes to the br that ends its block, not behind it.
start_else_TooEarly(st) == branch(rewrite(st, 1, 1), "br")

\* The if block ends with a br over the else block, and its branch goes behind
\* that br.
start_else(st) == rewrite(branch(st, "br"), 2, 2)

\* Back to the start of the loop, saved before its n guards, which end here.
emit_loop_end(st, n) ==
    LET looped == rewrite(emit(st, [op |-> "br", to |-> st.saved[n + 1]]), 1, n)
    IN  [looped EXCEPT !.saved = Tail(@)]

\* met writes the number of arguments as a uint16_t.
begin_function(st, argc) ==
    emit([st EXCEPT !.code = << >>, !.pc = 0], [op |-> "met", argc |-> argc % Values16])

\* The finished code joins funcs.
end_function(st) ==
    LET ended == emit(st, [op |-> "endmet"]) IN [ended EXCEPT !.funcs = Append(@, ended.code)]

=============================================================================
