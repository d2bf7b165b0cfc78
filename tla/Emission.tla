----------------------------- MODULE Emission -----------------------------
(* Whatever the compiler can emit: functions one after the other, and in     *)
(* each any instructions and any nesting of conditions, ifs and loops, by    *)
(* the emitter's operators in the order in which the build_* functions call  *)
(* them. What the nodes are is left open, what stays is that a construct is  *)
(* ended after those begun in it: what C++'s calls and returns give.         *)
EXTENDS Emitter

CONSTANTS
    Straight,    \* the instructions that are no branch, as the nodes give them
    Arguments,   \* the numbers of arguments a function can have
    MaxPc,       \* for each function of a unit, a bound on its statements' addresses
    MaxOpen      \* bound on the branches and loops that wait for their end

VARIABLES
    st,         \* what is emitted
    open,       \* what each of st.saved was saved for
    building    \* a function is being built

vars == <<st, open, building>>

ASSUME EmissionAssumption ==
    /\ \A ins \in Straight : ins \in Instr /\ ins.op \notin JumpOps \cup {"met", "endmet"}
    /\ Arguments \subseteq Nat

Init == st = NothingEmitted /\ open = << >> /\ building = FALSE

build_function ==
    /\ ~building /\ Len(st.funcs) < Len(MaxPc)
    /\ \E argc \in Arguments : st' = begin_function(st, argc)
    /\ building' = TRUE
    /\ UNCHANGED open

Room == st.pc < MaxPc[Len(st.funcs) + 1]

\* A statement, an operand or an operator.
Emits ==
    /\ building /\ Room
    /\ \E ins \in Straight : st' = emit(st, ins)
    /\ UNCHANGED <<open, building>>

Begins(role, begun) ==
    /\ building /\ Room /\ Len(open) < MaxOpen
    /\ st' = begun
    /\ open' = <<role>> \o open
    /\ UNCHANGED building

Innermost(roles) == open # << >> /\ Head(open) \in roles

\* The left operand of && or ||, and the start of an if block.
build_condition == \E op \in BoolOps : Begins("condition", branch(st, op))
build_if        == Begins("if", branch(st, "brf"))

\* The branch that was saved last goes here: behind the right operand, or
\* behind an if or else block.
Ends ==
    /\ Innermost({"condition", "if", "else"})
    /\ st' = rewrite(st, 1, 1)
    /\ open' = Tail(open)
    /\ UNCHANGED building

build_else ==
    /\ Innermost({"if"})
    /\ st' = start_else(st)
    /\ open' = <<"else">> \o Tail(open)
    /\ UNCHANGED building

\* The start of a loop, a condition of it, and its end. (The build_* functions
\* emit all guards before the block; this leaves it open.)
build_loop  == Begins("loop", save(st))
build_guard == Innermost({"loop", "guard"}) /\ Begins("guard", branch(st, "brf"))

end_loop ==
    \E n \in 0..(Len(open) - 1) :
        /\ open[n + 1] = "loop" /\ \A k \in 1..n : open[k] = "guard"
        /\ st' = emit_loop_end(st, n)
        /\ open' = SubSeq(open, n + 2, Len(open))
        /\ UNCHANGED building

ends_function ==
    /\ building /\ open = << >>
    /\ st' = end_function(st)
    /\ building' = FALSE
    /\ UNCHANGED open

\* The unit is compiled.
Compiled == ~building /\ Len(st.funcs) = Len(MaxPc)

Next ==
    \/ build_function \/ Emits \/ build_condition \/ build_if \/ Ends \/ build_else
    \/ build_loop \/ build_guard \/ end_loop \/ ends_function
    \/ (Compiled /\ UNCHANGED vars)

Spec == Init /\ [][Next]_vars

-----------------------------------------------------------------------------
(* Properties                                                                *)

\* Whatever is nested in whatever, the code of a finished function is such as
\* the interpreter's model takes it: instructions follow each other without a
\* gap, met comes first and nowhere else, and every branch, those written with
\* target 0 and rewritten later included, goes to an instruction behind met.
CodeIsWellFormed == \A i \in DOMAIN st.funcs : WellFormedCode(st.funcs[i])

FallsInto(code, a) ==
    \E b \in DOMAIN code : code[b].op # "br" /\ a = b + Width(code[b].op)

JumpsTo(code, a) == \E b \in DOMAIN code : code[b].op \in JumpOps /\ code[b].to = a

\* Behind a br that goes back: the end of a loop, which may have no condition.
BehindLoop(code, a) ==
    \E b \in DOMAIN code : code[b].op = "br" /\ a = b + Width("br") /\ code[b].to <= b

\* No instruction of a finished function is one that execution cannot come to,
\* by falling into it or by a branch, but what follows a loop that nothing
\* leaves: the br over an else block never hides the block.
NothingHidden ==
    \A i \in DOMAIN st.funcs :
        LET code == st.funcs[i]
        IN  \A a \in DOMAIN code \ {0} : FallsInto(code, a) \/ JumpsTo(code, a) \/ BehindLoop(code, a)

=============================================================================
