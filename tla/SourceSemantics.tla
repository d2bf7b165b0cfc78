-------------------------- MODULE SourceSemantics --------------------------
(* What a program means, read from its nodes and not from its code: the      *)
(* reference that compiled programs are held against. LDESIGN.md gives it:   *)
(* statements in their order, blocks, conditions, numbers, arrays. Programs  *)
(* are those whose loops end and whose functions return where a value is     *)
(* used; an environment maps the assigned variables to numbers and arrays.   *)
EXTENDS Integers, Sequences, SequencesExt

Truth(b) == IF b THEN 1 ELSE 0

Apply(op, a, b) ==
    CASE op = "add" -> a + b
      [] op = "sub" -> a - b
      [] op = "mul" -> a * b
      [] op = "equal"         -> Truth(a = b)
      [] op = "not"           -> Truth(a # b)
      [] op = "greater"       -> Truth(a > b)
      [] op = "greater_equal" -> Truth(a >= b)
      [] op = "less"          -> Truth(a < b)
      [] op = "less_equal"    -> Truth(a <= b)
      [] op = "logical_and"   -> Truth(a # 0 /\ b # 0)
      [] op = "logical_or"    -> Truth(a # 0 \/ b # 0)

ApplyUnary(op, a) ==
    CASE op = "not"     -> Truth(a = 0)
      [] op = "sub"     -> -a
      [] op = "reverse" -> -a - 1
      [] OTHER          -> a

RECURSIVE Eval(_, _, _), Exec(_, _, _), Loop(_, _, _)

\* A function's value on some arguments: what it returns.
Call(unit, name, args) ==
    LET function == CHOOSE f \in ToSet(unit) :
                        f.nt = "function" /\ f.name = name /\ Len(f.args) = Len(args)
        binding  == [x \in ToSet(function.args) |->
                        args[CHOOSE i \in DOMAIN args : function.args[i] = x]]
    IN  Exec(unit, [env |-> binding, ret |-> << >>], function.childrens).ret[1]

Eval(unit, env, e) ==
    CASE e.nt = "number"        -> e.value
      [] e.nt = "var"           -> env[e.name]
      [] e.nt = "array_access"  -> env[e.name][Eval(unit, env, e.index) + 1]
      [] e.nt = "unary"         -> ApplyUnary(e.op, Eval(unit, env, e.left))
      [] e.nt = "caculate"      -> Apply(e.op, Eval(unit, env, e.left), Eval(unit, env, e.right))
      [] e.nt = "function_call" /\ e.func = "length" -> Len(Eval(unit, env, e.args[1]))
      [] e.nt = "function_call" /\ e.func # "length" ->
            Call(unit, e.func, [i \in DOMAIN e.args |-> Eval(unit, env, e.args[i])])
      [] e.nt = "new_object"    -> [i \in DOMAIN e.init_elements |-> Eval(unit, env, e.init_elements[i])]

Holds(unit, env, conditions) ==
    \A i \in DOMAIN conditions : Eval(unit, env, conditions[i]) # 0

Bind(env, name, value) ==
    [x \in DOMAIN env \cup {name} |-> IF x = name THEN value ELSE env[x]]

\* One statement, unless a ret came before it.
Step(unit, s, stmt) ==
    CASE s.ret # << >> -> s
      [] s.ret = << >> /\ stmt.nt = "assign" ->
            LET value == Eval(unit, s.env, stmt.right)
                index == Eval(unit, s.env, stmt.left.index) + 1
            IN  [s EXCEPT !.env = IF stmt.left.nt = "var"
                                  THEN Bind(@, stmt.left.name, value)
                                  ELSE [@ EXCEPT ![stmt.left.name][index] = value]]
      [] s.ret = << >> /\ stmt.nt = "if_else" ->
            IF Holds(unit, s.env, <<stmt.condition>>)
            THEN Exec(unit, s, stmt.if_block)
            ELSE IF stmt.else_block = << >> THEN s ELSE Exec(unit, s, stmt.else_block[1])
      [] s.ret = << >> /\ stmt.nt = "conditional_loop" ->
            Loop(unit, Exec(unit, s, stmt.init_jobs), stmt)
      [] s.ret = << >> /\ stmt.nt = "ret" -> [s EXCEPT !.ret = <<Eval(unit, s.env, stmt.result)>>]
      [] OTHER -> s     \* a call for its effects: it has none on variables

Loop(unit, s, loop) ==
    IF s.ret = << >> /\ Holds(unit, s.env, loop.continue_conditions)
    THEN Loop(unit, Exec(unit, s, loop.do_block \o loop.end_jobs), loop)
    ELSE s

Exec(unit, s, stmts) == FoldLeft(LAMBDA t, stmt : Step(unit, t, stmt), s, stmts)

\* The variables of a function without arguments when it ends.
Outcome(unit, function) ==
    Exec(unit, [env |-> << >>, ret |-> << >>], function.childrens).env

=============================================================================
