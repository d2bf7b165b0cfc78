----------------------------- MODULE Compiler -----------------------------
(* ir_compiler: the code it emits for a unit. The compiler is sequential:    *)
(* every build_* function is an operator from what is emitted so far to what *)
(* is emitted after it. A node is a record with its node_type in nt; a       *)
(* variable's name stands for its node, and a constant is in the instruction *)
(* that loads it, where do_relocate's addresses lead.                        *)
EXTENDS Emitter, SequencesExt

(* What is emitted is the emitter's state, the unit table, the errors        *)
(* reported, and what became of the process (fault). cx is what the compiler *)
(* only reads: the unit's functions, the loaded units' functions, and the    *)
(* function being built.                                                     *)

RECURSIVE build_push_hs(_, _, _), build_node(_, _, _), build_rest(_, _)

\* What is emitted so far, and the nodes that are left.
build_rest(cx, rest) ==
    IF rest.nodes = << >> THEN rest.emitted
    ELSE build_rest(cx, [emitted |-> build_node(cx, rest.emitted, Head(rest.nodes)), nodes |-> Tail(rest.nodes)])

build_all(cx, st, nodes) == build_rest(cx, [emitted |-> st, nodes |-> nodes])

-----------------------------------------------------------------------------
(* Variables                                                                 *)

Position(names, name) == SelectInSeq(names, LAMBDA n : n = name)

\* One byte of the index is written.
IndexByte(names, name) == (Position(names, name) - 1) % 256

\* The arguments of a function are the first of its local variables.
IsLocal(cx, name) == Position(cx.func.local_vars, name) > 0
IsArg(cx, name)   == Position(cx.func.args, name) > 0

LoadVar(cx, name) ==
    IF IsArg(cx, name) THEN [op |-> "ldarg", idx |-> IndexByte(cx.func.args, name)]
                       ELSE [op |-> "ldlc", idx |-> IndexByte(cx.func.local_vars, name)]

\* build_assign looks for arguments only when the assignment itself is a
\* variable node, which it never is: it always takes a local variable.
LoadLeft(cx, name) == [op |-> "ldlc", idx |-> IndexByte(cx.func.local_vars, name)]
StoreVar(cx, name) == [op |-> "strlc", idx |-> IndexByte(cx.func.local_vars, name)]

-----------------------------------------------------------------------------
(* Expressions                                                               *)

number(n) == [op |-> "ldcst", cst |-> Num(n)]

UnaryOp == [not |-> "uno", sub |-> "ung", reverse |-> "uin"]

\* An operator without an opcode leaves its operands.
emit_operator(st, ops, op) == IF op \in DOMAIN ops THEN emit(st, [op |-> ops[op]]) ELSE st

\* do_report: an error changes nothing of what is emitted.
do_report(st, error) == [st EXCEPT !.errors = @ \cup {error}]

\* The node_type of a node that is null is read, and the process ends: what
\* would be emitted after it is of no account.
null_node(st) == [st EXCEPT !.fault = "null"]

\* A unary + has no opcode and is no error.
build_unary(cx, st, node) ==
    IF node.op \in DOMAIN UnaryOp \cup {"add"}
    THEN emit_operator(build_push_hs(cx, st, node.left), UnaryOp, node.op)
    ELSE do_report(build_push_hs(cx, st, node.left), "invalid_unary")

\* mod, not ("!=") and logical_xor are not among them.
CaculateOp ==
    [add |-> "add", sub |-> "sub", div |-> "div", mul |-> "mul", power |-> "pwr",
     shl |-> "shl", shr |-> "shr", equal |-> "ceq", greater |-> "cgt",
     greater_equal |-> "cge", less |-> "clt", less_equal |-> "cle",
     and |-> "and", logical_and |-> "and", or |-> "or", logical_or |-> "or", xor |-> "xor"]

\* MUTANT: the right operand is pushed first.
build_caculate_Exchanged(cx, st, node) ==
    emit_operator(build_push_hs(cx, build_push_hs(cx, st, node.right), node.left), CaculateOp, node.op)

build_caculate(cx, st, node) ==
    emit_operator(build_push_hs(cx, build_push_hs(cx, st, node.left), node.right), CaculateOp, node.op)

\* Functions are found by name and number of arguments, -1 being any number.
get_function_idx(funcs, name, argc) ==
    SelectInSeq(funcs, LAMBDA f : f.name = name /\ f.argc \in {argc, -1})

\* The last unit used so far that has such a function, 0 if none has.
UnitOf(cx, st, name, argc) ==
    SelectLastInSeq(st.unit_table,
        LAMBDA u : u \in DOMAIN cx.loaded /\ get_function_idx(cx.loaded[u], name, argc) > 0)

\* The call of a function of this unit, or of a unit it uses.
emit_call(cx, st, name, argc) ==
    LET own  == get_function_idx(cx.target, name, argc)
        unit == UnitOf(cx, st, name, argc)
    IN  CASE own > 0 -> emit(st, [op |-> "call", unit |-> Self, func |-> own - 1])
          [] own = 0 /\ unit > 0 ->
                emit(st, [op |-> "call", unit |-> unit - 1, func |->
                    get_function_idx(cx.loaded[st.unit_table[unit]], name, argc) - 1])
          [] OTHER -> do_report(st, "func_not_found")

\* The arguments are pushed last to first.
build_function_call(cx, st, node) ==
    emit_call(cx, FoldRight(LAMBDA arg, s : build_push_hs(cx, s, arg), node.args, st),
              node.func, Len(node.args))

build_push_hs(cx, st, node) ==
    CASE node.nt = "nullptr" -> st
      [] node.nt = "number"  -> emit(st, number(node.value))
      [] node.nt = "string"  -> emit(st, [op |-> "ldcststr", cst |-> Str(node.str)])
      [] node.nt = "var" ->
            IF IsLocal(cx, node.name) THEN emit(st, LoadVar(cx, node.name)) ELSE st
      [] node.nt = "array_access" ->
            IF IsLocal(cx, node.name)
            THEN emit(build_push_hs(cx, emit(st, LoadVar(cx, node.name)), node.index), [op |-> "ldelm"])
            ELSE st
      [] node.nt = "null"  -> emit(st, [op |-> "ldnull"])
      [] node.nt = "unary" -> build_unary(cx, st, node)
      [] OTHER             -> build_node(cx, st, node)

-----------------------------------------------------------------------------
(* Assignments                                                               *)

\* Loads the array that variable name refers to, and an index of it.
index_array(cx, st, name, i) == emit(emit(st, LoadLeft(cx, name)), number(i))

\* MUTANT: the first element has index 1.
build_array_push_FromOne(cx, st, init_elements, name) ==
    LET element(s, i) ==
            emit(build_push_hs(cx, index_array(cx, s, name, i), init_elements[i]), [op |-> "strelm"])
    IN  FoldLeft(element, st, [i \in 1..Len(init_elements) |-> i])

build_array_push(cx, st, init_elements, name) ==
    LET element(s, i) ==
            emit(build_push_hs(cx, index_array(cx, s, name, i - 1), init_elements[i]), [op |-> "strelm"])
    IN  FoldLeft(element, st, [i \in 1..Len(init_elements) |-> i])

build_new_object(cx, st, init_elements, name) ==
    emit(build_array_push(cx, emit(emit(st, [op |-> "newarr"]), StoreVar(cx, name)), init_elements, name),
         LoadLeft(cx, name))

\* What is read of node without a test is null: the node itself, or what is new.
IsNull(node) ==
    \/ node.nt = "nullptr"
    \/ node.nt = "new_object" /\ "object_request" \in DOMAIN node

build_right(cx, st, node, name) ==
    CASE IsNull(node)           -> null_node(st)
      [] node.nt = "new_object" -> build_new_object(cx, st, node.init_elements, name)
      [] node.nt = "array"      -> build_array_push(cx, st, node.init_elements, name)
      [] OTHER                  -> build_push_hs(cx, st, node)

\* What the left side puts on the stack: an array and an index, or nothing.
build_left(cx, st, left) ==
    IF left.nt = "var" THEN st ELSE build_push_hs(cx, emit(st, LoadLeft(cx, left.name)), left.index)

build_assign(cx, st, node) ==
    IF IsLocal(cx, node.left.name)
    THEN emit(build_right(cx, build_left(cx, st, node.left), node.right, node.left.name),
              IF node.left.nt = "var" THEN StoreVar(cx, node.left.name) ELSE [op |-> "strelm"])
    ELSE st

-----------------------------------------------------------------------------
(* Control                                                                   *)

\* && and || branch past the right operand, with the left one popped.
build_condition(cx, st, node) ==
    IF node.nt = "nullptr" THEN null_node(st)
    ELSE IF node.nt = "caculate" /\ node.op \in {"logical_and", "logical_or"}
    THEN rewrite(build_push_hs(cx, branch(build_push_hs(cx, st, node.left),
                                          IF node.op = "logical_and" THEN "brf" ELSE "brt"),
                               node.right), 1, 1)
    ELSE build_push_hs(cx, st, node)

\* Leaves the code if the condition fails: the branch is saved.
build_guard(cx, st, condition) == branch(build_condition(cx, st, condition), "brf")

\* What comes after the initial jobs of a loop.
build_loop(cx, st, node) ==
    emit_loop_end(
        build_all(cx,
            FoldLeft(LAMBDA s, c : build_guard(cx, s, c), st, node.continue_conditions),
            node.do_block \o node.end_jobs),
        Len(node.continue_conditions))

\* MUTANT: the loop goes back to its initial jobs.
build_conditional_loop_FromTheTop(cx, st, node) ==
    build_loop(cx, build_all(cx, save(st), node.init_jobs), node)

build_conditional_loop(cx, st, node) ==
    build_loop(cx, save(build_all(cx, st, node.init_jobs)), node)

build_if_else(cx, st, node) ==
    LET if_block(s) == build_all(cx, build_guard(cx, s, node.condition), node.if_block)
    IN  IF node.else_block = << >>
        THEN rewrite(if_block(st), 1, 1)
        ELSE rewrite(build_all(cx, start_else(if_block(st)), node.else_block[1]), 1, 1)

build_ret(cx, st, node) == emit(build_push_hs(cx, st, node.result), [op |-> "ret"])

\* build_node but for functions: a variable that is only declared, and any
\* other node, emits nothing.
build_node(cx, st, node) ==
    CASE node.nt = "caculate"         -> build_caculate(cx, st, node)
      [] node.nt = "assign"           -> build_assign(cx, st, node)
      [] node.nt = "function_call"    -> build_function_call(cx, st, node)
      [] node.nt = "if_else"          -> build_if_else(cx, st, node)
      [] node.nt = "block"            -> build_all(cx, st, node.childrens)
      [] node.nt = "conditional_loop" -> build_conditional_loop(cx, st, node)
      [] node.nt = "ret"              -> build_ret(cx, st, node)
      [] node.nt = "unit_ref"         -> [st EXCEPT !.unit_table = Append(@, node.name)]
      [] OTHER                        -> st

-----------------------------------------------------------------------------
(* Units                                                                     *)

\* met, the statements, endmet.
build_function(cx, st, node) ==
    end_function(build_all([cx EXCEPT !.func = node], begin_function(st, Len(node.args)), node.childrens))

\* The functions of the std unit, as get_function_idx finds them.
StdTable ==
    <<[name |-> "print", argc |-> -1], [name |-> "sin", argc |-> 1], [name |-> "cos", argc |-> 1],
      [name |-> "tan", argc |-> 1], [name |-> "length", argc |-> 1]>>

IsFunction(node) == node.nt = "function"

Signature(node) == [name |-> node.name, argc |-> Len(node.args)]

\* compile(): a unit's uses and functions in their order.
compile(childrens, loaded) ==
    LET functions == SelectSeq(childrens, IsFunction)
        cx == [target |-> [i \in DOMAIN functions |-> Signature(functions[i])],
               loaded |-> loaded, func |-> << >>]
        child(st, node) ==
            IF IsFunction(node) THEN build_function(cx, st, node)
                                ELSE build_node(cx, st, node)
    IN  FoldLeft(child, [unit_table |-> << >>, errors |-> {}, fault |-> "none"] @@ NothingEmitted, childrens)

=============================================================================
