------------------------------- MODULE Parser -------------------------------
(* parser: the nodes it makes of the lexer's tokens. Every parse_* function  *)
(* is an operator from where the parser is to where it is after, with the    *)
(* node it returns. Nodes are those that Compiler builds; a variable's node  *)
(* is named by its name and the place of the token that declares it, since   *)
(* two variables of one name are two nodes.                                  *)
EXTENDS Scopes

CONSTANT stod   \* external: the numbers that number tokens are read as

(* Where the parser is: the tokens (text, the last of them eof), the place   *)
(* before the next one (at, -1 at the start), the node returned, the nodes   *)
(* of the unit so far, what Scopes keeps of variables and functions, the     *)
(* errors reported, and what became of the process (fault).                  *)

Start(tokens) ==
    [text |-> tokens, at |-> -1, node |-> nullptr, childrens |-> << >>, vars |-> << >>,
     locals |-> << >>, functions |-> << >>, errors |-> {}, fault |-> "none"]

given(p, node) == [p EXCEPT !.node = node]
nothing(p)     == given(p, nullptr)
fails(p, why)  == [nothing(p) EXCEPT !.fault = IF @ = "none" THEN why ELSE @]
do_report(p, error) == [p EXCEPT !.errors = @ \cup {error}]
refused(p, error)   == nothing(do_report(p, error))

-----------------------------------------------------------------------------
(* The lexer, as TokenReader has it                                          *)

Token(p)    == p.text[p.at + 1]
Moved(p)    == IF p.at >= 0 /\ Token(p).type = "eof" THEN p.at ELSE p.at + 1
Ahead(p)    == p.text[Moved(p) + 1]
next(p)     == [p EXCEPT !.at = Moved(p)]
back(p)     == [p EXCEPT !.at = IF @ = -1 THEN @ ELSE @ - 1]
peek(p)     == [p EXCEPT !.at = Moved(p) - 1]
jump(p, at) == [p EXCEPT !.at = at]

IsAhead(p, str) == Ahead(p).str = str

-----------------------------------------------------------------------------
(* Expressions                                                               *)

UnaryOps == "+" :> "add" @@ "-" :> "sub" @@ "~" :> "reverse" @@ "!" :> "not"

TermOps ==
    "*" :> "mul" @@ "/" :> "div" @@ "%" :> "mod" @@ "&" :> "and" @@ "&&" :> "logical_and"
        @@ "**" :> "power" @@ ">>" :> "shr" @@ "<<" :> "shl"

\* A comparison is of the level of a sum.
ExprOps ==
    "+" :> "add" @@ "-" :> "sub" @@ "|" :> "or" @@ "^" :> "xor" @@ "||" :> "logical_or"
        @@ "==" :> "equal" @@ "!=" :> "not" @@ ">=" :> "greater_equal" @@ "<=" :> "less_equal"
        @@ ">" :> "greater" @@ "<" :> "less"

RECURSIVE parse_expr(_, _), more_terms(_, _), parse_term(_, _), more_factors(_, _), parse_factor(_, _),
          factor(_, _), parse_rhs(_, _), rhs_or_retry(_, _, _), retry_rhs(_, _), parse_ident_based(_, _),
          access(_, _), close_access(_, _), parse_function_call(_, _), arguments(_, _, _, _),
          argument(_, _, _, _, _)

number(p, token) == given(p, [nt |-> "number", value |-> stod[token.str]])
string(p, token) == given(p, [nt |-> "string", str |-> token.str])

\* Neither a null index nor a missing bracket is reported.
close_access(p, var) ==
    IF p.node = nullptr \/ ~IsAhead(p, "]")
    THEN nothing(p)
    ELSE next(given(p, [nt |-> "array_access", name |-> var.name, index |-> p.node]))

\* A variable, and the index after it if there is one.
access(p, parent) ==
    IF IsAhead(p, "[") THEN close_access(parse_expr(next(p), parent), p.node) ELSE p

called(p, name, args) ==
    given(get_function(p, name, Len(args)), [nt |-> "function_call", func |-> name, args |-> args])

\* What parse_rhs returned is an argument, null or not, if a comma or the end
\* comes after it. An argument that cannot be parsed leaves the parser at the
\* comma before it, which is taken for that: it is parsed again, for ever.
argument(p, parent, name, args, start) ==
    IF Token(p).type = "separator"
    THEN IF p.at = start THEN fails(p, "hang")
                         ELSE arguments(next(p), parent, name, Append(args, p.node))
    ELSE IF Token(p).str = ")" THEN called(p, name, Append(args, p.node))
                               ELSE refused(p, "expect_got")

\* From the name to the parenthesis that closes.
parse_function_call(p, parent) ==
    IF Token(next(p)).str = "("
    THEN arguments(next(next(p)), parent, Token(p).str, << >>)
    ELSE refused(next(p), "expect_got")

parse_ident_based(p, parent) ==
    LET var == get_var(p, parent, Token(p).str)
    IN  IF Token(p).str = "new"           THEN nothing(p)
        ELSE IF var # nullptr             THEN access(given(p, var), parent)
        ELSE IF Token(next(p)).str = "("  THEN parse_function_call(p, parent)
        ELSE refused(next(p), "var_not_found")

\* MUTANT: what cannot be parsed is not reported.
retry_rhs_Quiet(p, parent) ==
    CASE Ahead(p).type = "number" -> next(number(p, Ahead(p)))
      [] Ahead(p).type = "string" -> next(string(p, Ahead(p)))
      [] Ahead(p).type = "ident"  -> next(parse_ident_based(p, parent))
      [] OTHER                    -> nothing(peek(p))

\* The parser is back before what it could not parse. A name is not looked at
\* again, but the token before it.
retry_rhs(p, parent) ==
    CASE Ahead(p).type = "number" -> next(number(p, Ahead(p)))
      [] Ahead(p).type = "string" -> next(string(p, Ahead(p)))
      [] Ahead(p).type = "ident"  -> next(parse_ident_based(p, parent))
      [] OTHER                    -> refused(peek(p), "stmt_unable_parse")

rhs_or_retry(p, parent, start) ==
    IF p.node = nullptr THEN retry_rhs(jump(p, start), parent) ELSE next(p)

\* Ends after the expression.
parse_rhs(p, parent) == rhs_or_retry(parse_expr(p, parent), parent, p.at)

arguments(p, parent, name, args) ==
    IF Token(p).str = ")"
    THEN called(p, name, args)
    ELSE argument(parse_rhs(back(p), parent), parent, name, args, p.at - 1)

\* A unary operator takes the whole expression after it.
unary(p, op) == given(p, [nt |-> "unary", op |-> op, left |-> p.node])

closed(p) == IF Token(p).str = ")" THEN p ELSE refused(p, "expect_got")

\* An operator that is not unary is refused without a report.
factor(p, parent) ==
    LET token == Token(p)
    IN  CASE token.type = "op" ->
                IF token.str \in DOMAIN UnaryOps
                THEN unary(back(parse_rhs(p, parent)), UnaryOps[token.str])
                ELSE nothing(p)
          [] token.type = "number" -> number(p, token)
          [] token.type = "string" -> string(p, token)
          [] token.type \in {"ident", "keyword"} -> parse_ident_based(p, parent)
          [] token.type = "parentheses" ->
                IF token.str = "(" THEN closed(parse_rhs(p, parent)) ELSE refused(p, "expect_got")
          [] OTHER -> refused(p, "expect_after_got")

parse_factor(p, parent) == factor(next(p), parent)

caculate(p, op, left) ==
    given(p, [nt |-> "caculate", op |-> op, left |-> left, right |-> p.node])

\* MUTANT: what follows an operator of a sum is its right side, to the end.
more_terms_Right(p, parent) ==
    IF Ahead(p).type = "op" /\ Ahead(p).str \in DOMAIN ExprOps
    THEN caculate(parse_expr(next(p), parent), ExprOps[Ahead(p).str], p.node)
    ELSE peek(p)

\* Operations of one level group to the left.
more_factors(p, parent) ==
    IF Ahead(p).type = "op" /\ Ahead(p).str \in DOMAIN TermOps
    THEN more_factors(caculate(parse_factor(next(p), parent), TermOps[Ahead(p).str], p.node), parent)
    ELSE peek(p)

parse_term(p, parent) == more_factors(parse_factor(p, parent), parent)

more_terms(p, parent) ==
    IF Ahead(p).type = "op" /\ Ahead(p).str \in DOMAIN ExprOps
    THEN more_terms(caculate(parse_term(next(p), parent), ExprOps[Ahead(p).str], p.node), parent)
    ELSE peek(p)

\* Ends at the last token of the expression.
parse_expr(p, parent) == more_terms(parse_term(p, parent), parent)

-----------------------------------------------------------------------------
(* Assignments                                                               *)

RECURSIVE elements(_, _, _)

array(p, es) == given(p, [nt |-> "array", init_elements |-> es])

\* An element that cannot be parsed ends the array.
element(p, parent, es) ==
    IF p.node = nullptr THEN array(p, es)
    ELSE IF IsAhead(p, ")") THEN array(p, Append(es, p.node))
    ELSE IF Ahead(p).type = "separator" THEN elements(next(p), parent, Append(es, p.node))
    ELSE array(do_report(p, "expect_got"), Append(es, p.node))

elements(p, parent, es) ==
    IF IsAhead(p, ")") \/ Ahead(p).type = "eof"
    THEN array(peek(p), es)
    ELSE element(parse_expr(p, parent), parent, es)

\* Ends before the closing parenthesis.
parse_array(p, parent) ==
    IF IsAhead(p, "(") THEN elements(next(p), parent, << >>) ELSE nothing(p)

new_object(p) ==
    given(p, IF p.node = nullptr
             THEN [nt |-> "new_object", object_request |-> nullptr]
             ELSE [nt |-> "new_object", init_elements |-> p.node.init_elements])

\* What is not an array is null, without a report.
parse_new_object(p, parent) ==
    IF IsAhead(next(p), "array")
    THEN new_object(parse_array(next(next(p)), parent))
    ELSE nothing(next(p))

FastOps ==
    "+=" :> "add" @@ "-=" :> "sub" @@ "*=" :> "mul" @@ "/=" :> "div"
        @@ "&=" :> "and" @@ "|=" :> "or" @@ "^=" :> "xor"

\* Of two characters, the second a =: comparisons too, whose left side is then
\* assigned the right one.
AssignOps == {"=", "==", "!=", ">=", "<=", "~="} \cup DOMAIN FastOps

assign(p, lhs, op) ==
    given(p, [nt |-> "assign", left |-> lhs, right |->
        IF op \in DOMAIN FastOps
        THEN [nt |-> "caculate", op |-> FastOps[op], left |-> lhs, right |-> p.node]
        ELSE p.node])

Retried(token) ==
    token.type \in {"number", "string", "ident"} \/ token.str \in {"none", "(", "new"}

\* What was no expression, as parse_expr has reported unless it is new.
retry_right(p, parent) ==
    IF Ahead(p).type = "number"      THEN next(number(p, Ahead(p)))
    ELSE IF Ahead(p).type = "string" THEN next(string(p, Ahead(p)))
    ELSE IF IsAhead(p, "none")       THEN next(given(p, [nt |-> "null"]))
    ELSE IF IsAhead(p, "(")          THEN next(parse_array(p, parent))
    ELSE IF IsAhead(p, "new")        THEN next(parse_new_object(p, parent))
    ELSE next(parse_ident_based(p, parent))

\* Only a token that is none of these is refused: the right side may be null.
assign_or_retry(p, parent, lhs, op, start) ==
    IF p.node # nullptr THEN assign(p, lhs, op)
    ELSE IF Retried(Ahead(jump(p, start))) THEN assign(retry_right(jump(p, start), parent), lhs, op)
    ELSE refused(p, "expect_after")

\* From the last token of the left side.
parse_assign_node(p, parent, lhs) ==
    assign_or_retry(parse_expr(next(p), parent), parent, lhs, Ahead(p).str, next(p).at)

\* From before var to the name.
parse_var(p, parent) ==
    LET q    == next(next(p))
        name == Token(q)
    IN  IF name.type # "ident" THEN refused(q, "expect_after")
        ELSE IF get_var_nearest_scope(p, parent, name.str) THEN refused(q, "var_declared")
        ELSE IF ~\E scope \in ToSet(parent) : scope.nt = "function" THEN fails(q, "null")
        ELSE given(declare(q, parent, <<name.str, q.at>>), [nt |-> "var", name |-> <<name.str, q.at>>])

\* A variable that could not be declared is null, and assigned all the same.
parse_var_stmt(p, parent) ==
    IF IsAhead(p, "=")
    THEN parse_assign_node(p, parent, p.node)
    ELSE do_report(peek(p), "var_unintialized")

-----------------------------------------------------------------------------
(* Functions and blocks                                                      *)

RECURSIVE parse_stmt(_, _), parameters(_, _), function_stmts(_, _, _), add_function_stmt(_, _, _, _),
          block_stmts(_, _, _)

Returned(p) == IF p.node = nullptr THEN << >> ELSE <<p.node>>

\* A loop over statements is where it was before the last one: it parses that
\* for ever, unless the process is gone already.
Repeats(p, start) == p.at = start \/ p.fault # "none"

\* After a statement that is null.
skip(p) == IF p.node = nullptr THEN next(p) ELSE p

ret(p) == given(p, [nt |-> "ret", result |-> p.node])

\* MUTANT: the parser stays after the returned expression.
parse_return_After(p, parent) ==
    IF p.at = -1 THEN fails(p, "before_start") ELSE ret(parse_rhs(next(p), parent))

\* The node is made with the token before ret, which the first has none.
parse_return(p, parent) ==
    IF p.at = -1 THEN fails(p, "before_start") ELSE ret(back(parse_rhs(next(p), parent)))

after_parameter(p) ==
    IF Token(p).type = "separator" THEN next(p)
    ELSE IF Token(p).str = ")"     THEN p
    ELSE refused(p, "expect_got")

\* To the parenthesis that closes. Any other token than a comma is a parameter.
parameters(p, func) ==
    IF p.node = nullptr \/ Token(p).str = ")" THEN p
    ELSE IF Token(p).str = "," THEN parameters(next(p), func)
    ELSE parameters(after_parameter(next(declare(p, func, <<Token(p).str, p.at>>))), func)

\* Ends before the colon.
signature(p, func) ==
    IF Token(next(p)).str = "(" THEN parameters(next(next(p)), func) ELSE p

end_function(p, func, node) ==
    given(add_function(p, node.name, Len(node.args), "full_link"),
          [node EXCEPT !.local_vars = p.locals[Last(func)]])

\* To the dedent or the end.
function_stmts(p, func, node) ==
    IF Ahead(p).type \in {"eof", "dedent"}
    THEN end_function(next(p), func, node)
    ELSE add_function_stmt(parse_stmt(p, func), func, node, p.at)

\* A statement that is null loses a token.
add_function_stmt(p, func, node, start) ==
    IF Repeats(skip(p), start)
    THEN fails(p, "hang")
    ELSE function_stmts(skip(p), func, [node EXCEPT !.childrens = @ \o Returned(p)])

function_body(p, func, name) ==
    LET colon  == next(p)
        indent == next(colon)
    IN  IF p.node = nullptr THEN p
        ELSE IF Token(colon).type # "colon" THEN refused(colon, "expect_got")
        ELSE IF Token(indent).type # "indent" THEN refused(indent, "indentation_needed")
        ELSE function_stmts(indent, func,
                [nt |-> "function", name |-> name, args |-> p.locals[Last(func)],
                 local_vars |-> << >>, childrens |-> << >>])

\* From the name.
named_function(p, func) ==
    IF Token(p).type = "ident"
    THEN function_body(signature(given(p, [nt |-> "function"]), func), func, Token(p).str)
    ELSE refused(p, "expect_after")

parse_function(p, parent) ==
    LET name == next(next(p))
        func == Scope("function", name)
    IN  named_function(begin_locals(name, func), Append(parent, func))

block(p, stmts) == given(peek(p), [nt |-> "block", childrens |-> stmts])

\* Here a statement that is null is not passed over.
add_block_stmt(p, scopes, stmts, start) ==
    IF Repeats(p, start)
    THEN block(fails(p, "hang"), stmts)
    ELSE block_stmts(p, scopes, stmts \o Returned(p))

\* Ends before the dedent.
block_stmts(p, scopes, stmts) ==
    IF Ahead(p).type \in {"dedent", "eof"}
    THEN block(p, stmts)
    ELSE add_block_stmt(parse_stmt(p, scopes), scopes, stmts, p.at)

parse_provide_block(p, scopes) ==
    IF Ahead(p).type = "indent"
    THEN block_stmts(next(p), scopes, << >>)
    ELSE block(do_report(p, "indentation_needed"), << >>)

\* From the colon.
parse_block(p, parent) == parse_provide_block(p, Append(parent, Scope("block", p)))

if_else(p, condition, if_block, else_block) ==
    given(next(p), [nt |-> "if_else", condition |-> condition,
                    if_block |-> if_block.childrens, else_block |-> else_block])

\* An if ends at its dedent, and else is only looked for before it.
parse_else(p, parent, condition) ==
    LET colon == next(next(p))
        else(q) == if_else(q, condition, p.node, <<q.node.childrens>>)
    IN  IF ~IsAhead(p, "else") THEN if_else(p, condition, p.node, << >>)
        ELSE IF Token(colon).type = "colon" THEN else(parse_block(colon, parent))
        ELSE refused(colon, "expect_got")

if_block(p, parent) ==
    IF Token(next(p)).type = "colon"
    THEN parse_else(parse_block(next(p), parent), parent, p.node)
    ELSE refused(next(p), "expect_got")

parse_if_else(p, parent) == if_block(parse_expr(next(p), parent), parent)

unless(p, do_block) ==
    given(p, [nt |-> "if_else", condition |-> [nt |-> "unary", op |-> "not", left |-> p.node],
              if_block |-> do_block.childrens, else_block |-> << >>])

\* Without unless, it is a block.
parse_unless(p, parent) ==
    IF IsAhead(p, "unless") THEN unless(parse_expr(next(p), parent), p.node) ELSE peek(p)

parse_do_chain(p, parent) ==
    LET colon == next(next(p))
    IN  IF Token(colon).type = "colon"
        THEN parse_unless(next(parse_block(colon, parent)), parent)
        ELSE refused(colon, "expect_after")

-----------------------------------------------------------------------------
(* Loops                                                                     *)

RECURSIVE init_jobs(_, _, _), continue_conditions(_, _, _), end_jobs(_, _, _)

Loop == [nt |-> "conditional_loop", init_jobs |-> << >>, continue_conditions |-> << >>,
         do_block |-> << >>, end_jobs |-> << >>]

IsCondition(node) == node.nt \in {"caculate", "number"}

end_loop(p, loop) == given(next(p), [loop EXCEPT !.do_block = p.node.childrens])

\* A loop without a colon is a loop all the same, without a block.
while_block(p, parent, loop) ==
    IF Token(p).type = "colon"
    THEN end_loop(parse_block(p, parent), loop)
    ELSE given(do_report(p, "expect_after_got"), loop)

while_condition(p, parent) ==
    IF p.node = nullptr THEN fails(p, "null")
    ELSE IF IsCondition(p.node)
    THEN while_block(next(p), parent, [Loop EXCEPT !.continue_conditions = <<p.node>>])
    ELSE refused(p, "expect")

skip_separator(p) == IF Ahead(p).type = "separator" THEN next(p) ELSE p

(* The parts of a for, of which scopes are those of its block. What is wrong *)
(* after the initial jobs leaves the loop as it is by then.                  *)

\* From the closing parenthesis, if it began with one, or the colon.
for_block(p, for, loop) ==
    LET colon == IF for.parentheses THEN next(p) ELSE p
    IN  IF for.parentheses /\ Token(p).str # ")" THEN given(do_report(p, "expect_got"), loop)
        ELSE IF Token(colon).type # "colon" THEN given(do_report(colon, "expect_after_got"), loop)
        ELSE end_loop(parse_provide_block(colon, for.scopes), loop)

add_end_job(p, for, loop, start) ==
    IF p.node = nullptr THEN fails(p, "null")
    ELSE IF Repeats(skip_separator(p), start) THEN fails(p, "hang")
    ELSE end_jobs(skip_separator(p), for, [loop EXCEPT !.end_jobs = Append(@, p.node)])

end_jobs(p, for, loop) ==
    IF Ahead(p).type \in {"parentheses", "eof", "colon"}
    THEN for_block(next(p), for, loop)
    ELSE add_end_job(parse_stmt(p, for.scopes), for, loop, p.at)

add_condition(p, for, loop) ==
    IF p.node = nullptr THEN given(p, loop)
    ELSE IF IsCondition(p.node)
    THEN continue_conditions(skip_separator(p), for,
            [loop EXCEPT !.continue_conditions = Append(@, p.node)])
    ELSE given(do_report(p, "loop_condition_only"), loop)

continue_conditions(p, for, loop) ==
    IF Ahead(p).type \in {"semicolon", "eof"}
    THEN end_jobs(next(p), for, loop)
    ELSE add_condition(parse_stmt(p, for.scopes), for, loop)

NoMoreJobs(p) == Ahead(p).type \in {"semicolon", "eof"}

RepeatsJob(p, start) == Repeats(p, start) /\ (NoMoreJobs(p) => p.fault # "none")

add_init_job(p, for, loop, start) ==
    IF RepeatsJob(skip_separator(p), start)
    THEN fails(p, "hang")
    ELSE init_jobs(skip_separator(p), for, [loop EXCEPT !.init_jobs = @ \o Returned(p)])

init_job(p, for, loop) == add_init_job(parse_stmt(p, for.scopes), for, loop, p.at)

init_jobs(p, for, loop) ==
    IF NoMoreJobs(p) THEN continue_conditions(next(p), for, loop) ELSE init_job(p, for, loop)

\* Behind a parenthesis there is a first job, or an error where it should be:
\* the loop's first test is of the parenthesis, peeked at before it was taken.
all_init_jobs(p, for) ==
    IF for.parentheses THEN init_job(next(p), for, Loop) ELSE init_jobs(peek(p), for, Loop)

\* MUTANT: the variables of the initial jobs belong to what is around the loop.
for_loop_Outside(p, parent) ==
    all_init_jobs(p, [scopes |-> parent, parentheses |-> IsAhead(p, "(")])

for_loop(p, parent) ==
    LET scope == Scope("block", IF IsAhead(p, "(") THEN next(p) ELSE peek(p))
    IN  all_init_jobs(p, [scopes |-> Append(parent, scope), parentheses |-> IsAhead(p, "(")])

parse_conditional_loop(p, parent) ==
    IF IsAhead(p, "while")
    THEN while_condition(parse_stmt(next(p), parent), parent)
    ELSE for_loop(next(p), parent)

-----------------------------------------------------------------------------
(* Statements                                                                *)

\* In a block of the unit as in a function, it is refused.
parse_uses(p, parent) ==
    LET name == next(next(p))
        ref  == [nt |-> "unit_ref", name |-> Token(name).str]
    IN  IF parent # << >> THEN refused(p, "invalid_use")
        ELSE IF Token(name).type = "ident" THEN given(name, ref)
        ELSE given(do_report(name, "expect_got"), ref)

\* From the last token of what was read: an index is read again as an
\* expression, from its bracket.
assign_or_expr(p, parent) ==
    IF p.node = nullptr THEN p
    ELSE IF Ahead(p).str \in AssignOps THEN parse_assign_node(p, parent, p.node)
    ELSE parse_expr(back(p), parent)

\* A statement that starts with a name.
parse_named(p, parent) ==
    LET var == get_var(p, parent, Token(p).str)
    IN  IF var # nullptr          THEN assign_or_expr(access(given(p, var), parent), parent)
        ELSE IF IsAhead(p, "(")   THEN parse_function_call(p, parent)
        ELSE refused(p, "var_not_found")

\* From before its first token to its last.
parse_stmt(p, parent) ==
    IF Ahead(p).type \notin {"ident", "keyword"}
    THEN refused(peek(p), "stmt_unable_parse")
    ELSE CASE IsAhead(p, "var")  -> parse_var_stmt(parse_var(p, parent), parent)
           [] IsAhead(p, "fn")   -> parse_function(p, parent)
           [] IsAhead(p, "ret")  -> parse_return(p, parent)
           [] IsAhead(p, "if")   -> parse_if_else(p, parent)
           [] IsAhead(p, "do")   -> parse_do_chain(p, parent)
           [] IsAhead(p, "uses") -> parse_uses(p, parent)
           [] Ahead(p).str \in {"for", "while"} -> parse_conditional_loop(p, parent)
           [] OTHER -> parse_named(next(p), parent)

=============================================================================
