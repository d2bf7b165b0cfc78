------------------------------- MODULE Scopes -------------------------------
(* The variables and functions that parser knows, and how it looks them up.  *)
(* The parse_* functions of Parser use these operators where their code is   *)
(* parsed, and Scoping is whatever they can do with them.                    *)
EXTENDS Integers, SequencesExt

(* Of where the parser is (see Parser), this is about the place of the token *)
(* it has read last (at), the variables in the order of their declaration,   *)
(* each with its scope (vars), the local variables of each function that was *)
(* begun (locals), and the functions get_function finds (functions).         *)
(* A parent is the scopes around a node, the innermost last: functions and   *)
(* blocks, each with the place where it starts. The unit is << >>.           *)

nullptr == [nt |-> "nullptr"]

Scope(nt, p) == [nt |-> nt, place |-> p.at]

\* The first variable of that name in a scope, 0 if there is none.
InScope(p, scope, name) ==
    SelectInSeq(p.vars, LAMBDA v : v.scope = scope /\ v.name[1] = name)

\* MUTANT: the outermost variable of a name is found.
get_var_Outermost(p, parent, name) ==
    LET i == SelectInSeq(parent, LAMBDA scope : InScope(p, scope, name) > 0)
    IN  IF i = 0 THEN nullptr ELSE [nt |-> "var", name |-> p.vars[InScope(p, parent[i], name)].name]

get_var(p, parent, name) ==
    LET i == SelectLastInSeq(parent, LAMBDA scope : InScope(p, scope, name) > 0)
    IN  IF i = 0 THEN nullptr ELSE [nt |-> "var", name |-> p.vars[InScope(p, parent[i], name)].name]

get_var_nearest_scope(p, parent, name) == parent # << >> /\ InScope(p, Last(parent), name) > 0

\* A function begins without local variables.
begin_locals(p, func) ==
    [p EXCEPT !.locals = [f \in DOMAIN @ \cup {func} |-> IF f = func THEN << >> ELSE @[f]]]

\* MUTANT: only what is declared in a function's own scope joins its variables.
declare_Own(p, parent, name) ==
    [p EXCEPT !.vars = Append(@, [name |-> name, scope |-> Last(parent)]),
              !.locals = IF Last(parent).nt = "function" THEN [@ EXCEPT ![Last(parent)] = Append(@, name)] ELSE @]

\* A variable belongs to the nearest scope, and to the local variables of the
\* nearest function.
declare(p, parent, name) ==
    [p EXCEPT !.vars = Append(@, [name |-> name, scope |-> Last(parent)]),
              !.locals[parent[SelectLastInSeq(parent, LAMBDA scope : scope.nt = "function")]] = Append(@, name)]

\* The first function of that name and number of arguments, 0 if there is none.
FindFunction(p, name, argc) ==
    SelectInSeq(p.functions, LAMBDA f : f.name = name /\ f.argc = argc)

add_function(p, name, argc, type) ==
    [p EXCEPT !.functions = Append(@, [name |-> name, argc |-> argc, type |-> type])]

\* MUTANT: a function that is known as an external one is made again.
get_function_Again(p, name, argc) ==
    IF \E f \in ToSet(p.functions) : f.name = name /\ f.argc = argc /\ f.type = "full_link" THEN p
    ELSE add_function(p, name, argc, "external")

\* A function that is not known yet becomes an external one, also when it is
\* the one being parsed.
get_function(p, name, argc) ==
    IF FindFunction(p, name, argc) > 0 THEN p ELSE add_function(p, name, argc, "external")

=============================================================================
