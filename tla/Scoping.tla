------------------------------ MODULE Scoping ------------------------------
(* Whatever the parser can do with variables and functions: functions and    *)
(* blocks in any nesting, and in each any declarations and calls, by the     *)
(* operators of Scopes in the order in which the parse_* functions use them. *)
(* What the tokens are is left open; what stays is that a node is ended      *)
(* after those begun in it, what C++'s calls and returns give, and that each *)
(* declaration or scope is read from a token behind those before it.         *)
EXTENDS Scopes

CONSTANTS
    Names,       \* of variables
    Functions,   \* names of functions
    Arities,     \* numbers of arguments
    MaxAt        \* bound on the scopes and declarations that are read

VARIABLES
    parser,    \* what Scopes keeps
    parents,   \* the scopes around what is parsed next, the innermost last
    header,    \* between a function's name and its colon
    calls      \* the calls so far, each with the place in parser.functions of
               \* the node it was given

vars == <<parser, parents, header, calls>>

ASSUME ScopingAssumption == Arities \subseteq Nat

Init ==
    /\ parser = [at |-> 0, vars |-> << >>, locals |-> << >>, functions |-> << >>]
    /\ parents = << >>
    /\ header = FALSE
    /\ calls = {}

\* The parser at a token behind the last one.
Read == [parser EXCEPT !.at = @ + 1]

Room == parser.at < MaxAt

parse_function ==
    /\ ~header /\ Room
    /\ LET func == Scope("function", Read)
       IN  parser' = begin_locals(Read, func) /\ parents' = Append(parents, func)
    /\ header' = TRUE
    /\ UNCHANGED calls

\* Nobody asks if there is a parameter of that name already.
Parameter ==
    /\ header /\ Room
    /\ \E name \in Names : parser' = declare(Read, parents, <<name, Read.at>>)
    /\ UNCHANGED <<parents, header, calls>>

Colon == header /\ header' = FALSE /\ UNCHANGED <<parser, parents, calls>>

\* Of an if, an else, a do, a while or a for, in a function or the unit.
parse_block ==
    /\ ~header /\ Room
    /\ parser' = Read /\ parents' = Append(parents, Scope("block", Read))
    /\ UNCHANGED <<header, calls>>

parse_var ==
    /\ ~header /\ Room
    /\ \E scope \in ToSet(parents) : scope.nt = "function"
    /\ \E name \in Names :
        /\ ~get_var_nearest_scope(parser, parents, name)
        /\ parser' = declare(Read, parents, <<name, Read.at>>)
    /\ UNCHANGED <<parents, header, calls>>

\* The function that is made is the last.
Given(name, argc) ==
    LET known == FindFunction(parser, name, argc)
    IN  IF known > 0 THEN known ELSE Len(parser'.functions)

parse_function_call ==
    /\ ~header
    /\ \E name \in Functions, argc \in Arities :
        /\ parser' = get_function(parser, name, argc)
        /\ calls' = calls \cup {[name |-> name, argc |-> argc, node |-> Given(name, argc)]}
    /\ UNCHANGED <<parents, header>>

Ends(nt) == parents # << >> /\ Last(parents).nt = nt /\ parents' = Front(parents)

end_block == ~header /\ Ends("block") /\ UNCHANGED <<parser, header, calls>>

end_function ==
    /\ ~header /\ Ends("function")
    /\ \E name \in Functions, argc \in Arities :
            parser' = add_function(parser, name, argc, "full_link")
    /\ UNCHANGED <<header, calls>>

\* A function that is refused before its statements is none.
refuse_function == header /\ Ends("function") /\ header' = FALSE /\ UNCHANGED <<parser, calls>>

\* do_parsing has come to the end of the unit.
AtEnd == parents = << >>

Next ==
    \/ parse_function \/ Parameter \/ Colon \/ parse_block \/ parse_var
    \/ parse_function_call \/ end_block \/ end_function \/ refuse_function
    \/ (AtEnd /\ UNCHANGED vars)

Spec == Init /\ [][Next]_vars

-----------------------------------------------------------------------------
(* Properties                                                                *)

Meaning(parent, name) ==
    LET var == get_var(parser, parent, name) IN IF var = nullptr THEN << >> ELSE var.name

\* What the names mean in each scope around the parser, the unit first.
Meanings ==
    [k \in 1..(Len(parents) + 1) |-> [name \in Names |-> Meaning(SubSeq(parents, 1, k - 1), name)]]

Newest == IF parser.vars = << >> THEN << >> ELSE Last(parser.vars).name

Environ == INSTANCE Environment WITH meanings <- Meanings, newest <- Newest

\* Walking up from a node over what was declared in each scope, names mean what
\* they mean to a reader of the language: the innermost declaration around
\* them, and after the end of a block what they meant before it. So no scope
\* that has ended, and no other of the same place, lends a variable to another.
ImplementsEnvironment == Environ!Spec

Holders(var) == {func \in DOMAIN parser.locals : var \in ToSet(parser.locals[func])}

\* What a name means is among the local variables of one function, which is
\* around it: a declaration finds its function by another walk than its scope.
\* In a function that is in no other, these are the function's own, where the
\* compiler looks every variable up and emits nothing for one it misses.
LocalToOne ==
    \A name \in Names :
        LET var == Meaning(parents, name)
        IN  var # << >> => \E func \in ToSet(parents) : func.nt = "function" /\ Holders(var) = {func}

SameFunction(f, g) == f.name = g.name /\ f.argc = g.argc

\* The calls of one name and number of arguments have the same node, the one
\* that the next call gets too, and an external one is made once: neither a
\* call within the function nor its end, nor another function of that name,
\* changes what a call refers to.
CallsAgree ==
    /\ \A c \in calls : c.node = FindFunction(parser, c.name, c.argc)
    /\ \A i, j \in DOMAIN parser.functions :
            i < j /\ SameFunction(parser.functions[i], parser.functions[j]) =>
                parser.functions[j].type = "full_link"

=============================================================================
