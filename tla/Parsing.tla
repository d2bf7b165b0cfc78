------------------------------ MODULE Parsing ------------------------------
(* do_parsing: the statements of a unit, one after the other. Beside it is   *)
(* how a unit's nodes are written, which is what the parser has to read back. *)
EXTENDS Parser

CONSTANT
    Sources   \* the sources there are: their tokens and, of those that are of
              \* the language, what they say in full (see ReadsBack)

VARIABLES
    parser,
    longhand   \* what the source says, << >> if that is nothing

vars == <<parser, longhand>>

Alive == parser.fault = "none"

AtEnd == Ahead(parser).type = "eof"

Ended == AtEnd \/ ~Alive

Init ==
    \E source \in Sources :
        /\ parser = Start(source.text)
        /\ longhand = source.longhand

\* After a statement: one that is null loses a token.
Passed(p) == IF p.node = nullptr THEN next(p) ELSE p

\* A statement that leaves the parser where it was is parsed again, for ever.
Moves(p) == IF Repeats(Passed(p), parser.at) THEN fails(p, "hang") ELSE p

\* The parser after the next statement.
Parsed == Moves(parse_stmt(parser, << >>))

Adds(p) ==
    /\ p.fault = "none" /\ p.node # nullptr
    /\ parser' = [p EXCEPT !.childrens = Append(@, p.node)]

Skips(p) ==
    /\ p.fault = "none" /\ p.node = nullptr
    /\ parser' = Passed(p)

Fails(p) ==
    /\ p.fault # "none"
    /\ parser' = [parser EXCEPT !.errors = p.errors, !.fault = p.fault]

Next ==
    /\ ~Ended
    /\ \E p \in {Parsed} : Adds(p) \/ Skips(p) \/ Fails(p)
    /\ UNCHANGED longhand

Spec == Init /\ [][Next]_vars

-----------------------------------------------------------------------------
(* Nodes as words: a word is its characters, and the place that declares the *)
(* variable it names, 0 if it names none.                                    *)

word(s) == <<<<s, 0>>>>

Spelling ==
    [add |-> "+", sub |-> "-", or |-> "|", xor |-> "^", logical_or |-> "||", equal |-> "==",
     not |-> "!=", greater |-> ">", greater_equal |-> ">=", less |-> "<", less_equal |-> "<=",
     mul |-> "*", and |-> "&", logical_and |-> "&&", power |-> "**", shl |-> "<<", shr |-> ">>"]

UnarySpelling == [add |-> "+", sub |-> "-", reverse |-> "~", not |-> "!"]

Tight == {"mul", "and", "logical_and", "power", "shl", "shr"}

\* How tight a node holds together.
Level(e) ==
    CASE e.nt = "unary" -> 0
      [] e.nt = "caculate" -> IF e.op \in Tight THEN 2 ELSE 1
      [] OTHER -> 3

Joined(seqs, between) ==
    FoldLeft(LAMBDA s, t : IF s = << >> THEN t ELSE s \o between \o t, << >>, seqs)

Flattened(seqs) == FoldLeft(LAMBDA s, t : s \o t, << >>, seqs)

RECURSIVE Written(_)

Operand(e, level) ==
    IF Level(e) < level THEN word("(") \o Written(e) \o word(")") ELSE Written(e)

List(es) == Joined([i \in DOMAIN es |-> Written(es[i])], word(","))

Block(stmts) ==
    word(":") \o word("{") \o Flattened([i \in DOMAIN stmts |-> Written(stmts[i])]) \o word("}")

Written(n) ==
    CASE n.nt = "nullptr"       -> << >>
      [] n.nt = "null"          -> word("none")
      [] n.nt = "number"        -> word(CHOOSE s \in DOMAIN stod : stod[s] = n.value)
      [] n.nt = "string"        -> word(n.str)
      [] n.nt = "var"           -> <<n.name>>
      [] n.nt = "array_access"  -> <<n.name>> \o word("[") \o Written(n.index) \o word("]")
      [] n.nt = "unary"         -> word(UnarySpelling[n.op]) \o Written(n.left)
      [] n.nt = "caculate"      ->
            Operand(n.left, Level(n)) \o word(Spelling[n.op]) \o Operand(n.right, Level(n) + 1)
      [] n.nt = "function_call" -> word(n.func) \o word("(") \o List(n.args) \o word(")")
      [] n.nt = "array"         -> word("(") \o List(n.init_elements) \o word(")")
      [] n.nt = "new_object"    ->
            word("new") \o word("array") \o
                (IF "init_elements" \in DOMAIN n THEN word("(") \o List(n.init_elements) \o word(")") ELSE << >>)
      [] n.nt = "assign"        -> Written(n.left) \o word("=") \o Written(n.right)
      [] n.nt = "ret"           -> word("ret") \o Written(n.result)
      [] n.nt = "unit_ref"      -> word("uses") \o word(n.name)
      [] n.nt = "block"         -> word("do") \o Block(n.childrens)
      [] n.nt = "if_else"       -> word("if") \o Written(n.condition) \o Block(n.if_block)
      [] n.nt = "conditional_loop" /\ n.init_jobs \o n.end_jobs = << >> ->
            word("while") \o List(n.continue_conditions) \o Block(n.do_block)
      [] n.nt = "conditional_loop" /\ n.init_jobs \o n.end_jobs # << >> ->
            word("for") \o List(n.init_jobs) \o word(";") \o List(n.continue_conditions)
                \o word(";") \o List(n.end_jobs) \o Block(n.do_block)
      [] n.nt = "function"      ->
            word("fn") \o word(n.name) \o word("(") \o Joined([i \in DOMAIN n.args |-> <<n.args[i]>>], word(","))
                \o word(")") \o Block(n.childrens)

-----------------------------------------------------------------------------
(* Properties                                                                *)

SameFunction(f, g) == f.name = g.name /\ f.argc = g.argc

\* The parser stands at one of its tokens, and a function is made external once
\* at most, before any other of its name and number of arguments: get_function
\* finds the same node for every call. Variables are declared by tokens one
\* behind the other, and behind their scope's, whatever was read again: what
\* Scoping takes for granted.
TypeOK ==
    /\ parser.text \in Seq([type : STRING, str : STRING])
    /\ parser.at \in -1..(Len(parser.text) - 1)
    /\ parser.fault \in {"none", "hang", "null", "before_start"}
    /\ parser.functions \in Seq([name : STRING, argc : Nat, type : {"external", "full_link"}])
    /\ \A i, j \in DOMAIN parser.functions :
            i < j /\ SameFunction(parser.functions[i], parser.functions[j]) =>
                parser.functions[j].type = "full_link"
    /\ \A i \in DOMAIN parser.vars : parser.vars[i].scope.place < parser.vars[i].name[2]
    /\ \A i, j \in DOMAIN parser.vars : i < j => parser.vars[i].name[2] < parser.vars[j].name[2]

Characters(words) == [i \in DOMAIN words |-> words[i][1]]

Unit == Flattened([i \in DOMAIN parser.childrens |-> Written(parser.childrens[i])])

\* A source of the language has no errors, and its nodes are what it says:
\* written in full, with every operation in parentheses that its level does
\* not give, they are its longhand. So no token is lost or read twice however
\* often the parser looks ahead, goes back and jumps, and each block ends at its
\* own dedent.
ReadsBack ==
    Ended /\ longhand # << >> =>
        /\ Alive /\ parser.errors \subseteq {"var_unintialized"}
        /\ Characters(Unit) = longhand

\* The text, its places counted from 1.
Str(k) == parser.text[k].str

Between(h, k, str) == \E j \in h..k : Str(j) = str

\* Before the colon of a function or a loop.
InHeader(k) == \E h \in 1..(k - 2) : Str(h) \in {"fn", "for"} /\ ~Between(h, k, ":")

IsName(k) == parser.text[k].type = "ident" /\ Str(k + 1) # "(" /\ ~(k > 1 /\ Str(k - 1) \in {"fn", "uses"})

Declares(k) ==
    /\ IsName(k)
    /\ Str(k - 1) = "var" \/ \E h \in 1..(k - 2) : Str(h) = "fn" /\ ~Between(h, k, ":")

Depth(d, e) == Quantify(d..e, LAMBDA j : Str(j) = "{") - Quantify(d..e, LAMBDA j : Str(j) = "}")

\* What place d declares is still in scope at e: the block around it has not
\* ended, or that of the function or loop it belongs to.
Open(d, e) ==
    \A j \in d..e : IF InHeader(d) THEN Str(j) = "}" => Depth(d, j) > 0 ELSE Depth(d, j) >= 0

Declarations(k) == {d \in 1..k : Declares(d) /\ Str(d) = Str(k) /\ Open(d, k)}

\* The words of the text, a variable's with the innermost declaration of it.
Resolved ==
    LET words == [k \in 1..(Len(parser.text) - 1) |->
            <<Str(k), IF IsName(k) THEN Max(Declarations(k)) - 1 ELSE 0>>]
    IN  SelectSeq(words, LAMBDA w : w[1] # "var")

\* A name means the variable that the innermost block around it declares, up
\* to where that block ends: the parser keeps its scopes along its calls, the
\* reference counts the indents and dedents of the text. (Of a source that is
\* its own longhand.)
NamesResolve ==
    Ended /\ longhand # << >> /\ Characters(Resolved) = longhand =>
        Unit = Resolved

Functions == {n \in ToSet(parser.childrens) : n.nt = "function"}

\* A function that has no function inside.
Flat(func) == Quantify(DOMAIN Written(func), LAMBDA k : Written(func)[k][1] = "fn") = 1

\* Every variable that a function names, of whatever block, is one of its local
\* variables, where ir_compiler looks it up and without a report emits nothing
\* for one that is not there: whatever the source is.
VariablesAreLocal ==
    \A func \in Functions :
        Flat(func) => \A w \in ToSet(Written(func)) : w[2] # 0 => w \in ToSet(func.local_vars)

\* A parse that does not end has something reported by the time it hangs: none
\* of the loops that never end is entered in silence.
HangsReport == parser.fault = "hang" => parser.errors # {}

=============================================================================
