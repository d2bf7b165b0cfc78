------------------------------- MODULE Nodes -------------------------------
(* Writing nodes: those that the parser makes and the compiler reads, a       *)
(* record for each, its node_type in nt. A variable's node is its name.      *)
EXTENDS Sequences

nullptr       == [nt |-> "nullptr"]
str(s)        == [nt |-> "string", str |-> s]
num(n)        == [nt |-> "number", value |-> n]
var(x)        == [nt |-> "var", name |-> x]
at(x, i)      == [nt |-> "array_access", name |-> x, index |-> i]
unary(o, e)   == [nt |-> "unary", op |-> o, left |-> e]
calc(o, l, r) == [nt |-> "caculate", op |-> o, left |-> l, right |-> r]
callf(f, es)  == [nt |-> "function_call", func |-> f, args |-> es]
array(es)     == [nt |-> "new_object", init_elements |-> es]
assign(l, r)  == [nt |-> "assign", left |-> l, right |-> r]
ret(e)        == [nt |-> "ret", result |-> e]
if(c, b)      == [nt |-> "if_else", condition |-> c, if_block |-> b, else_block |-> << >>]
while(c, b)   == [nt |-> "conditional_loop", init_jobs |-> << >>, continue_conditions |-> <<c>>,
                  do_block |-> b, end_jobs |-> << >>]
uses(u)       == [nt |-> "unit_ref", name |-> u]

for(init, cs, end, b) ==
    [nt |-> "conditional_loop", init_jobs |-> init, continue_conditions |-> cs,
     do_block |-> b, end_jobs |-> end]

fn(f, args, locals, body) ==
    [nt |-> "function", name |-> f, args |-> args, local_vars |-> args \o locals, childrens |-> body]

\* x = x + 1
increment(x) == assign(var(x), calc("add", var(x), num(1)))

=============================================================================
