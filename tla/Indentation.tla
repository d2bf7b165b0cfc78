---------------------------- MODULE Indentation ----------------------------
(* generate_indent_dedent: the layout tokens of a line, from the indentation  *)
(* of the line and those of the blocks that are open, outermost first.       *)
EXTENDS Integers, Sequences, FiniteSets

\* A token: its type, the line it is of, and its place there, 0 if it is layout.
Token(type, row, place) == [type |-> type, row |-> row, place |-> place]

Top(stack) == stack[Len(stack)]

\* The levels that a line is deeper than, or as deep as: the stack is sorted.
Kept(stack, indent) == Cardinality({k \in DOMAIN stack : stack[k] <= indent})

\* MUTANT: a level between two open ones is put above the lower.
Stack_Between(stack, indent) ==
    LET kept == SubSeq(stack, 1, Kept(stack, indent))
    IN  IF indent > Top(kept) THEN Append(kept, indent) ELSE kept

\* MUTANT: any other indentation is put on the stack.
Stack_Other(stack, indent) == IF indent = Top(stack) THEN stack ELSE Append(stack, indent)

\* A level between two open ones closes the upper, and opens nothing.
Stack(stack, indent) ==
    IF indent > Top(stack)
    THEN Append(stack, indent)
    ELSE SubSeq(stack, 1, Kept(stack, indent))

\* MUTANT: one block is closed at most.
Layout_Once(stack, indent, row) ==
    CASE indent > Top(stack) -> <<Token("indent", row, 0)>>
      [] indent < Top(stack) -> <<Token("dedent", row, 0)>>
      [] OTHER -> << >>

\* generate_indent_dedent
Layout(stack, indent, row) ==
    IF indent > Top(stack)
    THEN <<Token("indent", row, 0)>>
    ELSE [k \in 1..(Len(stack) - Kept(stack, indent)) |-> Token("dedent", row, 0)]

=============================================================================
