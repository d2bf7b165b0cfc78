----------------------------- MODULE RefLedger -----------------------------
(* The interpreter with a ledger of the references it moves without telling  *)
(* the reference manager, which says exactly how far the counters are from   *)
(* the references there are. The ledger is a history: it restricts nothing.  *)
EXTENDS Interpreter

VARIABLES
    unpushed,   \* unpushed[o]: returned references to o, put on the caller's stack uncounted
    unpopped,   \* unpopped[o]: references to o that left a stack uncounted
    forged      \* an array has held a reference: strelm leaves its id undefined

ledger_vars == <<vars, unpushed, unpopped, forged>>

Ids == 1..MaxRefId

\* References to o on the evaluation stacks, and how many there are.
StackPlaces(o) == UNION {{i} \X Places(o, func_contexts[i].stack) : i \in 1..Depth}

OnStacks(o) == Cardinality(StackPlaces(o))

LedgerInit ==
    /\ Init
    /\ unpushed = [o \in Ids |-> 0]
    /\ unpopped = [o \in Ids |-> 0]
    /\ forged = FALSE

\* A context is left, with or without a value; arguments are taken.
Leaves   == Depth > 0 /\ Len(func_contexts') = Depth - 1
Returns  == Leaves /\ instr.op = "ret" /\ Has(1)
TakesArgs == Decodes({"met"}) /\ func_contexts' # func_contexts

Uncounted(o) ==
    CASE TakesArgs -> Occurrences(o, func_contexts'[Depth].args)
      [] Leaves /\ ~Returns -> Occurrences(o, top.stack)
      [] OTHER -> 0

LedgerNext ==
    /\ Next
    /\ unpushed' = [o \in Ids |-> unpushed[o] + IF Returns /\ IsRefTo(el1, o) THEN 1 ELSE 0]
    /\ unpopped' = [o \in Ids |-> unpopped[o] + Uncounted(o)]
    /\ forged' = (forged \/ \E o \in DOMAIN objects : \E k \in DOMAIN objects[o].elements :
                                objects[o].elements[k].type = "ref")

LedgerSpec == LedgerInit /\ [][LedgerNext]_ledger_vars

-----------------------------------------------------------------------------
(* Properties                                                                *)

\* Conservation: the counter of a live object is one more than the references
\* to it on evaluation stacks, but for those the ledger lists. Every other
\* handler, error paths included, keeps counters and stacks in step.
CountersBalance ==
    ~forged => \A o \in DOMAIN objects :
        objects[o].ref_counter + unpushed[o] = 1 + OnStacks(o) + unpopped[o]

\* An object is destroyed only if some function returned it: a reference that
\* never crosses a ret keeps its object alive to the end of the program.
GoneOnlyIfReturned ==
    ~forged => \A o \in 1..ref_id : o \notin DOMAIN objects => unpushed[o] > 0

\* ids are never reused: what was destroyed stays destroyed, so a stale
\* reference finds nothing, never another array.
NeverReborn ==
    [][\A o \in 1..ref_id : o \in DOMAIN objects' => o \in DOMAIN objects]_ledger_vars

=============================================================================
