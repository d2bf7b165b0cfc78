--------------------------- MODULE Interpreter ---------------------------
(* ir_interpreter: the stack machine that runs the binary of a compiled     *)
(* unit. interpret() runs one opcode of the innermost function context at a *)
(* time until no context is left; each handler is one action. Programs keep *)
(* the byte layout of the binary (an instruction is found at its address,   *)
(* and pc advances by the bytes the handler skips), because half of what    *)
(* can go wrong here is a pc that lands on an operand.                      *)
EXTENDS Bytecode

CONSTANTS
    Programs,   \* the programs considered; Init picks one
    Holes,      \* Holes[s] is the number of "{}" in string s
    MaxDepth,   \* bound on nested function contexts (std::bad_alloc past it)
    MaxStack,   \* bound on one evaluation stack (std::bad_alloc past it)
    MaxRefId,   \* bound on objects ever created (std::bad_alloc past it)
    MaxRuns     \* bound on calls the host makes into the program

VARIABLES
    prog,           \* the loaded units, and what the host calls in them
    func_contexts,  \* sequence of function contexts, innermost last
    last_context,   \* pointer to the caller: an index, NULL or Garbage
    objects,        \* the reference manager's live objects
    ref_id,         \* the last object id handed out
    runs,           \* calls made by the host
    fault           \* why execution cannot go on, "none" while it can

vars == <<prog, func_contexts, last_context, objects, ref_id, runs, fault>>

ASSUME InterpreterAssumption ==
    /\ \A p \in Programs : WellFormed(p)
    /\ Holes \in [Strs -> Nat]
    /\ {MaxDepth, MaxStack, MaxRefId, MaxRuns} \subseteq Nat \ {0}

-----------------------------------------------------------------------------
(* Function contexts                                                         *)

Garbage == -1   \* last_context before the first call assigns it

NewContext(u, f) ==
    [unit |-> u, func |-> f, pc |-> 0, stack |-> << >>, slots |-> << >>, args |-> << >>]

Depth == Len(func_contexts)
top   == func_contexts[Depth]
code  == prog.units[top.unit].funcs[top.func]
instr == code[top.pc]
next_pc == top.pc + Width(instr.op)

\* local_slots and local_args as partial functions: what is missing was
\* never assigned, and is an element of type none.
Local(locals, i) == IF i \in DOMAIN locals THEN locals[i] ELSE NoneElement

Assign(locals, i, el) ==
    [j \in DOMAIN locals \cup {i} |-> IF j = i THEN el ELSE locals[j]]

\* Loading moves the element out of its slot.
Unload(locals, i) ==
    IF i \in DOMAIN locals THEN [locals EXCEPT ![i] = Moved(@)] ELSE locals

\* MUTANT: the index is only known not to be negative.
InRange_Unchecked(idx, size) == idx < 128

\* The handlers compare a (signed) char with a size_t: a byte above 127
\* becomes a huge index.
InRange(idx, size) == idx < 128 /\ idx < size

IndexOK(i) == InRange(i.idx, IF i.op \in SlotOps THEN Slots ELSE Args)

\* The evaluation stack of the innermost context: k-th element from the top
\* (0 is the top), the n topmost, and what is under them.
Has(n)    == Len(top.stack) >= n
Peek(k)   == top.stack[Len(top.stack) - k]
Popped(n) == SubSeq(top.stack, Len(top.stack) - n + 1, Len(top.stack))
Rest(n)   == SubSeq(top.stack, 1, Len(top.stack) - n)
Room      == Len(top.stack) < MaxStack

Running == fault = "none" /\ Depth > 0 /\ top.pc \in DOMAIN code

Decodes(ops) == Running /\ instr.op \in ops

\* The handler leaves context c on top, and objects objs.
Continue(c, objs) ==
    /\ func_contexts' = [func_contexts EXCEPT ![Depth] = c]
    /\ objects' = objs
    /\ UNCHANGED <<prog, last_context, ref_id, runs, fault>>

\* The handler moves to pc, leaving stack.
Goto(pc, stack, objs) == Continue([top EXCEPT !.pc = pc, !.stack = stack], objs)

\* What pops n elements and pushes one does to stack and counters.
Replace(n, el) == Goto(next_pc, Append(Rest(n), el), DoPush(DoPop(objects, Popped(n)), el))

Drop(n) == Goto(next_pc, Rest(n), DoPop(objects, Popped(n)))

Fault(kind) ==
    /\ fault' = kind
    /\ UNCHANGED <<prog, func_contexts, last_context, objects, ref_id, runs>>

-----------------------------------------------------------------------------
(* Loads and stores                                                          *)

\* ldcst and ldcststr check what they find in the data section.
ExpectedConst == IF instr.op = "ldcst" THEN "num" ELSE "str"

LdCst ==
    /\ Decodes(ConstOps) /\ Room
    /\ instr.cst.type = ExpectedConst
    /\ Goto(next_pc, Append(top.stack, instr.cst), objects)

Load(locals) ==
    LET el == Local(locals, instr.idx)
    IN  Continue([top EXCEPT !.pc = next_pc, !.stack = Append(@, el),
                             !.slots = IF instr.op = "ldlc" THEN Unload(@, instr.idx) ELSE @,
                             !.args  = IF instr.op = "ldarg" THEN Unload(@, instr.idx) ELSE @],
                 DoPush(objects, el))

LdLc  == Decodes({"ldlc"}) /\ IndexOK(instr) /\ Room /\ Load(top.slots)
LdArg == Decodes({"ldarg"}) /\ IndexOK(instr) /\ Room /\ Load(top.args)

\* The stores move the top out of the stack without popping it.
StrLc ==
    /\ Decodes({"strlc"}) /\ IndexOK(instr) /\ Has(1)
    /\ Continue([top EXCEPT !.pc = next_pc, !.stack[Len(top.stack)] = Moved(@),
                            !.slots = Assign(@, instr.idx, Peek(0))], objects)

StrArg ==
    /\ Decodes({"strarg"}) /\ IndexOK(instr) /\ Has(1)
    /\ Continue([top EXCEPT !.pc = next_pc, !.stack[Len(top.stack)] = Moved(@),
                            !.args = Assign(@, instr.idx, Peek(0))], objects)

\* vri and vrs write local_args at an index they checked against local_slots,
\* and leave pc on their operand.
Vri ==
    /\ Decodes({"vri", "vrs"}) /\ IndexOK(instr) /\ instr.idx < Args
    /\ LET old == Local(top.args, instr.idx)
           new == IF instr.op = "vri" THEN [old EXCEPT !.type = "num", !.num = 0]
                                      ELSE [old EXCEPT !.type = "str", !.str = Empty]
       IN  Continue([top EXCEPT !.pc = @ + 2, !.args = Assign(@, instr.idx, new)], objects)

\* The early return of the handlers above: an index out of range or a
\* constant of the other kind leaves pc on the operand.
RejectOperand ==
    /\ \/ Decodes(LocalOps) /\ ~IndexOK(instr)
       \/ Decodes(ConstOps) /\ instr.cst.type # ExpectedConst
    /\ Goto(top.pc + 2, top.stack, objects)

-----------------------------------------------------------------------------
(* Arithmetic and comparison. el1 is the top, el2 the element under it.      *)

el1 == Peek(0)
el2 == Peek(1)
HasStr == el1.type = "str" \/ el2.type = "str"

\* A result outside Nums is some number of Nums: exact when Nums is Int.
Fit(n) == IF n \in Nums THEN {n} ELSE Nums

BoolNum(b) == IF b THEN 1 ELSE 0

\* Concatenation is exact with the empty string, some other string otherwise.
Concat(s, t) ==
    IF s = Empty THEN {t} ELSE IF t = Empty THEN {s} ELSE Strs \ {Empty}

Add ==
    /\ Decodes({"add"}) /\ Has(2)
    /\ IF HasStr THEN \E s \in Concat(el2.str, el1.str) : Replace(2, Str(s))
                 ELSE \E n \in Fit(el2.num + el1.num) : Replace(2, Num(n))

ArithResults ==
    CASE instr.op = "sub" -> Fit(el2.num - el1.num)
      [] instr.op = "mul" -> Fit(el2.num * el1.num)
      [] OTHER            -> Nums

Arith ==
    /\ Decodes(ArithOps) /\ Has(2)
    /\ IF HasStr
       THEN Drop(2)
       ELSE /\ ~(instr.op = "mod" /\ el1.num = 0)
            /\ \E n \in ArithResults : Replace(2, Num(n))

Relation == [ceq |-> "eq", cgt |-> "gt", cge |-> "ge", clt |-> "lt", cle |-> "le",
             beq |-> "eq", bgt |-> "gt", bge |-> "ge", blt |-> "lt", ble |-> "le"]

NumHolds(r, a, b) ==
    CASE r = "eq" -> a = b
      [] r = "gt" -> a > b
      [] r = "ge" -> a >= b
      [] r = "lt" -> a < b
      [] r = "le" -> a <= b

\* Strings are ordered in a way the model leaves open, with "" first.
StrHolds(r, s, t) ==
    CASE s = t     -> {r \in {"eq", "ge", "le"}}
      [] r = "eq"  -> {FALSE}
      [] s = Empty -> {r \in {"lt", "le"}}
      [] t = Empty -> {r \in {"gt", "ge"}}
      [] OTHER     -> BOOLEAN

Outcomes ==
    IF HasStr THEN StrHolds(Relation[instr.op], el2.str, el1.str)
              ELSE {NumHolds(Relation[instr.op], el2.num, el1.num)}

\* Comparing with a string gives a string, whose num says the outcome.
Compare ==
    /\ Decodes(CompareOps) /\ Has(2)
    /\ \E b \in Outcomes :
            Replace(2, [NoneElement EXCEPT !.type = IF HasStr THEN "str" ELSE "num",
                                           !.num = BoolNum(b)])

UnaryResults ==
    CASE instr.op = "uno" -> {BoolNum(el1.num = 0)}
      [] instr.op = "ung" -> Fit(-el1.num)
      [] instr.op = "uin" -> Fit(-el1.num - 1)

Unary ==
    /\ Decodes(UnaryOps) /\ Has(1)
    /\ IF el1.type = "str"
       THEN Drop(1)
       ELSE \E n \in UnaryResults : Replace(1, [el1 EXCEPT !.num = n])

-----------------------------------------------------------------------------
(* Branches                                                                  *)

Br == Decodes({"br"}) /\ Goto(instr.to, top.stack, objects)

\* MUTANT: a branch not taken does not skip its operand.
BranchIf_OperandNotSkipped(n, b) ==
    Goto(IF b THEN instr.to ELSE top.pc + 2, Rest(n), DoPop(objects, Popped(n)))

BranchIf(n, b) ==
    Goto(IF b THEN instr.to ELSE next_pc, Rest(n), DoPop(objects, Popped(n)))

BrTest == Decodes(TestOps) /\ Has(2) /\ \E b \in Outcomes : BranchIf(2, b)

\* MUTANT: brt and brf exchanged.
BrBool_Exchanged ==
    /\ Decodes(BoolOps) /\ Has(1)
    /\ BranchIf(1, el1.type = "num" /\ ((el1.num # 0) <=> (instr.op = "brf")))

\* Only a number decides: anything else falls through.
BrBool ==
    /\ Decodes(BoolOps) /\ Has(1)
    /\ BranchIf(1, el1.type = "num" /\ ((el1.num # 0) <=> (instr.op = "brt")))

-----------------------------------------------------------------------------
(* Arrays                                                                    *)

NewArr ==
    /\ Decodes({"newarr"}) /\ Room /\ ref_id < MaxRefId
    /\ ref_id' = ref_id + 1
    /\ func_contexts' = [func_contexts EXCEPT
            ![Depth] = [top EXCEPT !.pc = next_pc, !.stack = Append(top.stack, Ref(ref_id'))]]
    /\ objects' = DoPush(MakeNewArray(objects, ref_id'), Ref(ref_id'))
    /\ UNCHANGED <<prog, last_context, runs, fault>>

\* What the array handlers find once they have popped their n operands.
Finds(n, arr, index) ==
    /\ arr.type = "ref" /\ arr.ref \in DOMAIN DoPop(objects, Popped(n))
    /\ index.type = "num"

StrElm ==
    /\ Decodes({"strelm"}) /\ Has(3)
    /\ LET arr == Peek(2)  index == Peek(1)  val == Peek(0)
           objs == DoPop(objects, Popped(3))
       IN  IF ~Finds(3, arr, index)
           THEN Drop(3)
           ELSE /\ ValidIndex(index.num)
                /\ LET grown == Resized(objs[arr.ref].elements, index.num)
                   IN  \E junk \in 0..MaxRefId :
                        Goto(next_pc, Rest(3),
                             [objs EXCEPT ![arr.ref].elements =
                                [grown EXCEPT ![index.num + 1] = Stored(@, val, junk)]])

\* A load that fails pushes nothing.
LdElm ==
    /\ Decodes({"ldelm"}) /\ Has(2)
    /\ LET arr == Peek(1)  index == Peek(0)
           objs == DoPop(objects, Popped(2))
       IN  IF ~Finds(2, arr, index)
           THEN Drop(2)
           ELSE /\ ValidIndex(index.num)
                /\ LET grown == Resized(objs[arr.ref].elements, index.num)
                       el    == grown[index.num + 1]
                   IN  Goto(next_pc, Append(Rest(2), el),
                            DoPush([objs EXCEPT ![arr.ref].elements =
                                        [grown EXCEPT ![index.num + 1] = Moved(@)]], el))

-----------------------------------------------------------------------------
(* Calls                                                                     *)

\* call_function takes the function index as a uint8_t, and
\* get_reference_unit_name the unit index.
Truncated(idx) == idx % 256

Missing == "missing"   \* use_unit finds no such unit

CalleeUnit ==
    LET refs == prog.units[top.unit].refs
        i    == Truncated(instr.unit) + 1
    IN  CASE instr.unit = Self -> top.unit
          [] instr.unit # Self /\ i \in DOMAIN refs -> refs[i]
          [] OTHER -> Missing

CalleeFunc == Truncated(instr.func) + 1

Interpreted ==
    CalleeUnit \in DOMAIN prog.units /\ CalleeFunc \in DOMAIN prog.units[CalleeUnit].funcs

External == CalleeUnit = StdUnit /\ CalleeFunc \in DOMAIN StdFunctions

\* The caller once call has read its operands; last_context points to it.
Resumed == [top EXCEPT !.pc = next_pc]

\* MUTANT: only a call within the unit records its caller.
Calls_WithinUnit ==
    /\ Decodes({"call"})
    /\ last_context' = IF instr.unit = Self THEN Depth ELSE last_context

\* MUTANT: no call records its caller.
Calls_Unrecorded == Decodes({"call"}) /\ UNCHANGED last_context

Calls == Decodes({"call"}) /\ last_context' = Depth

CallUnresolved ==
    /\ Calls /\ ~Interpreted /\ ~External
    /\ func_contexts' = [func_contexts EXCEPT ![Depth] = Resumed]
    /\ UNCHANGED <<prog, objects, ref_id, runs, fault>>

CallInterpreted ==
    /\ Calls /\ Interpreted /\ Depth < MaxDepth
    /\ func_contexts' = Append([func_contexts EXCEPT ![Depth] = Resumed],
                               NewContext(CalleeUnit, CalleeFunc))
    /\ UNCHANGED <<prog, objects, ref_id, runs, fault>>

\* A function of the std unit runs at once, on the caller's own stack.
CallStd(names, stack, objs) ==
    /\ Calls /\ External /\ StdFunctions[CalleeFunc] \in names
    /\ func_contexts' = [func_contexts EXCEPT ![Depth] = [Resumed EXCEPT !.stack = stack]]
    /\ objects' = objs
    /\ UNCHANGED <<prog, ref_id, runs, fault>>

\* print replaces the first "{}" of its text by the next element, and looks
\* again: HolesLeft[k] is how many "{}" there are after k replacements.
HolesLeft ==
    LET left[k \in 0..(Len(top.stack) - 1)] ==
            IF k = 0 THEN Holes[el1.str]
            ELSE left[k - 1] - 1 + (IF Peek(k).type = "num" THEN 0 ELSE Holes[Peek(k).str])
    IN  left

\* How many elements print pops, if the stack has that many.
PrintPops ==
    IF el1.type # "str"
    THEN {1}
    ELSE {k + 1 : k \in {j \in 0..(Len(top.stack) - 1) :
                            HolesLeft[j] = 0 /\ \A i \in 0..(j - 1) : HolesLeft[i] > 0}}

StdPrint ==
    /\ Decodes({"call"}) /\ Has(1)
    /\ \E n \in PrintPops : CallStd({"print"}, Rest(n), DoPop(objects, Popped(n)))

StdSin ==
    /\ Decodes({"call"}) /\ Has(1)
    /\ IF el1.type = "num"
       THEN \E n \in Nums : CallStd({"sin"}, Append(Rest(1), Num(n)), objects)
       ELSE CallStd({"sin"}, Rest(1), DoPop(objects, Popped(1)))

\* length pops its operand before it looks the object up.
StdLength ==
    LET objs == DoPop(objects, Popped(1))
        Gives(n) == CallStd({"length"}, Append(Rest(1), Num(n)), objs)
    IN  /\ Decodes({"call"}) /\ Has(1)
        /\ CASE el1.type = "num"  -> Gives(-1)
             [] el1.type = "str"  -> \E n \in {m \in Nums : m = 0 <=> el1.str = Empty} : n >= 0 /\ Gives(n)
             [] el1.type = "ref"  -> /\ el1.ref \in DOMAIN objs
                                     /\ \E n \in Fit(Len(objs[el1.ref].elements)) : Gives(n)
             [] el1.type = "none" -> CallStd({"length"}, Rest(1), objs)

\* met moves its arguments from the stack last_context points to, the top
\* first, without telling the reference manager.
Caller == func_contexts[last_context]

\* MUTANT: the arguments are copied, and stay where they were.
CallerLeft_Copied == Caller.stack

CallerLeft == SubSeq(Caller.stack, 1, Len(Caller.stack) - instr.argc)

Met ==
    /\ Decodes({"met"})
    /\ IF instr.argc = 0 \/ last_context = 0
       THEN Goto(next_pc, top.stack, objects)
       ELSE /\ last_context \in 1..Depth
            /\ instr.argc <= Args /\ instr.argc <= Len(Caller.stack)
            /\ LET n     == Len(Caller.stack)
                   taken == [i \in 0..(instr.argc - 1) |-> Caller.stack[n - i]]
                   given == [func_contexts EXCEPT ![last_context].stack = CallerLeft]
               IN  func_contexts' = [given EXCEPT ![Depth].args = taken, ![Depth].pc = next_pc]
            /\ UNCHANGED <<prog, last_context, objects, ref_id, runs, fault>>

\* ret with more than one element left is an error, reported nowhere.
RetRefused ==
    /\ Decodes({"ret"}) /\ Has(2)
    /\ Goto(next_pc, top.stack, objects)

\* The value is popped here (do_pop) and put on the caller's stack as it is.
RetValue ==
    /\ Decodes({"ret"}) /\ Len(top.stack) = 1 /\ Depth > 1
    /\ Len(func_contexts[Depth - 1].stack) < MaxStack
    /\ func_contexts' = [SubSeq(func_contexts, 1, Depth - 1) EXCEPT
                            ![Depth - 1].stack = Append(@, el1)]
    /\ objects' = DoPop(objects, Popped(1))
    /\ UNCHANGED <<prog, last_context, ref_id, runs, fault>>

\* The context goes with its slots and stack; no counter is told.
Leave ==
    /\ \/ Decodes({"ret"}) /\ ~Has(1)
       \/ Decodes({"endmet"})
    /\ func_contexts' = SubSeq(func_contexts, 1, Depth - 1)
    /\ UNCHANGED <<prog, last_context, objects, ref_id, runs, fault>>

-----------------------------------------------------------------------------
(* Where the handlers do something C++ leaves undefined, or throw what        *)
(* nothing catches.                                                          *)

Needs ==
    CASE instr.op \in {"strelm"} -> 3
      [] instr.op \in {"add", "ldelm"} \cup ArithOps \cup CompareOps \cup TestOps -> 2
      [] instr.op \in BoolOps \cup UnaryOps -> 1
      [] instr.op \in {"strlc", "strarg"} -> IF IndexOK(instr) THEN 1 ELSE 0
      [] instr.op = "call" -> IF External THEN 1 ELSE 0
      [] OTHER -> 0

PrintsTooMuch ==
    /\ Decodes({"call"}) /\ External /\ Has(1)
    /\ StdFunctions[CalleeFunc] = "print" /\ PrintPops = {}

ArgsMissing ==
    /\ Decodes({"met"}) /\ instr.argc > 0 /\ instr.argc <= Args
    /\ last_context \in 1..Depth /\ Len(Caller.stack) < instr.argc

\* top() of an empty stack.
Underflow ==
    /\ \/ Running /\ ~Has(Needs)
       \/ PrintsTooMuch
       \/ ArgsMissing
       \/ Decodes({"ret"}) /\ Len(top.stack) = 1 /\ Depth = 1
    /\ Fault("underflow")

\* pc is inside an instruction: whatever its operand decodes to runs next.
Misdecode == fault = "none" /\ Depth > 0 /\ top.pc \notin DOMAIN code /\ Fault("misdecode")

\* opcode_map[op] is an empty std::function: std::bad_function_call.
NoHandler == Decodes(UnhandledOps) /\ Fault("no_handler")

\* last_context was never assigned, or points to a context that is gone.
DanglingCaller ==
    /\ Decodes({"met"}) /\ instr.argc > 0
    /\ last_context # 0 /\ last_context \notin 1..Depth
    /\ Fault("dangling")

\* An index past local_args, or before the first element of an array.
BadIndex ==
    /\ \/ Decodes({"vri", "vrs"}) /\ IndexOK(instr) /\ instr.idx >= Args
       \/ Decodes({"met"}) /\ instr.argc > Args /\ last_context \in 1..Depth
       \/ Decodes({"strelm"}) /\ Has(3) /\ Finds(3, Peek(2), Peek(1)) /\ ~ValidIndex(Peek(1).num)
       \/ Decodes({"ldelm"}) /\ Has(2) /\ Finds(2, Peek(1), Peek(0)) /\ ~ValidIndex(Peek(0).num)
    /\ Fault("bad_index")

\* length of an object that is no longer there.
NullObject ==
    /\ Decodes({"call"}) /\ External /\ StdFunctions[CalleeFunc] = "length" /\ Has(1)
    /\ el1.type = "ref" /\ el1.ref \notin DOMAIN DoPop(objects, Popped(1))
    /\ Fault("null_object")

\* An int64_t remainder by zero.
ModByZero ==
    /\ Decodes({"mod"}) /\ Has(2) /\ ~HasStr /\ el1.num = 0
    /\ Fault("mod_by_zero")

\* Memory runs out, at the bounds of the model.
BadAlloc ==
    /\ \/ /\ Decodes(ConstOps \cup {"ldlc", "ldarg", "newarr"}) /\ ~Room
          /\ instr.op \in ConstOps => instr.cst.type = ExpectedConst
          /\ instr.op \in {"ldlc", "ldarg"} => IndexOK(instr)
       \/ Decodes({"newarr"}) /\ ref_id >= MaxRefId
       \/ Decodes({"call"}) /\ Interpreted /\ Depth >= MaxDepth
       \/ /\ Decodes({"ret"}) /\ Len(top.stack) = 1 /\ Depth > 1
          /\ Len(func_contexts[Depth - 1].stack) >= MaxStack
    /\ Fault("bad_alloc")

Faults == {"none", "underflow", "misdecode", "no_handler", "dangling", "bad_index",
           "null_object", "mod_by_zero", "bad_alloc"}

-----------------------------------------------------------------------------
(* Behaviour                                                                 *)

\* The constructor sets neither pointer: last_context is what memory held.
Init ==
    /\ prog \in Programs
    /\ func_contexts = << >>
    /\ last_context \in {Garbage, 0}
    /\ objects = << >>
    /\ ref_id = 0
    /\ runs = 0
    /\ fault = "none"

\* The host pushes the context of a function, then calls interpret().
HostCall ==
    /\ fault = "none" /\ Depth = 0 /\ runs < MaxRuns
    /\ \E e \in prog.entries : func_contexts' = <<NewContext(e[1], e[2])>>
    /\ runs' = runs + 1
    /\ UNCHANGED <<prog, last_context, objects, ref_id, fault>>

Handler ==
    \/ LdCst \/ LdLc \/ LdArg \/ StrLc \/ StrArg \/ Vri \/ RejectOperand
    \/ Add \/ Arith \/ Compare \/ Unary
    \/ Br \/ BrTest \/ BrBool
    \/ NewArr \/ StrElm \/ LdElm
    \/ CallUnresolved \/ CallInterpreted \/ StdPrint \/ StdSin \/ StdLength
    \/ Met \/ RetRefused \/ RetValue \/ Leave

Failure ==
    \/ Underflow \/ Misdecode \/ NoHandler \/ DanglingCaller \/ BadIndex
    \/ NullObject \/ ModByZero \/ BadAlloc

do_opcode == Handler \/ Failure

\* interpret() returned for the last time, or the process is gone.
Finished == fault # "none" \/ (Depth = 0 /\ runs = MaxRuns)

Next == HostCall \/ do_opcode \/ (Finished /\ UNCHANGED vars)

\* interpret() is a loop: it does not stop between two opcodes.
Spec == Init /\ [][Next]_vars /\ WF_vars(do_opcode)

-----------------------------------------------------------------------------
(* Properties                                                                *)

IsContext(c) ==
    /\ c.unit \in DOMAIN prog.units /\ c.func \in DOMAIN prog.units[c.unit].funcs
    /\ c.pc \in Nat
    /\ c.stack \in Seq(Element)
    /\ DOMAIN c.slots \subseteq 0..(Slots - 1) /\ \A i \in DOMAIN c.slots : c.slots[i] \in Element
    /\ DOMAIN c.args \subseteq 0..(Args - 1) /\ \A i \in DOMAIN c.args : c.args[i] \in Element

\* Type correctness: every context belongs to a loaded function and holds
\* elements only, in slots that exist: no handler, met with its unchecked
\* argument count included, has written past local_slots or local_args. Every
\* object is an array of elements with a counter that did not wrap below 0.
TypeOK ==
    /\ DOMAIN func_contexts = 1..Depth /\ Depth \in 0..MaxDepth
    /\ \A i \in 1..Depth : IsContext(func_contexts[i])
    /\ last_context \in Nat \cup {Garbage}
    /\ ref_id \in Nat
    /\ IsObjects(objects, ref_id)
    /\ runs \in Nat
    /\ fault \in Faults

\* A program that keeps to what the handlers accept: local indices in range,
\* constants of the kind their opcode loads, and no vri or vrs.
Obeys(i) ==
    /\ i.op \in LocalOps => IndexOK(i) /\ i.op \notin {"vri", "vrs"}
    /\ i.op \in ConstOps => i.cst.type = (IF i.op = "ldcst" THEN "num" ELSE "str")

Orderly(p) ==
    \A u \in DOMAIN p.units : \A f \in DOMAIN p.units[u].funcs :
        LET c == p.units[u].funcs[f] IN \A a \in DOMAIN c : Obeys(c[a])

\* No handler of an orderly program, its error paths included, ever leaves
\* the pc of any context, running or suspended, between two instructions.
PcAligned ==
    Orderly(prog) =>
        \A i \in 1..Depth : LET c == func_contexts[i]
                            IN  c.pc \in DOMAIN prog.units[c.unit].funcs[c.func]

\* When a called function is about to take its arguments, last_context points
\* to the context that called it, however many calls into other functions and
\* units, and returns from them, went before.
MetReadsCaller == Depth > 1 /\ top.pc = 0 => last_context = Depth - 1

\* So the pointer can only be found dangling, or never assigned, by a function
\* the host calls with arguments.
DanglingOnlyFromHost == fault = "dangling" => Depth = 1

\* call, met and ret keep the discipline of CallStack: no handler reaches into
\* a frame that is not its own, except to take arguments and to return a value.
Frames ==
    [i \in 1..Depth |-> [phase |-> IF func_contexts[i].pc = 0 THEN "fresh" ELSE "working",
                         stack |-> func_contexts[i].stack,
                         args  |-> func_contexts[i].args]]

CallDiscipline == INSTANCE CallStack WITH frames <- Frames

RefinesCallStack == CallDiscipline!Spec

\* Under a scheduler that keeps interpret() looping, what the host calls
\* comes to its end without a fault. (Of programs whose loops end.)
Completes == Depth > 0 ~> (Depth = 0 /\ fault = "none")

=============================================================================
