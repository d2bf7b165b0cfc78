------------------------- MODULE Interpreter_proofs -------------------------
(* Theorems about the Interpreter, and that it implements CallStack, for all *)
(* programs that meet its assumption, all numbers and strings, and all       *)
(* bounds.                                                                   *)
EXTENDS Interpreter, FiniteSetTheorems, SequenceTheorems, TLAPS

-----------------------------------------------------------------------------
(* What the operators of RefManager return, for any numbers and strings      *)

\* The constructors make elements.
LEMMA ElementTypes ==
    /\ NoneElement \in Element
    /\ \A n \in Nums : Num(n) \in Element
    /\ \A s \in Strs : Str(s) \in Element
    /\ \A o \in Nat : Ref(o) \in Element
    /\ \A el \in Element : Moved(el) \in Element
BY ValuesAssumption DEF Element, Types, NoneElement, Num, Str, Ref, Moved

\* A reference is found a natural number of times in a sequence.
LEMMA OccurrencesType ==
    ASSUME NEW o, NEW els \in Seq(Element)
    PROVE  Occurrences(o, els) \in Nat
<1> DEFINE S == Places(o, els)
<1>1. DOMAIN els = 1..Len(els) /\ Len(els) \in Nat
    BY LenProperties
<1>2. IsFiniteSet(1..Len(els))
    BY <1>1, FS_Interval
<1>3. IsFiniteSet(S)
    BY <1>1, <1>2, FS_Subset DEF Places
<1> QED BY <1>3, FS_CardinalityType DEF Occurrences

\* do_push keeps objects what they are.
LEMMA DoPushType ==
    ASSUME NEW objs, NEW last \in Nat, IsObjects(objs, last), NEW el \in Element
    PROVE  IsObjects(DoPush(objs, el), last)
<1>1. CASE el.type = "ref" /\ el.ref \in DOMAIN objs
    <2> DEFINE new == [objs[el.ref] EXCEPT !.ref_counter = @ + 1]
    <2>1. objs[el.ref] \in Object /\ new \in Object
        BY <1>1 DEF IsObjects, Object
    <2>2. DoPush(objs, el) = [objs EXCEPT ![el.ref] = new]
        BY <1>1 DEF DoPush
    <2> HIDE DEF new
    <2> QED BY <1>1, <2>1, <2>2 DEF IsObjects
<1>2. CASE ~(el.type = "ref" /\ el.ref \in DOMAIN objs)
    BY <1>2 DEF DoPush
<1> QED BY <1>1, <1>2

\* do_pop, of any number of elements, keeps objects what they are: no counter
\* goes below 1.
LEMMA DoPopType ==
    ASSUME NEW objs, NEW last \in Nat, IsObjects(objs, last), NEW els \in Seq(Element)
    PROVE  IsObjects(DoPop(objs, els), last)
<1>1. \A o : Occurrences(o, els) \in Nat
    BY OccurrencesType
<1>2. ASSUME NEW o \in DOMAIN DoPop(objs, els)
      PROVE  o \in DOMAIN objs /\ DoPop(objs, els)[o] \in Object
    <2>1. o \in DOMAIN objs /\ objs[o] \in Object
        BY <1>2 DEF DoPop, IsObjects
    <2>2. objs[o].ref_counter - Occurrences(o, els) \in Nat
        BY <2>1, <1>1, <1>2 DEF DoPop, Object
    <2>3. DoPop(objs, els)[o] = [objs[o] EXCEPT !.ref_counter = @ - Occurrences(o, els)]
        BY <1>2 DEF DoPop
    <2> QED BY <2>1, <2>2, <2>3 DEF Object
<1> QED BY <1>2 DEF IsObjects

\* make_new_array adds an array under the next id.
LEMMA MakeNewArrayType ==
    ASSUME NEW objs, NEW last \in Nat, IsObjects(objs, last)
    PROVE  IsObjects(MakeNewArray(objs, last + 1), last + 1)
<1>1. << >> \in Seq(Element)
    OBVIOUS
<1> QED BY <1>1 DEF IsObjects, MakeNewArray, Object

\* get_element of a valid index makes the array long enough.
LEMMA ResizedType ==
    ASSUME NEW els \in Seq(Element), NEW idx \in Nat
    PROVE  /\ Resized(els, idx) \in Seq(Element)
           /\ idx + 1 \in 1..Len(Resized(els, idx))
<1> DEFINE n == IF Len(els) < idx + 1 THEN idx + 1 ELSE Len(els)
<1>1. n \in Nat /\ idx + 1 \in 1..n
    BY LenProperties
<1>2. \A k \in 1..n : (IF k <= Len(els) THEN els[k] ELSE NoneElement) \in Element
    BY <1>1, ElementTypes, ElementOfSeq
<1>3. Resized(els, idx) = [k \in 1..n |-> IF k <= Len(els) THEN els[k] ELSE NoneElement]
    BY DEF Resized
<1>4. Resized(els, idx) \in [1..n -> Element]
    BY <1>2, <1>3
<1>5. Resized(els, idx) \in Seq(Element) /\ Len(Resized(els, idx)) = n
    BY <1>1, <1>4, SeqDef, LenProperties
<1> QED BY <1>1, <1>5

\* What strelm stores is an element.
LEMMA StoredType ==
    ASSUME NEW old \in Element, NEW val \in Element, NEW junk \in Nat
    PROVE  Stored(old, val, junk) \in Element
BY DEF Stored, Element, Types

\* An array of elements with one replaced, in a live object.
LEMMA StoreType ==
    ASSUME NEW objs, NEW last \in Nat, IsObjects(objs, last),
           NEW o \in DOMAIN objs, NEW els \in Seq(Element)
    PROVE  IsObjects([objs EXCEPT ![o].elements = els], last)
BY DEF IsObjects, Object

-----------------------------------------------------------------------------
(* The inductive invariant                                                   *)

\* local_slots and local_args, of n elements.
Locals(n) == UNION {[S -> Element] : S \in SUBSET (0..(n - 1))}

FuncIds(p) == UNION {DOMAIN p.units[u].funcs : u \in DOMAIN p.units}

\* Contexts of functions of p: in an orderly program, at an instruction.
Context(p) ==
    {c \in [unit : DOMAIN p.units, func : FuncIds(p), pc : Nat, stack : Seq(Element),
            slots : Locals(Slots), args : Locals(Args)] :
        /\ c.func \in DOMAIN p.units[c.unit].funcs
        /\ Orderly(p) => c.pc \in DOMAIN p.units[c.unit].funcs[c.func]}

\* A suspended context is past its met: it is suspended by a call.
CallersResumed == \A i \in 1..(Len(func_contexts) - 1) : func_contexts[i].pc # 0

IInv ==
    /\ prog \in Programs
    /\ func_contexts \in Seq(Context(prog)) /\ Len(func_contexts) <= MaxDepth
    /\ CallersResumed
    /\ MetReadsCaller
    /\ last_context \in Nat \cup {Garbage}
    /\ ref_id \in Nat
    /\ IsObjects(objects, ref_id)
    /\ runs \in Nat
    /\ fault \in Faults
    /\ DanglingOnlyFromHost

-----------------------------------------------------------------------------
(* Stacks and contexts                                                       *)

\* Every way the handlers take elements off a stack.
LEMMA StackTypes ==
    ASSUME NEW s \in Seq(Element), NEW n \in Nat, n <= Len(s)
    PROVE  /\ SubSeq(s, 1, Len(s) - n) \in Seq(Element)
           /\ SubSeq(s, Len(s) - n + 1, Len(s)) \in Seq(Element)
           /\ \A k \in Nat : k < Len(s) => s[Len(s) - k] \in Element
           /\ \A el \in Element : Append(s, el) \in Seq(Element)
<1>1. Len(s) \in Nat
    BY LenProperties
<1>2. \A i \in 1..Len(s) : s[i] \in Element
    BY ElementOfSeq
<1>3. SubSeq(s, 1, Len(s) - n) \in Seq(Element)
    <2>1. \A i \in 1..(Len(s) - n) : s[i] \in Element
        BY <1>1, <1>2
    <2> QED BY <1>1, <2>1, SubSeqProperties
<1>4. SubSeq(s, Len(s) - n + 1, Len(s)) \in Seq(Element)
    <2>1. \A i \in (Len(s) - n + 1)..Len(s) : s[i] \in Element
        BY <1>1, <1>2
    <2> QED BY <1>1, <2>1, SubSeqProperties
<1>5. \A k \in Nat : k < Len(s) => s[Len(s) - k] \in Element
    BY <1>1, <1>2
<1>6. \A el \in Element : Append(s, el) \in Seq(Element)
    BY AppendProperties
<1> QED BY <1>3, <1>4, <1>5, <1>6

\* A context whose pc, stack, slots and args are replaced is a context.
LEMMA ContextUpdate ==
    ASSUME NEW p, NEW c \in Context(p), NEW pc \in Nat,
           Orderly(p) => pc \in DOMAIN p.units[c.unit].funcs[c.func],
           NEW stack \in Seq(Element), NEW slots \in Locals(Slots), NEW args \in Locals(Args)
    PROVE  /\ [c EXCEPT !.pc = pc, !.stack = stack] \in Context(p)
           /\ [c EXCEPT !.pc = pc, !.stack = stack, !.slots = slots, !.args = args] \in Context(p)
           /\ [c EXCEPT !.pc = pc, !.stack = stack, !.slots = slots] \in Context(p)
           /\ [c EXCEPT !.pc = pc, !.stack = stack, !.args = args] \in Context(p)
           /\ [c EXCEPT !.pc = pc, !.args = args] \in Context(p)
           /\ [c EXCEPT !.pc = pc] \in Context(p)
           /\ [c EXCEPT !.stack = stack] \in Context(p)
BY DEF Context

\* Assigning and unloading a local keeps locals locals.
LEMMA LocalsTypes ==
    ASSUME NEW n \in Nat, NEW locals \in Locals(n), NEW i \in 0..(n - 1)
    PROVE  /\ Local(locals, i) \in Element
           /\ Unload(locals, i) \in Locals(n)
           /\ \A el \in Element : Assign(locals, i, el) \in Locals(n)
<1>1. PICK S \in SUBSET (0..(n - 1)) : locals \in [S -> Element]
    BY DEF Locals
<1>2. Local(locals, i) \in Element
    BY <1>1, ElementTypes DEF Local
<1>3. Unload(locals, i) \in [S -> Element]
    BY <1>1, ElementTypes DEF Unload
<1>4. ASSUME NEW el \in Element
      PROVE  Assign(locals, i, el) \in [S \cup {i} -> Element]
    BY <1>1 DEF Assign
<1>5. S \cup {i} \in SUBSET (0..(n - 1))
    BY <1>1
<1> QED BY <1>2, <1>3, <1>4, <1>5 DEF Locals

-----------------------------------------------------------------------------
(* The instruction about to run                                              *)

LEMMA TopContext ==
    ASSUME IInv, Depth > 0
    PROVE  /\ Depth \in Nat \ {0} /\ Depth \in 1..Len(func_contexts)
           /\ top \in Context(prog)
           /\ top.unit \in DOMAIN prog.units
           /\ top.func \in DOMAIN prog.units[top.unit].funcs
           /\ top.stack \in Seq(Element) /\ Len(top.stack) \in Nat
           /\ top.slots \in Locals(Slots) /\ top.args \in Locals(Args)
           /\ top.pc \in Nat
<1>1. Len(func_contexts) \in Nat
    BY LenProperties DEF IInv
<1>2. Depth \in Nat \ {0} /\ Depth \in 1..Len(func_contexts)
    BY <1>1 DEF Depth
<1>3. top \in Context(prog)
    BY <1>2, ElementOfSeq DEF IInv, top
<1>4. top.stack \in Seq(Element)
    BY <1>3 DEF Context
<1> QED BY <1>2, <1>3, <1>4, LenProperties DEF Context

\* What InterpreterAssumption says of the instruction at the pc, and of where
\* its handler can go from there.
LEMMA Decoded ==
    ASSUME IInv, Running
    PROVE  /\ instr \in Instr
           /\ (instr.op = "met") <=> (top.pc = 0)
           /\ instr.op \notin {"br", "endmet"} => next_pc \in DOMAIN code /\ next_pc \in Nat \ {0}
           /\ instr.op \in JumpOps => instr.to \in DOMAIN code /\ instr.to \in Nat \ {0}
           /\ top.pc + 2 \in Nat \ {0}
           /\ Orderly(prog) => Obeys(instr)
<1>1. /\ top.unit \in DOMAIN prog.units
      /\ top.func \in DOMAIN prog.units[top.unit].funcs
      /\ top.pc \in DOMAIN code /\ top.pc \in Nat
    BY TopContext DEF Running
<1>2. WellFormedCode(code)
    BY <1>1, InterpreterAssumption DEF IInv, WellFormed, code
<1>3. Width(instr.op) \in Nat \ {0}
    BY DEF Width
<1>4. Orderly(prog) => Obeys(instr)
    BY <1>1 DEF Orderly, instr, code
<1> QED BY <1>1, <1>2, <1>3, <1>4 DEF WellFormedCode, instr, next_pc

-----------------------------------------------------------------------------
(* The shapes of a step                                                      *)

\* A handler that only changes the innermost context and the objects, and
\* leaves its pc past the met.
LEMMA ContinueStep ==
    ASSUME IInv, Running, NEW c \in Context(prog), c.pc # 0,
           NEW objs, IsObjects(objs, ref_id), Continue(c, objs)
    PROVE  IInv'
<1>1. Depth \in Nat \ {0} /\ Depth \in 1..Len(func_contexts)
    BY TopContext DEF Running
<1>2. /\ func_contexts' \in Seq(Context(prog))
      /\ Len(func_contexts') = Len(func_contexts)
      /\ \A j \in 1..Len(func_contexts) :
            func_contexts'[j] = IF j = Depth THEN c ELSE func_contexts[j]
    BY <1>1, ExceptSeq DEF Continue, IInv
<1>3. Depth' = Depth /\ top' = c
    BY <1>1, <1>2 DEF Depth, top
<1>4. CallersResumed'
    BY <1>1, <1>2 DEF CallersResumed, IInv, Depth
<1>5. MetReadsCaller'
    BY <1>3 DEF MetReadsCaller
<1>6. DanglingOnlyFromHost'
    BY <1>3 DEF DanglingOnlyFromHost, IInv, Continue
<1> QED BY <1>2, <1>4, <1>5, <1>6 DEF IInv, Continue

\* A handler that moves to pc and leaves stack.
LEMMA GotoStep ==
    ASSUME IInv, Running, NEW pc \in Nat \ {0}, Orderly(prog) => pc \in DOMAIN code,
           NEW stack \in Seq(Element), NEW objs, IsObjects(objs, ref_id),
           Goto(pc, stack, objs)
    PROVE  IInv'
<1> DEFINE c == [top EXCEPT !.pc = pc, !.stack = stack]
<1>1. top \in Context(prog)
    BY TopContext DEF Running
<1>2. c \in Context(prog)
    BY <1>1, ContextUpdate, TopContext DEF code, Running
<1>3. c.pc # 0
    BY <1>1 DEF Context
<1>4. Continue(c, objs)
    BY DEF Goto
<1> QED BY <1>2, <1>3, <1>4, ContinueStep

\* What Popped, Rest and Peek give.
LEMMA Operands ==
    ASSUME IInv, Running, NEW n \in Nat, Has(n)
    PROVE  /\ Rest(n) \in Seq(Element)
           /\ Popped(n) \in Seq(Element)
           /\ \A k \in Nat : k < n => Peek(k) \in Element
           /\ IsObjects(DoPop(objects, Popped(n)), ref_id)
<1>1. top.stack \in Seq(Element) /\ Len(top.stack) \in Nat
    BY TopContext DEF Running
<1>2. n <= Len(top.stack)
    BY <1>1 DEF Has
<1>3. Rest(n) \in Seq(Element) /\ Popped(n) \in Seq(Element)
    BY <1>1, <1>2, StackTypes DEF Rest, Popped
<1>4. \A k \in Nat : k < n => Peek(k) \in Element
    BY <1>1, <1>2, StackTypes DEF Peek
<1>5. IsObjects(DoPop(objects, Popped(n)), ref_id)
    BY <1>3, DoPopType DEF IInv
<1> QED BY <1>3, <1>4, <1>5

\* The instruction does not end the function: pc moves on to the next.
Advances == instr.op \notin {"br", "endmet"}

LEMMA AdvanceStep ==
    ASSUME IInv, Running, Advances, NEW stack \in Seq(Element),
           NEW objs, IsObjects(objs, ref_id), Goto(next_pc, stack, objs)
    PROVE  IInv'
BY Decoded, GotoStep DEF Advances

LEMMA ReplaceStep ==
    ASSUME IInv, Running, Advances, NEW n \in Nat, Has(n), NEW el \in Element, Replace(n, el)
    PROVE  IInv'
<1>1. Append(Rest(n), el) \in Seq(Element)
    BY Operands, AppendProperties
<1>2. IsObjects(DoPush(DoPop(objects, Popped(n)), el), ref_id)
    BY Operands, DoPushType DEF IInv
<1> QED BY <1>1, <1>2, AdvanceStep DEF Replace

LEMMA DropStep ==
    ASSUME IInv, Running, Advances, NEW n \in Nat, Has(n), Drop(n)
    PROVE  IInv'
BY Operands, AdvanceStep DEF Drop

\* A failure leaves everything as it is.
LEMMA FaultStep ==
    ASSUME IInv, NEW kind \in Faults, Fault(kind), kind = "dangling" => Depth = 1
    PROVE  IInv'
<1>1. UNCHANGED <<prog, func_contexts, last_context, objects, ref_id, runs>> /\ fault' = kind
    BY DEF Fault
<1>2. Depth' = Depth /\ top' = top
    BY <1>1 DEF Depth, top
<1>3. CallersResumed' /\ MetReadsCaller' /\ DanglingOnlyFromHost'
    BY <1>1, <1>2 DEF IInv, CallersResumed, MetReadsCaller, DanglingOnlyFromHost
<1> QED BY <1>1, <1>3 DEF IInv

-----------------------------------------------------------------------------
(* The handlers                                                              *)

LEMMA LdCstStep == ASSUME IInv, LdCst PROVE IInv'
<1>1. Running /\ Advances /\ instr.op \in ConstOps
    BY DEF LdCst, Decodes, Advances, ConstOps
<1>2. instr.cst \in Element
    BY <1>1, Decoded DEF Instr, ConstOps, LocalOps, SlotOps, ArgOps, JumpOps, TestOps, BoolOps,
                         PlainOps, ArithOps, CompareOps, UnaryOps, UnhandledOps
<1>3. Append(top.stack, instr.cst) \in Seq(Element)
    BY <1>1, <1>2, TopContext, AppendProperties DEF Running
<1> QED BY <1>1, <1>3, AdvanceStep DEF LdCst, IInv

LEMMA IndexInRange ==
    ASSUME IInv, Running, instr.op \in LocalOps, IndexOK(instr)
    PROVE  /\ instr.op \in SlotOps => instr.idx \in 0..(Slots - 1)
           /\ instr.op \in ArgOps => instr.idx \in 0..(Args - 1)
           /\ instr.idx \in Nat
<1>1. instr.idx \in Byte
    BY Decoded DEF Instr, ConstOps, LocalOps, SlotOps, ArgOps, JumpOps, TestOps, BoolOps,
                   PlainOps, ArithOps, CompareOps, UnaryOps, UnhandledOps
<1> QED BY <1>1 DEF IndexOK, InRange, SlotOps, ArgOps, Slots, Args, Byte

\* Loading from slots or arguments.
LEMMA LoadStep ==
    ASSUME IInv, Running, NEW locals, instr.op \in {"ldlc", "ldarg"}, IndexOK(instr),
           locals = (IF instr.op = "ldlc" THEN top.slots ELSE top.args), Load(locals)
    PROVE  IInv'
<1> DEFINE el == Local(locals, instr.idx)
           slots == IF instr.op = "ldlc" THEN Unload(top.slots, instr.idx) ELSE top.slots
           args == IF instr.op = "ldarg" THEN Unload(top.args, instr.idx) ELSE top.args
           c == [top EXCEPT !.pc = next_pc, !.stack = Append(top.stack, el),
                            !.slots = slots, !.args = args]
<1>1. /\ top \in Context(prog) /\ top.stack \in Seq(Element)
      /\ top.slots \in Locals(Slots) /\ top.args \in Locals(Args)
    BY TopContext DEF Running
<1>2. next_pc \in Nat \ {0} /\ next_pc \in DOMAIN code
    BY Decoded
<1>3. /\ instr.op = "ldlc" => instr.idx \in 0..(Slots - 1)
      /\ instr.op = "ldarg" => instr.idx \in 0..(Args - 1)
    BY IndexInRange DEF LocalOps, SlotOps, ArgOps
<1>0. Slots \in Nat /\ Args \in Nat
    BY DEF Slots, Args
<1>4. el \in Element /\ slots \in Locals(Slots) /\ args \in Locals(Args)
    <2>1. CASE instr.op = "ldlc"
        BY <2>1, <1>0, <1>1, <1>3, LocalsTypes
    <2>2. CASE instr.op = "ldarg"
        BY <2>2, <1>0, <1>1, <1>3, LocalsTypes
    <2> QED BY <2>1, <2>2
<1>5. Append(top.stack, el) \in Seq(Element)
    BY <1>1, <1>4, AppendProperties
<1>6. c \in Context(prog)
    <2>1. next_pc \in DOMAIN prog.units[top.unit].funcs[top.func]
        BY <1>2 DEF code
    <2> HIDE DEF el, slots, args
    <2> QED BY <1>1, <1>2, <2>1, <1>4, <1>5, ContextUpdate
<1>7. c.pc = next_pc
    BY <1>1 DEF Context
<1>8. IsObjects(DoPush(objects, el), ref_id)
    BY <1>4, DoPushType DEF IInv
<1>9. Continue(c, DoPush(objects, el))
    BY <1>1 DEF Load, Context
<1> QED BY <1>2, <1>6, <1>7, <1>8, <1>9, ContinueStep

LEMMA LdLcStep == ASSUME IInv, LdLc PROVE IInv'
BY LoadStep DEF LdLc, Decodes

LEMMA LdArgStep == ASSUME IInv, LdArg PROVE IInv'
BY LoadStep DEF LdArg, Decodes

\* strlc and strarg: the moved-from top stays on the stack.
LEMMA StoreStep ==
    ASSUME IInv, Running, instr.op \in {"strlc", "strarg"}, IndexOK(instr), Has(1),
           NEW slots \in Locals(Slots), NEW args \in Locals(Args),
           Continue([top EXCEPT !.pc = next_pc, !.stack[Len(top.stack)] = Moved(@),
                                !.slots = slots, !.args = args], objects)
    PROVE  IInv'
<1> DEFINE stack == [top.stack EXCEPT ![Len(top.stack)] = Moved(top.stack[Len(top.stack)])]
           c == [top EXCEPT !.pc = next_pc, !.stack = stack, !.slots = slots, !.args = args]
<1>1. top \in Context(prog) /\ top.stack \in Seq(Element) /\ Len(top.stack) \in Nat
    BY TopContext DEF Running
<1>2. next_pc \in Nat \ {0} /\ next_pc \in DOMAIN prog.units[top.unit].funcs[top.func]
    BY Decoded DEF code
<1>3. stack \in Seq(Element)
    <2>1. Len(top.stack) \in 1..Len(top.stack)
        BY <1>1 DEF Has
    <2>2. Moved(top.stack[Len(top.stack)]) \in Element
        BY <1>1, <2>1, ElementOfSeq, ElementTypes
    <2> QED BY <1>1, <2>1, <2>2, ExceptSeq
<1>4. c \in Context(prog)
    <2> HIDE DEF stack
    <2> QED BY <1>1, <1>2, <1>3, ContextUpdate
<1>5. c.pc = next_pc
    BY <1>1 DEF Context
<1>6. Continue(c, objects)
    OBVIOUS
<1> QED BY <1>2, <1>4, <1>5, <1>6, ContinueStep DEF IInv

LEMMA StrLcStep == ASSUME IInv, StrLc PROVE IInv'
<1> DEFINE slots == Assign(top.slots, instr.idx, Peek(0))
<1>1. Running /\ instr.op = "strlc" /\ IndexOK(instr) /\ Has(1)
    BY DEF StrLc, Decodes
<1>2. top \in Context(prog) /\ top.slots \in Locals(Slots) /\ top.args \in Locals(Args)
    BY <1>1, TopContext DEF Running
<1>3. slots \in Locals(Slots)
    <2>1. Peek(0) \in Element
        BY <1>1, Operands
    <2>2. Slots \in Nat /\ instr.idx \in 0..(Slots - 1)
        BY <1>1, IndexInRange DEF LocalOps, SlotOps, Slots
    <2> QED BY <1>2, <2>1, <2>2, LocalsTypes
<1>4. [top EXCEPT !.pc = next_pc, !.stack[Len(top.stack)] = Moved(@), !.slots = slots]
        = [top EXCEPT !.pc = next_pc, !.stack[Len(top.stack)] = Moved(@), !.slots = slots,
                      !.args = top.args]
    <2> HIDE DEF slots
    <2> QED BY <1>2 DEF Context
<1> QED BY <1>1, <1>2, <1>3, <1>4, StoreStep DEF StrLc

LEMMA StrArgStep == ASSUME IInv, StrArg PROVE IInv'
<1> DEFINE args == Assign(top.args, instr.idx, Peek(0))
<1>1. Running /\ instr.op = "strarg" /\ IndexOK(instr) /\ Has(1)
    BY DEF StrArg, Decodes
<1>2. top \in Context(prog) /\ top.slots \in Locals(Slots) /\ top.args \in Locals(Args)
    BY <1>1, TopContext DEF Running
<1>3. args \in Locals(Args)
    <2>1. Peek(0) \in Element
        BY <1>1, Operands
    <2>2. Args \in Nat /\ instr.idx \in 0..(Args - 1)
        BY <1>1, IndexInRange DEF LocalOps, ArgOps, Args
    <2> QED BY <1>2, <2>1, <2>2, LocalsTypes
<1>4. [top EXCEPT !.pc = next_pc, !.stack[Len(top.stack)] = Moved(@), !.args = args]
        = [top EXCEPT !.pc = next_pc, !.stack[Len(top.stack)] = Moved(@), !.slots = top.slots,
                      !.args = args]
    <2> HIDE DEF args
    <2> QED BY <1>2 DEF Context
<1> QED BY <1>1, <1>2, <1>3, <1>4, StoreStep DEF StrArg

\* vri and vrs strand the pc: no orderly program has one.
LEMMA VriStep == ASSUME IInv, Vri PROVE IInv'
<1> DEFINE old == Local(top.args, instr.idx)
           new == IF instr.op = "vri" THEN [old EXCEPT !.type = "num", !.num = 0]
                                      ELSE [old EXCEPT !.type = "str", !.str = Empty]
           args == Assign(top.args, instr.idx, new)
           c == [top EXCEPT !.pc = top.pc + 2, !.args = args]
<1>1. Running /\ instr.op \in {"vri", "vrs"} /\ IndexOK(instr) /\ instr.idx < Args
    BY DEF Vri, Decodes
<1>2. top \in Context(prog) /\ top.args \in Locals(Args) /\ top.stack \in Seq(Element)
      /\ top.slots \in Locals(Slots)
    BY <1>1, TopContext DEF Running
<1>3. top.pc + 2 \in Nat \ {0} /\ ~Orderly(prog)
    BY <1>1, Decoded DEF Obeys, LocalOps, SlotOps
<1>4. Args \in Nat /\ instr.idx \in 0..(Args - 1)
    BY <1>1, IndexInRange DEF LocalOps, SlotOps, Args
<1>5. args \in Locals(Args)
    <2>1. old \in Element
        BY <1>2, <1>4, LocalsTypes
    <2>2. new \in Element
        BY <2>1, ValuesAssumption DEF Element, Types
    <2> HIDE DEF new
    <2> QED BY <1>2, <1>4, <2>2, LocalsTypes
<1>6. c \in Context(prog)
    <2> HIDE DEF args
    <2> QED BY <1>2, <1>3, <1>5, ContextUpdate
<1>7. c.pc # 0
    BY <1>2, <1>3 DEF Context
<1>8. Continue(c, objects)
    BY DEF Vri
<1> QED BY <1>1, <1>6, <1>7, <1>8, ContinueStep DEF IInv

LEMMA RejectOperandStep == ASSUME IInv, RejectOperand PROVE IInv'
<1>1. Running /\ instr.op \in LocalOps \cup ConstOps
    BY DEF RejectOperand, Decodes
<1>2. ~Orderly(prog)
    BY <1>1, Decoded DEF RejectOperand, Decodes, Obeys, ExpectedConst
<1>3. top.pc + 2 \in Nat \ {0}
    BY <1>1, Decoded
<1>4. top.stack \in Seq(Element)
    BY <1>1, TopContext DEF Running
<1> QED BY <1>1, <1>2, <1>3, <1>4, GotoStep DEF RejectOperand, IInv

\* What arithmetic and comparison can give.
LEMMA Results ==
    /\ \A n \in Int : Fit(n) \subseteq Nums
    /\ \A t, u \in Strs : Concat(t, u) \subseteq Strs
    /\ \A b : BoolNum(b) \in Nums
BY ValuesAssumption DEF Fit, Concat, BoolNum

\* The components of an element.
LEMMA Components ==
    ASSUME NEW el \in Element
    PROVE  el.num \in Nums /\ el.num \in Int /\ el.str \in Strs
<1>1. el.num \in Nums /\ el.str \in Strs
    BY DEF Element
<1> QED BY <1>1, ValuesAssumption

LEMMA AddStep == ASSUME IInv, Add PROVE IInv'
<1>1. Running /\ Advances /\ Has(2)
    BY DEF Add, Decodes, Advances
<1>2. el1 \in Element /\ el2 \in Element
    BY <1>1, Operands DEF el1, el2
<1>3. /\ el2.num + el1.num \in Int
      /\ el1.str \in Strs /\ el2.str \in Strs
    <2>1. el1.num \in Int /\ el2.num \in Int /\ el1.str \in Strs /\ el2.str \in Strs
        BY <1>2, Components
    <2> QED BY <2>1
<1>4. CASE HasStr
    <2>1. PICK t \in Concat(el2.str, el1.str) : Replace(2, Str(t))
        BY <1>4 DEF Add
    <2>2. Str(t) \in Element
        BY <1>3, <2>1, Results, ElementTypes
    <2> QED BY <1>1, <2>1, <2>2, ReplaceStep
<1>5. CASE ~HasStr
    <2>1. PICK n \in Fit(el2.num + el1.num) : Replace(2, Num(n))
        BY <1>5 DEF Add
    <2>2. Num(n) \in Element
        BY <1>3, <2>1, Results, ElementTypes
    <2> QED BY <1>1, <2>1, <2>2, ReplaceStep
<1> QED BY <1>4, <1>5

LEMMA ArithStep == ASSUME IInv, Arith PROVE IInv'
<1>1. Running /\ Advances /\ Has(2)
    BY DEF Arith, Decodes, Advances, ArithOps
<1>2. el1 \in Element /\ el2 \in Element
    BY <1>1, Operands DEF el1, el2
<1>3. CASE HasStr
    BY <1>1, <1>3, DropStep DEF Arith
<1>4. CASE ~HasStr
    <2>1. PICK n \in ArithResults : Replace(2, Num(n))
        BY <1>4 DEF Arith
    <2>2. el2.num - el1.num \in Int /\ el2.num * el1.num \in Int
        <3>1. el1.num \in Int /\ el2.num \in Int
            BY <1>2, Components
        <3> QED BY <3>1
    <2>3. n \in Nums
        BY <2>1, <2>2, Results DEF ArithResults
    <2>4. Num(n) \in Element
        BY <2>3, ElementTypes
    <2> QED BY <1>1, <2>1, <2>4, ReplaceStep
<1> QED BY <1>3, <1>4

LEMMA CompareStep == ASSUME IInv, Compare PROVE IInv'
<1>1. Running /\ Advances /\ Has(2) /\ instr.op \in CompareOps
    BY DEF Compare, Decodes, Advances, CompareOps
<1>2. PICK b \in Outcomes :
        Replace(2, [NoneElement EXCEPT !.type = IF HasStr THEN "str" ELSE "num",
                                       !.num = BoolNum(b)])
    BY DEF Compare
<1>3. BoolNum(b) \in Nums
    BY Results
<1>4. [NoneElement EXCEPT !.type = IF HasStr THEN "str" ELSE "num", !.num = BoolNum(b)] \in Element
    BY <1>3, ElementTypes DEF Element, Types
<1> QED BY <1>1, <1>2, <1>4, ReplaceStep

LEMMA UnaryStep == ASSUME IInv, Unary PROVE IInv'
<1>1. Running /\ Advances /\ Has(1) /\ instr.op \in UnaryOps
    BY DEF Unary, Decodes, Advances, UnaryOps
<1>2. el1 \in Element
    BY <1>1, Operands DEF el1
<1>3. CASE el1.type = "str"
    BY <1>1, <1>3, DropStep DEF Unary
<1>4. CASE el1.type # "str"
    <2>1. PICK n \in UnaryResults : Replace(1, [el1 EXCEPT !.num = n])
        BY <1>4 DEF Unary
    <2>2. -el1.num \in Int /\ -el1.num - 1 \in Int
        <3>1. el1.num \in Int
            BY <1>2, Components
        <3> QED BY <3>1
    <2>3. n \in Nums
        BY <1>1, <2>1, <2>2, Results DEF UnaryResults, UnaryOps
    <2>4. [el1 EXCEPT !.num = n] \in Element
        BY <1>2, <2>3 DEF Element
    <2> QED BY <1>1, <2>1, <2>4, ReplaceStep
<1> QED BY <1>3, <1>4

LEMMA BrStep == ASSUME IInv, Br PROVE IInv'
<1>1. Running /\ instr.op \in JumpOps
    BY DEF Br, Decodes, JumpOps
<1>2. instr.to \in DOMAIN code /\ instr.to \in Nat \ {0}
    BY <1>1, Decoded
<1>3. top.stack \in Seq(Element)
    BY <1>1, TopContext DEF Running
<1> QED BY <1>1, <1>2, <1>3, GotoStep DEF Br, IInv

LEMMA BranchStep ==
    ASSUME IInv, Running, instr.op \in TestOps \cup BoolOps,
           NEW n \in Nat, Has(n), NEW b, BranchIf(n, b)
    PROVE  IInv'
<1> DEFINE pc == IF b THEN instr.to ELSE next_pc
<1>1. pc \in DOMAIN code /\ pc \in Nat \ {0}
    BY Decoded DEF JumpOps, TestOps, BoolOps
<1>2. Goto(pc, Rest(n), DoPop(objects, Popped(n)))
    BY DEF BranchIf
<1> HIDE DEF pc
<1> QED BY <1>1, <1>2, Operands, GotoStep

LEMMA BrTestStep == ASSUME IInv, BrTest PROVE IInv'
<1>1. Running /\ Has(2) /\ instr.op \in TestOps
    BY DEF BrTest, Decodes
<1>2. PICK b \in Outcomes : BranchIf(2, b)
    BY DEF BrTest
<1> QED BY <1>1, <1>2, BranchStep

LEMMA BrBoolStep == ASSUME IInv, BrBool PROVE IInv'
<1> DEFINE b == el1.type = "num" /\ ((el1.num # 0) <=> (instr.op = "brt"))
<1>1. Running /\ Has(1) /\ instr.op \in BoolOps /\ BranchIf(1, b)
    BY DEF BrBool, Decodes
<1> HIDE DEF b
<1> QED BY <1>1, BranchStep

LEMMA NewArrStep == ASSUME IInv, NewArr PROVE IInv'
<1> DEFINE el == Ref(ref_id + 1)
           c == [top EXCEPT !.pc = next_pc, !.stack = Append(top.stack, el)]
<1>1. Running /\ Advances
    BY DEF NewArr, Decodes, Advances
<1>2. /\ top \in Context(prog) /\ top.stack \in Seq(Element)
      /\ top.slots \in Locals(Slots) /\ top.args \in Locals(Args)
      /\ Depth \in Nat \ {0} /\ Depth \in 1..Len(func_contexts)
    BY <1>1, TopContext DEF Running
<1>3. next_pc \in Nat \ {0} /\ next_pc \in DOMAIN prog.units[top.unit].funcs[top.func]
    BY <1>1, Decoded DEF Advances, code
<1>4. ref_id \in Nat /\ ref_id + 1 \in Nat
    BY DEF IInv
<1>5. el \in Element
    BY <1>4, ElementTypes
<1>6. Append(top.stack, el) \in Seq(Element)
    BY <1>2, <1>5, AppendProperties
<1>7. c \in Context(prog) /\ c.pc = next_pc
    <2> HIDE DEF el
    <2>1. c \in Context(prog)
        BY <1>2, <1>3, <1>6, ContextUpdate
    <2>2. c.pc = next_pc
        BY <1>2 DEF Context
    <2> QED BY <2>1, <2>2
<1>8. /\ ref_id' = ref_id + 1
      /\ func_contexts' = [func_contexts EXCEPT ![Depth] = c]
      /\ objects' = DoPush(MakeNewArray(objects, ref_id + 1), el)
      /\ UNCHANGED <<prog, last_context, runs, fault>>
    BY <1>2 DEF NewArr, top, Depth
<1> HIDE DEF el, c
<1>9. IsObjects(objects', ref_id')
    BY <1>4, <1>5, <1>8, MakeNewArrayType, DoPushType DEF IInv
<1>10. /\ func_contexts' \in Seq(Context(prog))
       /\ Len(func_contexts') = Len(func_contexts)
       /\ \A j \in 1..Len(func_contexts) :
            func_contexts'[j] = IF j = Depth THEN c ELSE func_contexts[j]
    BY <1>2, <1>7, <1>8, ExceptSeq DEF IInv
<1>11. Depth' = Depth /\ top' = c
    BY <1>2, <1>10 DEF Depth, top
<1>12. CallersResumed' /\ MetReadsCaller' /\ DanglingOnlyFromHost'
    <2>1. CallersResumed'
        <3> SUFFICES ASSUME NEW j \in 1..(Len(func_contexts') - 1) PROVE func_contexts'[j].pc # 0
            BY DEF CallersResumed
        <3>1. j \in 1..(Len(func_contexts) - 1) /\ j # Depth
            BY <1>2, <1>10 DEF Depth
        <3>2. func_contexts'[j] = func_contexts[j]
            BY <1>10, <3>1 DEF Depth
        <3> QED BY <3>1, <3>2 DEF CallersResumed, IInv
    <2>2. MetReadsCaller'
        BY <1>3, <1>7, <1>11 DEF MetReadsCaller
    <2>3. DanglingOnlyFromHost'
        BY <1>8, <1>11 DEF DanglingOnlyFromHost, IInv
    <2> QED BY <2>1, <2>2, <2>3
<1> QED BY <1>4, <1>8, <1>9, <1>10, <1>12 DEF IInv

\* An array found by the element handlers.
LEMMA FoundArray ==
    ASSUME IInv, Running, NEW n \in Nat, Has(n), NEW arr, NEW index \in Element,
           Finds(n, arr, index), ValidIndex(index.num)
    PROVE  /\ arr.ref \in DOMAIN DoPop(objects, Popped(n))
           /\ IsObjects(DoPop(objects, Popped(n)), ref_id)
           /\ index.num \in Nat
           /\ LET grown == Resized(DoPop(objects, Popped(n))[arr.ref].elements, index.num)
              IN  grown \in Seq(Element) /\ index.num + 1 \in 1..Len(grown)
<1>1. arr.ref \in DOMAIN DoPop(objects, Popped(n))
    BY DEF Finds
<1>2. IsObjects(DoPop(objects, Popped(n)), ref_id)
    BY Operands
<1>3. index.num \in Nat
    BY Components DEF ValidIndex
<1>4. DoPop(objects, Popped(n))[arr.ref].elements \in Seq(Element)
    BY <1>1, <1>2 DEF IsObjects, Object
<1> QED BY <1>1, <1>2, <1>3, <1>4, ResizedType

LEMMA StrElmStep == ASSUME IInv, StrElm PROVE IInv'
<1> DEFINE arr == Peek(2)
           index == Peek(1)
           val == Peek(0)
           objs == DoPop(objects, Popped(3))
           grown == Resized(objs[arr.ref].elements, index.num)
<1>1. Running /\ Advances /\ Has(3)
    BY DEF StrElm, Decodes, Advances
<1>2. index \in Element /\ val \in Element /\ Rest(3) \in Seq(Element)
    BY <1>1, Operands
<1>3. CASE ~Finds(3, arr, index)
    BY <1>1, <1>3, DropStep DEF StrElm
<1>4. CASE Finds(3, arr, index)
    <2>1. PICK junk \in 0..MaxRefId :
            Goto(next_pc, Rest(3),
                 [objs EXCEPT ![arr.ref].elements =
                    [grown EXCEPT ![index.num + 1] = Stored(grown[index.num + 1], val, junk)]])
        BY <1>4 DEF StrElm
    <2>2. ValidIndex(index.num)
        BY <1>4 DEF StrElm
    <2>3. /\ arr.ref \in DOMAIN objs /\ IsObjects(objs, ref_id)
          /\ grown \in Seq(Element) /\ index.num + 1 \in 1..Len(grown)
        BY <1>1, <1>2, <1>4, <2>2, FoundArray
    <2> DEFINE els == [grown EXCEPT ![index.num + 1] = Stored(grown[index.num + 1], val, junk)]
    <2>4. els \in Seq(Element)
        <3>1. grown[index.num + 1] \in Element
            BY <2>3, ElementOfSeq
        <3>2. Stored(grown[index.num + 1], val, junk) \in Element
            <4>1. junk \in Nat
                BY InterpreterAssumption
            <4> HIDE DEF grown, val
            <4> QED BY <1>2, <3>1, <4>1, StoredType
        <3> HIDE DEF grown, val
        <3> QED BY <2>3, <3>2, ExceptSeq
    <2>5. Goto(next_pc, Rest(3), [objs EXCEPT ![arr.ref].elements = els])
        BY <2>1
    <2> HIDE DEF els, objs, arr
    <2>6. IsObjects([objs EXCEPT ![arr.ref].elements = els], ref_id)
        BY <2>3, <2>4, StoreType DEF IInv
    <2> QED BY <1>1, <1>2, <2>5, <2>6, AdvanceStep
<1> QED BY <1>3, <1>4

LEMMA LdElmStep == ASSUME IInv, LdElm PROVE IInv'
<1> DEFINE arr == Peek(1)
           index == Peek(0)
           objs == DoPop(objects, Popped(2))
           grown == Resized(objs[arr.ref].elements, index.num)
           el == grown[index.num + 1]
           els == [grown EXCEPT ![index.num + 1] = Moved(grown[index.num + 1])]
<1>1. Running /\ Advances /\ Has(2)
    BY DEF LdElm, Decodes, Advances
<1>2. index \in Element /\ Rest(2) \in Seq(Element)
    BY <1>1, Operands
<1>3. CASE ~Finds(2, arr, index)
    BY <1>1, <1>3, DropStep DEF LdElm
<1>4. CASE Finds(2, arr, index)
    <2>1. ValidIndex(index.num)
        BY <1>4 DEF LdElm
    <2>2. Goto(next_pc, Append(Rest(2), el), DoPush([objs EXCEPT ![arr.ref].elements = els], el))
        BY <1>4 DEF LdElm
    <2>3. /\ arr.ref \in DOMAIN objs /\ IsObjects(objs, ref_id)
          /\ grown \in Seq(Element) /\ index.num + 1 \in 1..Len(grown)
        BY <1>1, <1>2, <1>4, <2>1, FoundArray
    <2>4. el \in Element
        BY <2>3, ElementOfSeq
    <2>5. els \in Seq(Element)
        <3>1. Moved(grown[index.num + 1]) \in Element
            BY <2>4, ElementTypes
        <3> HIDE DEF grown
        <3> QED BY <2>3, <3>1, ExceptSeq
    <2> HIDE DEF els, objs, arr, el
    <2>6. IsObjects(DoPush([objs EXCEPT ![arr.ref].elements = els], el), ref_id)
        BY <2>3, <2>4, <2>5, StoreType, DoPushType DEF IInv
    <2>7. Append(Rest(2), el) \in Seq(Element)
        BY <1>2, <2>4, AppendProperties
    <2> QED BY <1>1, <2>2, <2>6, <2>7, AdvanceStep
<1> QED BY <1>3, <1>4

-----------------------------------------------------------------------------
(* Calls and returns                                                         *)

\* The caller as a call leaves it: past its operands, otherwise as it was.
LEMMA ResumedType ==
    ASSUME IInv, Running, instr.op = "call", NEW stack \in Seq(Element)
    PROVE  /\ Resumed \in Context(prog) /\ Resumed.pc # 0
           /\ [Resumed EXCEPT !.stack = stack] \in Context(prog)
           /\ [Resumed EXCEPT !.stack = stack].pc # 0
<1>1. /\ top \in Context(prog) /\ top.stack \in Seq(Element)
      /\ top.slots \in Locals(Slots) /\ top.args \in Locals(Args)
    BY TopContext DEF Running
<1>2. next_pc \in Nat \ {0} /\ next_pc \in DOMAIN prog.units[top.unit].funcs[top.func]
    BY Decoded DEF code
<1>3. Resumed \in Context(prog)
    BY <1>1, <1>2, ContextUpdate DEF Resumed
<1>4. Resumed.pc = next_pc /\ [Resumed EXCEPT !.stack = stack].pc = next_pc
    BY <1>1, <1>3 DEF Resumed, Context
<1>5. Resumed.unit = top.unit /\ Resumed.func = top.func
    BY <1>1 DEF Resumed, Context
<1>6. [Resumed EXCEPT !.stack = stack] \in Context(prog)
    BY <1>1, <1>2, <1>3, <1>5, ContextUpdate
<1> QED BY <1>2, <1>3, <1>4, <1>6

\* A call that ends at once leaves the caller c, past its call, on top.
LEMMA CallerStep ==
    ASSUME IInv, Running, NEW c \in Context(prog), c.pc # 0,
           func_contexts' = [func_contexts EXCEPT ![Depth] = c],
           last_context' = Depth, IsObjects(objects', ref_id),
           UNCHANGED <<prog, ref_id, runs, fault>>
    PROVE  IInv'
<1>1. Depth \in Nat \ {0} /\ Depth \in 1..Len(func_contexts)
    BY TopContext DEF Running
<1>2. /\ func_contexts' \in Seq(Context(prog))
      /\ Len(func_contexts') = Len(func_contexts)
      /\ \A j \in 1..Len(func_contexts) :
            func_contexts'[j] = IF j = Depth THEN c ELSE func_contexts[j]
    BY <1>1, ExceptSeq DEF IInv
<1>3. Depth' = Depth /\ top' = c
    BY <1>1, <1>2 DEF Depth, top
<1>4. CallersResumed'
    BY <1>1, <1>2 DEF CallersResumed, IInv, Depth
<1>5. MetReadsCaller' /\ DanglingOnlyFromHost'
    BY <1>3 DEF MetReadsCaller, DanglingOnlyFromHost, IInv
<1> QED BY <1>1, <1>2, <1>4, <1>5 DEF IInv

LEMMA CallUnresolvedStep == ASSUME IInv, CallUnresolved PROVE IInv'
<1>1. Running /\ instr.op = "call"
    BY DEF CallUnresolved, Calls, Decodes
<1>2. Resumed \in Context(prog) /\ Resumed.pc # 0
    BY <1>1, ResumedType, EmptySeq
<1> QED BY <1>1, <1>2, CallerStep DEF CallUnresolved, Calls, IInv

LEMMA CallStdStep ==
    ASSUME IInv, NEW names, NEW stack \in Seq(Element), NEW objs, IsObjects(objs, ref_id),
           CallStd(names, stack, objs)
    PROVE  IInv'
<1> DEFINE c == [Resumed EXCEPT !.stack = stack]
<1>1. Running /\ instr.op = "call"
    BY DEF CallStd, Calls, Decodes
<1>2. c \in Context(prog) /\ c.pc # 0
    BY <1>1, ResumedType
<1>3. func_contexts' = [func_contexts EXCEPT ![Depth] = c] /\ objects' = objs
    BY DEF CallStd
<1> HIDE DEF c
<1> QED BY <1>1, <1>2, <1>3, CallerStep DEF CallStd, Calls

LEMMA StdPrintStep == ASSUME IInv, StdPrint PROVE IInv'
<1>1. Running /\ Has(1)
    BY DEF StdPrint, Decodes
<1>2. PICK n \in PrintPops : CallStd({"print"}, Rest(n), DoPop(objects, Popped(n)))
    BY DEF StdPrint
<1>3. Len(top.stack) \in Nat
    BY <1>1, TopContext DEF Running
<1>4. n \in Nat /\ Has(n)
    BY <1>1, <1>2, <1>3 DEF PrintPops, Has
<1> QED BY <1>1, <1>2, <1>4, Operands, CallStdStep

LEMMA StdSinStep == ASSUME IInv, StdSin PROVE IInv'
<1>1. Running /\ Has(1)
    BY DEF StdSin, Decodes
<1>2. Rest(1) \in Seq(Element) /\ IsObjects(DoPop(objects, Popped(1)), ref_id)
    BY <1>1, Operands
<1>3. \A n \in Nums : Append(Rest(1), Num(n)) \in Seq(Element)
    BY <1>2, ElementTypes, AppendProperties
<1>4. CASE el1.type = "num"
    BY <1>3, <1>4, CallStdStep DEF StdSin, IInv
<1>5. CASE el1.type # "num"
    BY <1>2, <1>5, CallStdStep DEF StdSin
<1> QED BY <1>4, <1>5

LEMMA StdLengthStep == ASSUME IInv, StdLength PROVE IInv'
<1> DEFINE objs == DoPop(objects, Popped(1))
           Gives(n) == CallStd({"length"}, Append(Rest(1), Num(n)), objs)
<1>1. Running /\ Has(1)
    BY DEF StdLength, Decodes
<1>2. Rest(1) \in Seq(Element) /\ IsObjects(objs, ref_id) /\ el1 \in Element
    BY <1>1, Operands DEF el1
<1>3. ASSUME NEW n \in Nums, Gives(n) PROVE IInv'
    <2>1. Append(Rest(1), Num(n)) \in Seq(Element)
        BY <1>2, ElementTypes, AppendProperties
    <2> QED BY <1>2, <1>3, <2>1, CallStdStep
<1>4. CASE el1.type = "num"
    BY <1>3, <1>4, ValuesAssumption DEF StdLength
<1>5. CASE el1.type = "str"
    BY <1>3, <1>5 DEF StdLength
<1>6. CASE el1.type = "ref"
    <2>1. PICK n \in Fit(Len(objs[el1.ref].elements)) : Gives(n)
        BY <1>6 DEF StdLength
    <2>2. el1.ref \in DOMAIN objs
        BY <1>6 DEF StdLength
    <2>3. objs[el1.ref].elements \in Seq(Element)
        BY <1>2, <2>2 DEF IsObjects, Object
    <2>4. Len(objs[el1.ref].elements) \in Int
        BY <2>3, LenProperties
    <2>5. n \in Nums
        BY <2>1, <2>4, Results
    <2> QED BY <1>3, <2>1, <2>5
<1>7. CASE el1.type = "none"
    BY <1>2, <1>7, CallStdStep DEF StdLength
<1>8. el1.type \in Types
    BY <1>2 DEF Element
<1> QED BY <1>4, <1>5, <1>6, <1>7, <1>8 DEF Types

\* No local is assigned in a new context.
LEMMA NoLocals == \A n \in Nat : << >> \in Locals(n)
<1>1. << >> \in Seq(Element) /\ Len(<< >>) = 0
    BY EmptySeq
<1>2. << >> \in [1..0 -> Element]
    BY <1>1, LenProperties
<1>3. \A n \in Nat : 1..0 \in SUBSET (0..(n - 1))
    OBVIOUS
<1> QED BY <1>2, <1>3 DEF Locals

\* The context of a function that is called is one of the program's.
LEMMA NewContextType ==
    ASSUME prog \in Programs, NEW u \in DOMAIN prog.units, NEW f \in DOMAIN prog.units[u].funcs
    PROVE  NewContext(u, f) \in Context(prog) /\ NewContext(u, f).pc = 0
<1>1. 0 \in DOMAIN prog.units[u].funcs[f]
    BY InterpreterAssumption DEF WellFormed, WellFormedCode
<1>2. f \in FuncIds(prog)
    BY DEF FuncIds
<1>3. << >> \in Locals(Slots) /\ << >> \in Locals(Args)
    BY NoLocals DEF Slots, Args
<1>4. << >> \in Seq(Element)
    BY EmptySeq
<1> QED BY <1>1, <1>2, <1>3, <1>4 DEF NewContext, Context

LEMMA CallInterpretedStep == ASSUME IInv, CallInterpreted PROVE IInv'
<1> DEFINE base == [func_contexts EXCEPT ![Depth] = Resumed]
           c == NewContext(CalleeUnit, CalleeFunc)
<1>1. Running /\ instr.op = "call" /\ Depth < MaxDepth
    BY DEF CallInterpreted, Calls, Decodes
<1>2. Depth \in Nat \ {0} /\ Depth \in 1..Len(func_contexts) /\ Depth = Len(func_contexts)
    BY <1>1, TopContext DEF Running, Depth
<1>3. Resumed \in Context(prog) /\ Resumed.pc # 0
    BY <1>1, ResumedType, EmptySeq
<1>4. c \in Context(prog) /\ c.pc = 0
    BY NewContextType DEF CallInterpreted, Interpreted, IInv
<1>5. /\ base \in Seq(Context(prog)) /\ Len(base) = Depth
      /\ \A j \in 1..Depth : base[j] = IF j = Depth THEN Resumed ELSE func_contexts[j]
    BY <1>2, <1>3, ExceptSeq DEF IInv
<1>6. func_contexts' = Append(base, c)
    BY DEF CallInterpreted
<1> HIDE DEF base, c
<1>7. /\ func_contexts' \in Seq(Context(prog))
      /\ Len(func_contexts') = Depth + 1
      /\ \A j \in 1..Depth : func_contexts'[j] = base[j]
    BY <1>2, <1>4, <1>5, <1>6, AppendProperties
<1>8. CallersResumed'
    BY <1>2, <1>3, <1>5, <1>7 DEF CallersResumed, IInv
<1>9. Depth' = Depth + 1 /\ last_context' = Depth
    BY <1>7 DEF Depth, CallInterpreted, Calls
<1>10. MetReadsCaller'
    BY <1>2, <1>9 DEF MetReadsCaller
<1>11. fault' = fault /\ fault = "none"
    BY <1>1 DEF CallInterpreted, Running
<1>12. DanglingOnlyFromHost'
    BY <1>11 DEF DanglingOnlyFromHost
<1>13. Len(func_contexts') <= MaxDepth
    BY <1>1, <1>2, <1>7, InterpreterAssumption
<1> QED BY <1>2, <1>7, <1>8, <1>9, <1>10, <1>12, <1>13 DEF IInv, CallInterpreted

LEMMA ArgcType == ASSUME IInv, Running, instr.op = "met" PROVE instr.argc \in Nat
<1>1. instr.argc \in UInt16
    BY Decoded DEF Instr, ConstOps, LocalOps, SlotOps, ArgOps, JumpOps, TestOps, BoolOps,
                   PlainOps, ArithOps, CompareOps, UnaryOps, UnhandledOps
<1>2. UInt16 \subseteq Nat
    BY DEF UInt16
<1> QED BY <1>1, <1>2

LEMMA MetStep == ASSUME IInv, Met PROVE IInv'
<1>1. Running /\ Advances /\ instr.op = "met"
    BY DEF Met, Decodes, Advances
<1>2. /\ top \in Context(prog) /\ top.stack \in Seq(Element)
      /\ Depth \in Nat \ {0} /\ Depth \in 1..Len(func_contexts) /\ Depth = Len(func_contexts)
    BY <1>1, TopContext DEF Running, Depth
<1>3. next_pc \in Nat \ {0} /\ next_pc \in DOMAIN code
    BY <1>1, Decoded DEF Advances
<1>4. CASE instr.argc = 0 \/ last_context = 0
    BY <1>1, <1>2, <1>4, AdvanceStep DEF Met, IInv
<1>5. CASE ~(instr.argc = 0 \/ last_context = 0)
    <2> DEFINE n     == Len(Caller.stack)
               taken == [i \in 0..(instr.argc - 1) |-> Caller.stack[n - i]]
               less  == [Caller EXCEPT !.stack = CallerLeft]
               given == [func_contexts EXCEPT ![last_context] = less]
               c     == [given[Depth] EXCEPT !.pc = next_pc, !.args = taken]
    <2>1. /\ last_context \in 1..Len(func_contexts)
          /\ instr.argc <= Args /\ instr.argc <= n
          /\ UNCHANGED <<prog, last_context, objects, ref_id, runs, fault>>
        BY <1>2, <1>5 DEF Met
    <2>2. instr.argc \in Nat
        BY <1>1, ArgcType
    <2>3. Caller \in Context(prog)
        BY <2>1, ElementOfSeq DEF IInv, Caller
    <2>4. Caller.stack \in Seq(Element) /\ n \in Nat
        BY <2>3, LenProperties DEF Context
    <2>5. CallerLeft \in Seq(Element)
        BY <2>1, <2>2, <2>4, StackTypes DEF CallerLeft
    <2>6. taken \in Locals(Args)
        <3> DEFINE S == 0..(instr.argc - 1)
        <3>1. ASSUME NEW i \in S PROVE Caller.stack[n - i] \in Element
            <4>1. i \in Nat /\ i < n
                BY <2>1, <2>2, <2>4
            <4> QED BY <2>4, <4>1, ElementOfSeq
        <3>2. \A i \in S : i \in 0..(Args - 1)
            BY <2>1, <2>2 DEF Args
        <3>3. taken \in [S -> Element]
            BY <3>1
        <3> HIDE DEF S, taken
        <3>4. S \in SUBSET (0..(Args - 1))
            BY <3>2
        <3> QED BY <3>3, <3>4 DEF Locals
    <2>7. less \in Context(prog) /\ less.pc = Caller.pc
        BY <2>3, <2>5 DEF Context
    <2>8. /\ given \in Seq(Context(prog)) /\ Len(given) = Len(func_contexts)
          /\ \A j \in 1..Len(func_contexts) :
                given[j] = IF j = last_context THEN less ELSE func_contexts[j]
        <3> HIDE DEF less
        <3> QED BY <2>1, <2>7, ExceptSeq DEF IInv
    <2>9. /\ given[Depth] \in Context(prog)
          /\ given[Depth].unit = top.unit /\ given[Depth].func = top.func
        <3>1. given[Depth] \in Context(prog)
            BY <1>2, <2>8, ElementOfSeq
        <3>2. CASE last_context = Depth
            <4>1. given[Depth] = less /\ Caller = top
                BY <1>2, <2>8, <3>2 DEF Caller, top
            <4>2. less.unit = Caller.unit /\ less.func = Caller.func
                BY <2>3 DEF Context
            <4> QED BY <3>1, <4>1, <4>2
        <3>3. CASE last_context # Depth
            BY <1>2, <2>8, <3>1, <3>3 DEF top
        <3> QED BY <3>1, <3>2, <3>3
    <2>10. c \in Context(prog) /\ c.pc = next_pc
        <3>1. next_pc \in DOMAIN prog.units[top.unit].funcs[top.func]
            BY <1>3 DEF code
        <3>2. given[Depth].slots \in Locals(Slots) /\ given[Depth].stack \in Seq(Element)
            BY <2>9 DEF Context
        <3>3. c.pc = next_pc
            <4> HIDE DEF given, taken
            <4> QED BY <2>9 DEF Context
        <3> HIDE DEF given, taken
        <3> QED BY <1>3, <2>6, <2>9, <3>1, <3>2, <3>3, ContextUpdate
    <2>11. func_contexts' = [given EXCEPT ![Depth] = c]
        <3>1. given = [func_contexts EXCEPT ![last_context].stack = CallerLeft]
            BY DEF Caller
        <3>2. func_contexts' = [given EXCEPT ![Depth].args = taken, ![Depth].pc = next_pc]
            BY <1>5, <3>1 DEF Met
        <3>3. [given EXCEPT ![Depth].args = taken, ![Depth].pc = next_pc] = [given EXCEPT ![Depth] = c]
            <4> HIDE DEF given, taken
            <4> QED BY <1>2, <2>8, <2>9, LenProperties DEF Context
        <3> QED BY <3>2, <3>3
    <2> HIDE DEF given, c, taken, less
    <2>12. /\ func_contexts' \in Seq(Context(prog)) /\ Len(func_contexts') = Len(func_contexts)
           /\ \A j \in 1..Len(func_contexts) : func_contexts'[j] = IF j = Depth THEN c ELSE given[j]
        BY <1>2, <2>8, <2>10, <2>11, ExceptSeq
    <2>13. CallersResumed'
        BY <1>2, <2>1, <2>7, <2>8, <2>12 DEF CallersResumed, IInv, Caller
    <2>14. Depth' = Depth /\ top' = c
        BY <1>2, <2>12 DEF Depth, top
    <2>15. MetReadsCaller' /\ DanglingOnlyFromHost'
        BY <1>3, <2>1, <2>10, <2>14 DEF MetReadsCaller, DanglingOnlyFromHost, IInv
    <2> QED BY <2>1, <2>12, <2>13, <2>15 DEF IInv
<1> QED BY <1>4, <1>5

LEMMA RetRefusedStep == ASSUME IInv, RetRefused PROVE IInv'
<1>1. Running /\ Advances
    BY DEF RetRefused, Decodes, Advances
<1>2. top.stack \in Seq(Element)
    BY <1>1, TopContext DEF Running
<1> QED BY <1>1, <1>2, AdvanceStep DEF RetRefused, IInv

\* When the innermost context goes, the one under it is past its met.
LEMMA PopContext ==
    ASSUME IInv, Running, NEW below, Depth > 1 => below \in Context(prog) /\ below.pc # 0,
           func_contexts' = [SubSeq(func_contexts, 1, Depth - 1) EXCEPT ![Depth - 1] = below],
           IsObjects(objects', ref_id), UNCHANGED <<prog, last_context, ref_id, runs, fault>>
    PROVE  IInv'
<1> DEFINE rest == SubSeq(func_contexts, 1, Depth - 1)
<1>1. Depth \in Nat \ {0} /\ Depth = Len(func_contexts)
    BY TopContext DEF Running, Depth
<1>2. \A j \in 1..(Depth - 1) : func_contexts[j] \in Context(prog)
    BY <1>1, ElementOfSeq DEF IInv
<1>3. /\ rest \in Seq(Context(prog)) /\ Len(rest) = Depth - 1
      /\ \A j \in 1..(Depth - 1) : rest[j] = func_contexts[j]
    BY <1>1, <1>2, SubSeqProperties
<1> HIDE DEF rest
<1>4. func_contexts' = [rest EXCEPT ![Depth - 1] = below]
    BY DEF rest
<1>5. /\ func_contexts' \in Seq(Context(prog)) /\ Len(func_contexts') = Depth - 1
      /\ \A j \in 1..(Depth - 1) :
            func_contexts'[j] = IF j = Depth - 1 THEN below ELSE func_contexts[j]
    <2>1. CASE Depth > 1
        <3> DEFINE S == Context(prog)
                   n == Depth - 1
        <3>1. rest \in Seq(S) /\ Len(rest) = n /\ n \in 1..Len(rest)
            BY <1>1, <1>3, <2>1
        <3>2. below \in S
            BY <2>1
        <3>3. func_contexts' = [rest EXCEPT ![n] = below]
            BY <1>4
        <3>4. \A j \in 1..n : rest[j] = func_contexts[j]
            BY <1>3
        <3> HIDE DEF S, n
        <3>5. /\ [rest EXCEPT ![n] = below] \in Seq(S) /\ Len([rest EXCEPT ![n] = below]) = Len(rest)
              /\ \A j \in 1..Len(rest) :
                    [rest EXCEPT ![n] = below][j] = IF j = n THEN below ELSE rest[j]
            BY <3>1, <3>2, ExceptSeq
        <3>6. /\ func_contexts' \in Seq(S) /\ Len(func_contexts') = n
              /\ \A j \in 1..n : func_contexts'[j] = IF j = n THEN below ELSE func_contexts[j]
            BY <3>1, <3>3, <3>4, <3>5
        <3> QED BY <3>6 DEF S, n
    <2>2. CASE ~(Depth > 1)
        <3>1. Depth = 1 /\ Len(rest) = 0 /\ DOMAIN rest = {}
            BY <1>1, <1>3, <2>2, LenProperties
        <3>2. rest = [j \in DOMAIN rest |-> rest[j]]
            BY <1>3, LenProperties
        <3>3. func_contexts' = rest
            BY <1>4, <3>1, <3>2
        <3>4. func_contexts' \in Seq(Context(prog)) /\ Len(func_contexts') = Depth - 1
            BY <1>3, <3>3
        <3>5. \A j : j \notin 1..(Depth - 1)
            BY <3>1
        <3> QED BY <3>4, <3>5
    <2> QED BY <2>1, <2>2
<1>6. Depth' = Depth - 1 /\ (Depth > 1 => top' = below)
    <2>1. Depth' = Depth - 1
        BY <1>5 DEF Depth
    <2>2. top' = func_contexts'[Depth']
        BY DEF top
    <2> QED BY <1>1, <1>5, <2>1, <2>2
<1>7. CallersResumed'
    BY <1>1, <1>5 DEF CallersResumed, IInv
<1>8. MetReadsCaller'
    BY <1>1, <1>6 DEF MetReadsCaller
<1>9. DanglingOnlyFromHost'
    BY DEF DanglingOnlyFromHost, Running
<1>10. Len(func_contexts') <= MaxDepth
    BY <1>1, <1>5, InterpreterAssumption DEF IInv
<1> QED BY <1>5, <1>7, <1>8, <1>9, <1>10 DEF IInv

LEMMA RetValueStep == ASSUME IInv, RetValue PROVE IInv'
<1> DEFINE caller == func_contexts[Depth - 1]
           below == [caller EXCEPT !.stack = Append(caller.stack, el1)]
<1>1. Running /\ Has(1) /\ Depth > 1
    BY TopContext DEF RetValue, Decodes, Running, Has
<1>2. Depth \in Nat \ {0} /\ Depth = Len(func_contexts) /\ Depth - 1 \in 1..Len(func_contexts)
    BY <1>1, TopContext DEF Running, Depth
<1>3. caller \in Context(prog) /\ caller.pc # 0
    BY <1>2, ElementOfSeq DEF IInv, CallersResumed
<1>4. Append(caller.stack, el1) \in Seq(Element)
    <2>1. caller.stack \in Seq(Element)
        BY <1>3 DEF Context
    <2>2. el1 \in Element
        BY <1>1, Operands DEF el1
    <2> QED BY <2>1, <2>2, AppendProperties
<1>5. below \in Context(prog) /\ below.pc = caller.pc
    <2> HIDE DEF caller
    <2> QED BY <1>3, <1>4 DEF Context
<1>6. func_contexts' = [SubSeq(func_contexts, 1, Depth - 1) EXCEPT ![Depth - 1] = below]
    <2>1. SubSeq(func_contexts, 1, Depth - 1)[Depth - 1] = caller
        BY <1>2, SubSeqProperties DEF IInv
    <2> QED BY <2>1 DEF RetValue
<1>7. IsObjects(objects', ref_id)
    BY <1>1, Operands DEF RetValue
<1> HIDE DEF caller, below
<1> QED BY <1>1, <1>3, <1>5, <1>6, <1>7, PopContext DEF RetValue

LEMMA LeaveStep == ASSUME IInv, Leave PROVE IInv'
<1> DEFINE below == func_contexts[Depth - 1]
           rest == SubSeq(func_contexts, 1, Depth - 1)
<1>1. Running
    BY DEF Leave, Decodes
<1>2. Depth \in Nat \ {0} /\ Depth = Len(func_contexts)
    BY <1>1, TopContext DEF Running, Depth
<1>3. Depth > 1 => below \in Context(prog) /\ below.pc # 0
    BY <1>2, ElementOfSeq DEF IInv, CallersResumed
<1>4. rest = [rest EXCEPT ![Depth - 1] = below]
    <2>1. \A j \in 1..(Depth - 1) : func_contexts[j] \in Context(prog)
        BY <1>2, ElementOfSeq DEF IInv
    <2>2. /\ rest \in Seq(Context(prog)) /\ Len(rest) = Depth - 1
          /\ \A j \in 1..(Depth - 1) : rest[j] = func_contexts[j]
        BY <1>2, <2>1, SubSeqProperties
    <2> HIDE DEF rest
    <2>3. rest \in [1..(Depth - 1) -> Context(prog)]
        BY <2>2, LenProperties
    <2> QED BY <1>2, <2>2, <2>3
<1>5. func_contexts' = [rest EXCEPT ![Depth - 1] = below]
    BY <1>4 DEF Leave
<1> HIDE DEF below
<1> QED BY <1>1, <1>3, <1>5, PopContext DEF Leave, IInv

LEMMA HostCallStep == ASSUME IInv, HostCall PROVE IInv'
<1>1. PICK e \in prog.entries : func_contexts' = <<NewContext(e[1], e[2])>>
    BY DEF HostCall
<1> DEFINE c == NewContext(e[1], e[2])
<1>2. c \in Context(prog) /\ c.pc = 0
    <2>1. e[1] \in DOMAIN prog.units /\ e[2] \in DOMAIN prog.units[e[1]].funcs
        BY InterpreterAssumption DEF IInv, WellFormed
    <2> QED BY <2>1, NewContextType DEF IInv
<1>3. func_contexts' = <<c>>
    BY <1>1
<1> HIDE DEF c
<1>4. func_contexts' \in Seq(Context(prog)) /\ Len(func_contexts') = 1
    BY <1>2, <1>3
<1>5. Depth' = 1
    BY <1>4 DEF Depth
<1>6. CallersResumed'
    BY <1>4 DEF CallersResumed
<1>7. MetReadsCaller' /\ DanglingOnlyFromHost'
    BY <1>5 DEF MetReadsCaller, DanglingOnlyFromHost
<1>8. Len(func_contexts') <= MaxDepth
    BY <1>4, InterpreterAssumption
<1> QED BY <1>4, <1>6, <1>7, <1>8 DEF IInv, HostCall

\* A function that finds last_context dangling was called by the host.
LEMMA DanglingCallerStep == ASSUME IInv, DanglingCaller PROVE IInv'
<1>1. Running /\ top.pc = 0
    BY Decoded DEF DanglingCaller, Decodes
<1>2. Depth \in Nat \ {0}
    BY <1>1, TopContext DEF Running
<1>3. Depth = 1
    BY <1>1, <1>2 DEF IInv, MetReadsCaller, DanglingCaller
<1>4. Fault("dangling") /\ "dangling" \in Faults
    BY DEF DanglingCaller, Faults
<1> QED BY <1>3, <1>4, FaultStep

LEMMA FailureStep == ASSUME IInv, Failure PROVE IInv'
<1>1. ASSUME NEW kind \in Faults \ {"dangling"}, Fault(kind) PROVE IInv'
    BY <1>1, FaultStep
<1>2. CASE Underflow
    BY <1>1, <1>2 DEF Underflow, Faults
<1>3. CASE Misdecode
    BY <1>1, <1>3 DEF Misdecode, Faults
<1>4. CASE NoHandler
    BY <1>1, <1>4 DEF NoHandler, Faults
<1>5. CASE DanglingCaller
    BY <1>5, DanglingCallerStep
<1>6. CASE BadIndex
    BY <1>1, <1>6 DEF BadIndex, Faults
<1>7. CASE NullObject
    BY <1>1, <1>7 DEF NullObject, Faults
<1>8. CASE ModByZero
    BY <1>1, <1>8 DEF ModByZero, Faults
<1>9. CASE BadAlloc
    BY <1>1, <1>9 DEF BadAlloc, Faults
<1> QED BY <1>2, <1>3, <1>4, <1>5, <1>6, <1>7, <1>8, <1>9 DEF Failure

-----------------------------------------------------------------------------
(* IInv is inductive                                                         *)

LEMMA InitIInv == Init => IInv
<1> SUFFICES ASSUME Init PROVE IInv
    OBVIOUS
<1>1. func_contexts \in Seq(Context(prog)) /\ Len(func_contexts) = 0
    BY EmptySeq DEF Init
<1>2. Depth = 0
    BY <1>1 DEF Depth
<1>3. IsObjects(objects, ref_id)
    BY EmptySeq, LenProperties DEF Init, IsObjects
<1>4. CallersResumed /\ MetReadsCaller /\ DanglingOnlyFromHost
    BY <1>1, <1>2 DEF Init, CallersResumed, MetReadsCaller, DanglingOnlyFromHost
<1>5. Len(func_contexts) <= MaxDepth
    BY <1>1, InterpreterAssumption
<1> QED BY <1>1, <1>3, <1>4, <1>5 DEF Init, IInv, Faults, Garbage

LEMMA NextIInv == IInv /\ [Next]_vars => IInv'
<1> SUFFICES ASSUME IInv, [Next]_vars PROVE IInv'
    OBVIOUS
<1>1. CASE HostCall
    BY <1>1, HostCallStep
<1>2. CASE LdCst
    BY <1>2, LdCstStep
<1>3. CASE LdLc
    BY <1>3, LdLcStep
<1>4. CASE LdArg
    BY <1>4, LdArgStep
<1>5. CASE StrLc
    BY <1>5, StrLcStep
<1>6. CASE StrArg
    BY <1>6, StrArgStep
<1>7. CASE Vri
    BY <1>7, VriStep
<1>8. CASE RejectOperand
    BY <1>8, RejectOperandStep
<1>9. CASE Add
    BY <1>9, AddStep
<1>10. CASE Arith
    BY <1>10, ArithStep
<1>11. CASE Compare
    BY <1>11, CompareStep
<1>12. CASE Unary
    BY <1>12, UnaryStep
<1>13. CASE Br
    BY <1>13, BrStep
<1>14. CASE BrTest
    BY <1>14, BrTestStep
<1>15. CASE BrBool
    BY <1>15, BrBoolStep
<1>16. CASE NewArr
    BY <1>16, NewArrStep
<1>17. CASE StrElm
    BY <1>17, StrElmStep
<1>18. CASE LdElm
    BY <1>18, LdElmStep
<1>19. CASE CallUnresolved
    BY <1>19, CallUnresolvedStep
<1>20. CASE CallInterpreted
    BY <1>20, CallInterpretedStep
<1>21. CASE StdPrint
    BY <1>21, StdPrintStep
<1>22. CASE StdSin
    BY <1>22, StdSinStep
<1>23. CASE StdLength
    BY <1>23, StdLengthStep
<1>24. CASE Met
    BY <1>24, MetStep
<1>25. CASE RetRefused
    BY <1>25, RetRefusedStep
<1>26. CASE RetValue
    BY <1>26, RetValueStep
<1>27. CASE Leave
    BY <1>27, LeaveStep
<1>28. CASE Failure
    BY <1>28, FailureStep
<1>29. CASE UNCHANGED vars
    BY <1>29 DEF vars, IInv, CallersResumed, MetReadsCaller, DanglingOnlyFromHost, Depth, top
<1> QED BY <1>1, <1>2, <1>3, <1>4, <1>5, <1>6, <1>7, <1>8, <1>9, <1>10, <1>11, <1>12, <1>13,
           <1>14, <1>15, <1>16, <1>17, <1>18, <1>19, <1>20, <1>21, <1>22, <1>23, <1>24, <1>25,
           <1>26, <1>27, <1>28, <1>29 DEF Next, do_opcode, Handler

LEMMA Invariance == Spec => []IInv
<1> QED BY InitIInv, NextIInv, PTL DEF Spec

-----------------------------------------------------------------------------
(* What follows from it                                                      *)

LEMMA ContextsAreContexts == ASSUME IInv, NEW i \in 1..Depth PROVE IsContext(func_contexts[i])
<1>1. func_contexts[i] \in Context(prog)
    BY ElementOfSeq DEF IInv, Depth
<1>2. ASSUME NEW n, NEW locals \in Locals(n)
      PROVE  DOMAIN locals \subseteq 0..(n - 1) /\ \A j \in DOMAIN locals : locals[j] \in Element
    BY DEF Locals
<1> QED BY <1>1, <1>2 DEF Context, IsContext

\* Whatever the program and the bounds, every context holds elements only, in
\* slots that exist, and every object is an array with a natural counter.
THEOREM TypeCorrect == Spec => []TypeOK
<1>1. IInv => TypeOK
    <2> SUFFICES ASSUME IInv PROVE TypeOK
        OBVIOUS
    <2>1. DOMAIN func_contexts = 1..Depth /\ Depth \in 0..MaxDepth
        BY LenProperties, InterpreterAssumption DEF IInv, Depth
    <2> QED BY <2>1, ContextsAreContexts DEF IInv, TypeOK
<1> QED BY <1>1, Invariance, PTL

\* Whatever its handlers meet, an orderly program never has a pc between two
\* instructions.
THEOREM Aligned == Spec => []PcAligned
<1>1. IInv => PcAligned
    <2> SUFFICES ASSUME IInv, Orderly(prog), NEW i \in 1..Depth
                 PROVE  LET c == func_contexts[i]
                        IN  c.pc \in DOMAIN prog.units[c.unit].funcs[c.func]
        BY DEF PcAligned
    <2>1. func_contexts[i] \in Context(prog)
        BY ElementOfSeq DEF IInv, Depth
    <2> QED BY <2>1 DEF Context
<1> QED BY <1>1, Invariance, PTL

\* A called function takes its arguments from the context that called it.
THEOREM ArgumentsFromCaller == Spec => []MetReadsCaller
<1>1. IInv => MetReadsCaller
    BY DEF IInv
<1> QED BY <1>1, Invariance, PTL

\* last_context can be found dangling only by a function the host calls.
THEOREM DanglingFromHost == Spec => []DanglingOnlyFromHost
<1>1. IInv => DanglingOnlyFromHost
    BY DEF IInv
<1> QED BY <1>1, Invariance, PTL

-----------------------------------------------------------------------------
(* The interpreter implements CallStack                                      *)

\* A context that is about to take its arguments has done nothing yet.
FreshEmpty ==
    Depth > 0 /\ top.pc = 0 => top.stack = << >> /\ top.args = << >>

-----------------------------------------------------------------------------
(* Frames                                                                    *)

Phase(c) == IF c.pc = 0 THEN "fresh" ELSE "working"

FrameOf(c) == [phase |-> Phase(c), stack |-> c.stack, args |-> c.args]

FrameSet == [phase : {"fresh", "working"}, stack : Seq(Element), args : Locals(Args)]

FramesOf(contexts) == [i \in 1..Len(contexts) |-> FrameOf(contexts[i])]

\* A sequence of contexts makes a sequence of frames.
LEMMA FramesType ==
    ASSUME NEW p, NEW contexts \in Seq(Context(p))
    PROVE  /\ FramesOf(contexts) \in Seq(FrameSet)
           /\ Len(FramesOf(contexts)) = Len(contexts) /\ Len(contexts) \in Nat
           /\ DOMAIN FramesOf(contexts) = 1..Len(contexts)
           /\ \A i \in 1..Len(contexts) : FramesOf(contexts)[i] = FrameOf(contexts[i])
<1>1. Len(contexts) \in Nat
    BY LenProperties
<1>2. \A i \in 1..Len(contexts) : FrameOf(contexts[i]) \in FrameSet
    <2> TAKE i \in 1..Len(contexts)
    <2>1. contexts[i] \in Context(p)
        BY ElementOfSeq
    <2>2. contexts[i].stack \in Seq(Element) /\ contexts[i].args \in Locals(Args)
        BY <2>1 DEF Context
    <2> QED BY <2>2 DEF FrameOf, FrameSet, Phase
<1>3. FramesOf(contexts) \in Seq(FrameSet)
    BY <1>1, <1>2, IsASeq DEF FramesOf
<1>4. DOMAIN FramesOf(contexts) = 1..Len(contexts)
    BY DEF FramesOf
<1>5. Len(FramesOf(contexts)) = Len(contexts)
    BY <1>1, <1>3, <1>4, LenProperties
<1> QED BY <1>1, <1>3, <1>4, <1>5 DEF FramesOf

LEMMA FrameFields ==
    \A c : FrameOf(c).phase = Phase(c) /\ FrameOf(c).stack = c.stack /\ FrameOf(c).args = c.args
BY DEF FrameOf

LEMMA FramesAre == Frames = FramesOf(func_contexts) /\ Frames' = FramesOf(func_contexts')
BY DEF Frames, FramesOf, FrameOf, Phase, Depth

\* What CallStack sees of the interpreter, before and after a step.
LEMMA FramesKnown ==
    ASSUME IInv, IInv'
    PROVE  /\ Len(Frames) = Depth /\ Depth \in Nat /\ DOMAIN Frames = 1..Depth
           /\ Len(Frames') = Len(func_contexts') /\ DOMAIN Frames' = 1..Len(func_contexts')
           /\ \A i \in 1..Depth : Frames[i] = FrameOf(func_contexts[i])
           /\ \A i \in 1..Len(func_contexts') : Frames'[i] = FrameOf(func_contexts'[i])
           /\ DOMAIN func_contexts = 1..Depth
           /\ DOMAIN func_contexts' = 1..Len(func_contexts') /\ Len(func_contexts') \in Nat
<1>1. func_contexts \in Seq(Context(prog)) /\ func_contexts' \in Seq(Context(prog'))
    BY DEF IInv
<1>2. DOMAIN func_contexts = 1..Len(func_contexts) /\ DOMAIN func_contexts' = 1..Len(func_contexts')
    BY <1>1, LenProperties
<1>3. /\ Len(FramesOf(func_contexts)) = Len(func_contexts) /\ Len(func_contexts) \in Nat
      /\ DOMAIN FramesOf(func_contexts) = 1..Len(func_contexts)
      /\ \A i \in 1..Len(func_contexts) : FramesOf(func_contexts)[i] = FrameOf(func_contexts[i])
    BY <1>1, FramesType
<1>4. /\ Len(FramesOf(func_contexts')) = Len(func_contexts') /\ Len(func_contexts') \in Nat
      /\ DOMAIN FramesOf(func_contexts') = 1..Len(func_contexts')
      /\ \A i \in 1..Len(func_contexts') : FramesOf(func_contexts')[i] = FrameOf(func_contexts'[i])
    BY <1>1, FramesType
<1> QED BY <1>2, <1>3, <1>4, FramesAre DEF Depth

\* CallStack works on its innermost frame when the pc is past the met.
LEMMA WorkingKnown ==
    ASSUME IInv, IInv', Depth > 0, top.pc # 0
    PROVE  CallDiscipline!Working
<1>1. Len(Frames) = Depth /\ Depth \in Nat /\ Frames[Depth] = FrameOf(top)
    BY FramesKnown DEF top
<1>2. Phase(top) = "working"
    BY DEF Phase
<1>3. Frames[Depth].phase = "working"
    BY <1>1, <1>2, FrameFields
<1> QED BY <1>1, <1>3 DEF CallDiscipline!Working, CallDiscipline!Last

-----------------------------------------------------------------------------
(* Handlers that compute                                                     *)

\* A handler that leaves other contexts alone, and its own past the met.
Computes ==
    /\ Running /\ instr.op # "met"
    /\ \E c : c.pc # 0 /\ func_contexts' = [func_contexts EXCEPT ![Depth] = c]

LEMMA GotoComputes ==
    ASSUME IInv, Running, instr.op # "met", NEW pc, pc # 0, NEW stack, NEW objs, Goto(pc, stack, objs)
    PROVE  Computes
<1>1. top \in Context(prog)
    BY TopContext DEF Running
<1>2. [top EXCEPT !.pc = pc, !.stack = stack].pc = pc
    BY <1>1 DEF Context
<1> QED BY <1>2 DEF Goto, Continue, Computes

LEMMA NextComputes ==
    ASSUME IInv, Running, instr.op \notin {"met", "br", "endmet"},
           NEW stack, NEW objs, Goto(next_pc, stack, objs)
    PROVE  Computes
BY Decoded, GotoComputes

LEMMA BranchComputes ==
    ASSUME IInv, Running, instr.op \in JumpOps \ {"br"}, NEW n, NEW b \in BOOLEAN, BranchIf(n, b)
    PROVE  Computes
<1>1. instr.op \notin {"met", "br", "endmet"}
    BY DEF JumpOps, TestOps, BoolOps
<1>2. (IF b THEN instr.to ELSE next_pc) # 0
    BY <1>1, Decoded
<1> QED BY <1>1, <1>2, GotoComputes DEF BranchIf

LEMMA LoadComputes ==
    ASSUME IInv, Running, instr.op \in {"ldlc", "ldarg"}, NEW locals, Load(locals)
    PROVE  Computes
<1>1. top \in Context(prog) /\ next_pc # 0
    BY TopContext, Decoded DEF Running
<1> DEFINE el == Local(locals, instr.idx)
           slots == IF instr.op = "ldlc" THEN Unload(top.slots, instr.idx) ELSE top.slots
           args == IF instr.op = "ldarg" THEN Unload(top.args, instr.idx) ELSE top.args
           c == [top EXCEPT !.pc = next_pc, !.stack = Append(top.stack, el),
                            !.slots = slots, !.args = args]
<1>2. func_contexts' = [func_contexts EXCEPT ![Depth] = c]
    BY <1>1 DEF Load, Continue, Context
<1> HIDE DEF el, slots, args
<1>3. c.pc = next_pc
    BY <1>1 DEF Context
<1> HIDE DEF c
<1> QED BY <1>1, <1>2, <1>3 DEF Computes

LEMMA StoreComputes ==
    ASSUME IInv, StrLc \/ StrArg
    PROVE  Computes
<1>1. Running /\ instr.op \in {"strlc", "strarg"}
    BY DEF StrLc, StrArg, Decodes
<1>2. top \in Context(prog) /\ next_pc # 0
    BY <1>1, TopContext, Decoded DEF Running
<1> QED BY <1>1, <1>2 DEF StrLc, StrArg, Continue, Computes, Context

LEMMA VriComputes == ASSUME IInv, Vri PROVE Computes
<1>1. Running /\ instr.op \in {"vri", "vrs"}
    BY DEF Vri, Decodes
<1>2. top \in Context(prog) /\ top.pc + 2 # 0
    BY <1>1, TopContext, Decoded DEF Running
<1> DEFINE old == Local(top.args, instr.idx)
           new == IF instr.op = "vri" THEN [old EXCEPT !.type = "num", !.num = 0]
                                      ELSE [old EXCEPT !.type = "str", !.str = Empty]
           args == Assign(top.args, instr.idx, new)
           c == [top EXCEPT !.pc = top.pc + 2, !.args = args]
<1>3. func_contexts' = [func_contexts EXCEPT ![Depth] = c]
    BY <1>2 DEF Vri, Continue, Context
<1> HIDE DEF args
<1>4. c.pc # 0
    BY <1>2 DEF Context
<1> HIDE DEF c
<1> QED BY <1>1, <1>3, <1>4 DEF Computes

LEMMA NewArrComputes == ASSUME IInv, NewArr PROVE Computes
<1>1. Running /\ instr.op = "newarr"
    BY DEF NewArr, Decodes
<1>2. top \in Context(prog) /\ next_pc # 0
    BY <1>1, TopContext, Decoded DEF Running
<1> QED BY <1>1, <1>2 DEF NewArr, Computes, Context

LEMMA ResumedComputes ==
    ASSUME IInv, Running, instr.op = "call", NEW c, c.pc = next_pc,
           func_contexts' = [func_contexts EXCEPT ![Depth] = c]
    PROVE  Computes
BY Decoded DEF Computes

LEMMA CallsCompute ==
    ASSUME IInv, CallUnresolved \/ StdPrint \/ StdSin \/ StdLength
    PROVE  Computes
<1>1. Running /\ instr.op = "call"
    BY DEF CallUnresolved, StdPrint, StdSin, StdLength, Calls, Decodes
<1>2. top \in Context(prog)
    BY <1>1, TopContext DEF Running
<1>3. Resumed.pc = next_pc
    BY <1>2 DEF Resumed, Context
<1>4. \A stack : [Resumed EXCEPT !.stack = stack].pc = next_pc
    BY <1>2 DEF Resumed, Context
<1>5. ASSUME NEW names, NEW stack, NEW objs, CallStd(names, stack, objs) PROVE Computes
    BY <1>1, <1>4, <1>5, ResumedComputes DEF CallStd
<1>6. CASE CallUnresolved
    BY <1>1, <1>3, <1>6, ResumedComputes DEF CallUnresolved
<1>7. CASE StdPrint \/ StdSin
    BY <1>5, <1>7 DEF StdPrint, StdSin
<1>8. CASE StdLength
    <2> DEFINE Gives(n) == CallStd({"length"}, Append(Rest(1), Num(n)), DoPop(objects, Popped(1)))
    <2>1. \A n : Gives(n) => Computes
        BY <1>5
    <2>2. CallStd({"length"}, Rest(1), DoPop(objects, Popped(1))) => Computes
        BY <1>5
    <2>3. (\E n : Gives(n)) \/ CallStd({"length"}, Rest(1), DoPop(objects, Popped(1)))
        <3>1. el1.type \in Types
            BY <1>1, <1>8, Operands DEF StdLength, Element, el1
        <3> HIDE DEF Gives
        <3>2. CASE el1.type = "num"
            BY <1>8, <3>2 DEF StdLength, Gives
        <3>3. CASE el1.type = "str"
            BY <1>8, <3>3 DEF StdLength, Gives
        <3>4. CASE el1.type = "ref"
            BY <1>8, <3>4 DEF StdLength, Gives
        <3>5. CASE el1.type = "none"
            BY <1>8, <3>5 DEF StdLength
        <3> QED BY <3>1, <3>2, <3>3, <3>4, <3>5 DEF Types
    <2> QED BY <2>1, <2>2, <2>3
<1> QED BY <1>6, <1>7, <1>8

\* The other handlers that move on with another stack.
LEMMA MovesCompute ==
    ASSUME IInv,
           \/ LdCst \/ RejectOperand \/ Add \/ Arith \/ Compare \/ Unary
           \/ Br \/ BrTest \/ BrBool \/ StrElm \/ LdElm \/ RetRefused
    PROVE  Computes
<1> USE DEF Decodes
<1>1. CASE LdCst
    BY <1>1, NextComputes DEF LdCst, ConstOps
<1>2. CASE RejectOperand
    <2>1. Running /\ instr.op # "met" /\ top.pc + 2 # 0
        BY <1>2, Decoded DEF RejectOperand, LocalOps, SlotOps, ArgOps, ConstOps
    <2> QED BY <1>2, <2>1, GotoComputes DEF RejectOperand
<1>3. CASE Add
    BY <1>3, NextComputes DEF Add, Replace
<1>4. CASE Arith
    BY <1>4, NextComputes DEF Arith, Replace, Drop, ArithOps
<1>5. CASE Compare
    BY <1>5, NextComputes DEF Compare, Replace, CompareOps
<1>6. CASE Unary
    BY <1>6, NextComputes DEF Unary, Replace, Drop, UnaryOps
<1>7. CASE Br
    <2>1. Running /\ instr.op = "br" /\ instr.to # 0
        BY <1>7, Decoded DEF Br, JumpOps
    <2> QED BY <1>7, <2>1, GotoComputes DEF Br
<1>8. CASE BrTest
    <2>1. Running /\ instr.op \in JumpOps \ {"br"}
        BY <1>8 DEF BrTest, JumpOps, TestOps
    <2>2. \A b \in Outcomes : BranchIf(2, b) => \E x \in BOOLEAN : BranchIf(2, x)
        <3> SUFFICES ASSUME NEW b \in Outcomes, BranchIf(2, b) PROVE \E x \in BOOLEAN : BranchIf(2, x)
            OBVIOUS
        <3>1. CASE b
            BY <3>1 DEF BranchIf
        <3>2. CASE ~b
            BY <3>2 DEF BranchIf
        <3> QED BY <3>1, <3>2
    <2> QED BY <1>8, <2>1, <2>2, BranchComputes DEF BrTest
<1>9. CASE BrBool
    <2>1. Running /\ instr.op \in JumpOps \ {"br"}
        BY <1>9 DEF BrBool, JumpOps, BoolOps
    <2> QED BY <1>9, <2>1, BranchComputes DEF BrBool
<1>10. CASE StrElm
    BY <1>10, NextComputes DEF StrElm, Drop
<1>11. CASE LdElm
    BY <1>11, NextComputes DEF LdElm, Drop
<1>12. CASE RetRefused
    BY <1>12, NextComputes DEF RetRefused
<1> QED BY <1>1, <1>2, <1>3, <1>4, <1>5, <1>6, <1>7, <1>8, <1>9, <1>10, <1>11, <1>12

LEMMA HandlersCompute ==
    ASSUME IInv, Handler
    PROVE  Computes \/ CallInterpreted \/ Met \/ RetValue \/ Leave
<1>1. CASE LdLc \/ LdArg
    BY <1>1, LoadComputes DEF LdLc, LdArg, Decodes
<1> QED BY <1>1, StoreComputes, VriComputes, NewArrComputes, CallsCompute, MovesCompute DEF Handler

-----------------------------------------------------------------------------
(* FreshEmpty                                                                *)

\* Handlers that compute leave no fresh context.
LEMMA ComputesKnown ==
    ASSUME IInv, IInv', Computes
    PROVE  /\ Len(func_contexts') = Depth /\ Depth' = Depth /\ Depth \in Nat \ {0}
           /\ top.pc # 0 /\ top'.pc # 0 /\ func_contexts'[Depth].pc # 0
           /\ \A i \in 1..(Depth - 1) : func_contexts'[i] = func_contexts[i]
<1>1. Running /\ instr.op # "met"
    BY DEF Computes
<1>2. Depth \in Nat \ {0} /\ DOMAIN func_contexts = 1..Depth
    BY <1>1, FramesKnown, TopContext DEF Running
<1>3. PICK c : c.pc # 0 /\ func_contexts' = [func_contexts EXCEPT ![Depth] = c]
    BY DEF Computes
<1>4. DOMAIN func_contexts' = 1..Depth
    BY <1>2, <1>3
<1>5. Len(func_contexts') = Depth
    BY <1>2, <1>4, FramesKnown
<1>6. func_contexts'[Depth] = c
    BY <1>2, <1>3
<1>7. top.pc # 0
    BY <1>1, Decoded
<1>8. \A i \in 1..(Depth - 1) : func_contexts'[i] = func_contexts[i]
    BY <1>2, <1>3
<1>9. Depth' = Depth /\ top'.pc = c.pc
    BY <1>5, <1>6 DEF Depth, top
<1> QED BY <1>2, <1>3, <1>5, <1>6, <1>7, <1>8, <1>9

\* A context that is uncovered was suspended by a call.
LEMMA Uncovered ==
    ASSUME IInv, Running, IInv', func_contexts' = SubSeq(func_contexts, 1, Depth - 1)
    PROVE  /\ Depth \in Nat \ {0} /\ Len(func_contexts') = Depth - 1
           /\ \A i \in 1..(Depth - 1) : func_contexts'[i] = func_contexts[i]
<1>1. Depth \in Nat \ {0} /\ func_contexts \in Seq(Context(prog)) /\ Depth = Len(func_contexts)
    BY TopContext DEF IInv, Running, Depth
<1> QED BY <1>1, SubSeqProperties

LEMMA InitFresh == Init => FreshEmpty
BY EmptySeq DEF Init, FreshEmpty, Depth

-----------------------------------------------------------------------------
(* Every step is a step of CallStack                                         *)

LEMMA WorkStep ==
    ASSUME IInv, IInv', Computes
    PROVE  CallDiscipline!Work
<1>1. Len(Frames) = Depth /\ Len(Frames') = Depth
    BY FramesKnown, ComputesKnown
<1>2. Frames[Depth] = FrameOf(top) /\ Frames'[Depth] = FrameOf(func_contexts'[Depth])
    BY FramesKnown, ComputesKnown DEF top
<1>3. Frames[Depth].phase = "working" /\ Frames'[Depth].phase = "working"
    <2>1. Frames[Depth].phase = Phase(top) /\ Frames'[Depth].phase = Phase(func_contexts'[Depth])
        BY <1>2, FrameFields
    <2>2. Phase(top) = "working" /\ Phase(func_contexts'[Depth]) = "working"
        BY ComputesKnown DEF Phase
    <2> QED BY <2>1, <2>2
<1>4. \A i \in 1..(Depth - 1) : Frames'[i] = Frames[i]
    BY FramesKnown, ComputesKnown
<1> QED BY <1>1, <1>3, <1>4, ComputesKnown
        DEF CallDiscipline!Work, CallDiscipline!Working, CallDiscipline!Last

LEMMA StartStep ==
    ASSUME IInv, IInv', HostCall
    PROVE  CallDiscipline!Start /\ FreshEmpty'
<1>1. PICK e \in prog.entries : func_contexts' = <<NewContext(e[1], e[2])>>
    BY DEF HostCall
<1>2. Depth = 0
    BY DEF HostCall
<1>3. Frames = << >>
    BY <1>2, FramesKnown, EmptySeq, FramesType, FramesAre DEF IInv
<1>4. Len(func_contexts') = 1 /\ func_contexts'[1] = NewContext(e[1], e[2])
    BY <1>1
<1>5. Frames' = <<FrameOf(NewContext(e[1], e[2]))>>
    BY <1>4, FramesAre DEF FramesOf
<1>6. FrameOf(NewContext(e[1], e[2])) = CallDiscipline!NewFrame
    BY DEF FrameOf, Phase, NewContext, CallDiscipline!NewFrame
<1>7. FreshEmpty'
    BY <1>4 DEF FreshEmpty, top, Depth, NewContext
<1> QED BY <1>3, <1>5, <1>6, <1>7 DEF CallDiscipline!Start

LEMMA CallStep ==
    ASSUME IInv, IInv', CallInterpreted
    PROVE  CallDiscipline!Call /\ FreshEmpty'
<1> DEFINE c == NewContext(CalleeUnit, CalleeFunc)
           given == [func_contexts EXCEPT ![Depth] = Resumed]
<1>1. Running /\ instr.op = "call"
    BY DEF CallInterpreted, Calls, Decodes
<1>2. Depth \in Nat \ {0} /\ top \in Context(prog) /\ top.pc # 0 /\ next_pc # 0
    BY <1>1, TopContext, Decoded DEF Running
<1>3. func_contexts' = Append(given, c)
    BY DEF CallInterpreted
<1>4. func_contexts \in Seq(Context(prog)) /\ Len(func_contexts) = Depth
    BY DEF IInv, Depth
<1>5. Resumed \in Context(prog) /\ c \in Context(prog)
    <2>1. Resumed \in Context(prog)
        BY <1>1, ResumedType, EmptySeq
    <2>2. c \in Context(prog)
        BY NewContextType DEF CallInterpreted, Interpreted, IInv
    <2> QED BY <2>1, <2>2
<1>6. given \in Seq(Context(prog)) /\ Len(given) = Depth
      /\ \A i \in 1..Depth : given[i] = IF i = Depth THEN Resumed ELSE func_contexts[i]
    BY <1>2, <1>4, <1>5, ExceptSeq
<1>7. Resumed.pc = next_pc /\ Resumed.stack = top.stack /\ Resumed.args = top.args
    BY <1>2 DEF Resumed, Context
<1>8. FrameOf(Resumed) = FrameOf(top)
    BY <1>2, <1>7 DEF FrameOf, Phase
<1> HIDE DEF c, given
<1>9. /\ Len(func_contexts') = Depth + 1
      /\ \A i \in 1..Depth : func_contexts'[i] = given[i]
      /\ func_contexts'[Depth + 1] = c
    BY <1>3, <1>5, <1>6, AppendProperties
<1>10. \A i \in 1..Depth : Frames'[i] = Frames[i]
    <2> TAKE i \in 1..Depth
    <2>1. Frames[i] = FrameOf(func_contexts[i]) /\ Frames'[i] = FrameOf(given[i])
        BY <1>2, <1>9, FramesKnown
    <2>2. CASE i = Depth
        BY <1>6, <1>8, <2>1, <2>2 DEF top
    <2>3. CASE i # Depth
        BY <1>6, <2>1, <2>3
    <2> QED BY <2>2, <2>3
<1>11. c.pc = 0 /\ c.stack = << >> /\ c.args = << >>
    BY DEF c, NewContext
<1>12. Frames'[Depth + 1] = CallDiscipline!NewFrame
    <2>1. Frames'[Depth + 1] = FrameOf(c)
        BY <1>2, <1>9, FramesKnown
    <2> QED BY <1>11, <2>1 DEF FrameOf, Phase, CallDiscipline!NewFrame
<1>13. Frames' = Append(Frames, CallDiscipline!NewFrame)
    <2>1. Frames \in Seq(FrameSet) /\ Frames' \in Seq(FrameSet) /\ Len(Frames) = Depth /\ Len(Frames') = Depth + 1
        BY <1>9, FramesKnown, FramesType, FramesAre DEF IInv
    <2>2. CallDiscipline!NewFrame \in FrameSet
        BY NoLocals DEF CallDiscipline!NewFrame, FrameSet, Args
    <2> DEFINE t == Append(Frames, CallDiscipline!NewFrame)
    <2>3. t \in Seq(FrameSet) /\ Len(t) = Depth + 1 /\ t[Depth + 1] = CallDiscipline!NewFrame
          /\ \A i \in 1..Depth : t[i] = Frames[i]
        BY <2>1, <2>2, AppendProperties
    <2> HIDE DEF t
    <2>4. \A i \in 1..(Depth + 1) : t[i] = Frames'[i]
        BY <1>2, <1>10, <1>12, <2>3
    <2>5. t = Frames'
        BY <2>1, <2>3, <2>4, SeqEqual
    <2> QED BY <2>5 DEF t
<1>14. FreshEmpty'
    BY <1>9, <1>11 DEF FreshEmpty, top, Depth
<1>15. CallDiscipline!Working
    BY <1>2, WorkingKnown
<1> QED BY <1>13, <1>14, <1>15 DEF CallDiscipline!Call

\* A frame that works, by its fields.
WorkingFrame(stack, args) == [phase |-> "working", stack |-> stack, args |-> args]

LEMMA WorkingFrames ==
    /\ \A c : c.pc # 0 => FrameOf(c) = WorkingFrame(c.stack, c.args)
    /\ \A stack, args, s : [WorkingFrame(stack, args) EXCEPT !.stack = s] = WorkingFrame(s, args)
    /\ [CallDiscipline!NewFrame EXCEPT !.phase = "working"] = WorkingFrame(<< >>, << >>)
    /\ \A args : [CallDiscipline!NewFrame EXCEPT !.phase = "working", !.args = args] = WorkingFrame(<< >>, args)
<1>1. \A c : c.pc # 0 => FrameOf(c) = WorkingFrame(c.stack, c.args)
    BY DEF FrameOf, Phase, WorkingFrame
<1>2. \A stack, args, s : [WorkingFrame(stack, args) EXCEPT !.stack = s] = WorkingFrame(s, args)
    BY DEF WorkingFrame
<1>3. \A args : [CallDiscipline!NewFrame EXCEPT !.phase = "working", !.args = args] = WorkingFrame(<< >>, args)
    <2> TAKE args
    <2> DEFINE new == CallDiscipline!NewFrame
               begun == [new EXCEPT !.phase = "working"]
    <2>1. new = [phase |-> "fresh", stack |-> << >>, args |-> << >>]
        BY DEF CallDiscipline!NewFrame
    <2> HIDE DEF new
    <2>2. begun = [phase |-> "working", stack |-> << >>, args |-> << >>]
        BY <2>1
    <2>3. [new EXCEPT !.phase = "working", !.args = args] = [begun EXCEPT !.args = args]
        BY <2>1
    <2> HIDE DEF begun
    <2>4. [begun EXCEPT !.args = args] = [phase |-> "working", stack |-> << >>, args |-> args]
        BY <2>2
    <2> QED BY <2>3, <2>4 DEF WorkingFrame, new
<1>4. [CallDiscipline!NewFrame EXCEPT !.phase = "working"] = WorkingFrame(<< >>, << >>)
    BY DEF WorkingFrame, CallDiscipline!NewFrame
<1> QED BY <1>1, <1>2, <1>3, <1>4

\* What is known when a met is about to run.
LEMMA AtMet ==
    ASSUME IInv, FreshEmpty, Met
    PROVE  /\ Running /\ instr.op = "met" /\ top.pc = 0
           /\ Depth \in Nat \ {0} /\ Depth = Len(func_contexts) /\ top \in Context(prog)
           /\ top.stack = << >> /\ top.args = << >> /\ Len(top.stack) = 0
           /\ next_pc # 0 /\ instr.argc \in Nat
           /\ Depth > 1 => last_context = Depth - 1
<1>1. Running /\ instr.op = "met"
    BY DEF Met, Decodes
<1>2. top.pc = 0 /\ next_pc # 0
    BY <1>1, Decoded
<1>3. Depth \in Nat \ {0} /\ Depth = Len(func_contexts) /\ top \in Context(prog)
    BY <1>1, TopContext DEF Running, Depth
<1>4. top.stack = << >> /\ top.args = << >>
    BY <1>2, <1>3 DEF FreshEmpty
<1>5. Len(top.stack) = 0
    BY <1>4, EmptySeq
<1>6. Depth > 1 => last_context = Depth - 1
    BY <1>2 DEF IInv, MetReadsCaller
<1> QED BY <1>1, <1>2, <1>3, <1>4, <1>5, <1>6, ArgcType

TakenArgs(from, n) == IF n = 0 THEN << >> ELSE [i \in 0..(n - 1) |-> from[Len(from) - i]]

\* met, seen from the two contexts it changes.
LEMMA MetContexts ==
    ASSUME IInv, FreshEmpty, Met, Depth > 1
    PROVE  LET under == func_contexts[Depth - 1]
           IN  /\ Len(under.stack) \in Nat
               /\ \E n \in 0..Len(under.stack) :
                    /\ func_contexts'[Depth].pc # 0
                    /\ func_contexts'[Depth].stack = << >>
                    /\ func_contexts'[Depth].args = TakenArgs(under.stack, n)
                    /\ func_contexts'[Depth].slots = top.slots
                    /\ func_contexts'[Depth - 1].pc # 0
                    /\ func_contexts'[Depth - 1].stack = SubSeq(under.stack, 1, Len(under.stack) - n)
                    /\ func_contexts'[Depth - 1].args = under.args
                    /\ func_contexts'[Depth - 1].slots = under.slots
               /\ \A j \in 1..Depth : j < Depth - 1 => func_contexts'[j] = func_contexts[j]
               /\ DOMAIN func_contexts' = DOMAIN func_contexts
<1> DEFINE under == func_contexts[Depth - 1]
           from == under.stack
<1>1. /\ Depth \in Nat \ {0} /\ Depth = Len(func_contexts) /\ top \in Context(prog)
      /\ top.stack = << >> /\ top.args = << >> /\ next_pc # 0 /\ instr.argc \in Nat
      /\ last_context = Depth - 1
    BY AtMet
<1>2. DOMAIN func_contexts = 1..Depth
    BY <1>1, LenProperties DEF IInv
<1>3. under \in Context(prog) /\ under.pc # 0
    <2>1. Depth - 1 \in 1..Len(func_contexts) /\ Depth - 1 \in 1..(Len(func_contexts) - 1)
        BY <1>1
    <2> QED BY <2>1, ElementOfSeq DEF IInv, CallersResumed
<1>4. from \in Seq(Element) /\ Len(from) \in Nat
    <2>1. from \in Seq(Element)
        BY <1>3 DEF Context
    <2> QED BY <2>1, LenProperties
<1>5. CASE instr.argc = 0
    <2>1. func_contexts' = [func_contexts EXCEPT ![Depth] = [top EXCEPT !.pc = next_pc, !.stack = top.stack]]
        BY <1>5 DEF Met, Goto, Continue
    <2> DEFINE c == [top EXCEPT !.pc = next_pc, !.stack = top.stack]
    <2>2. c.pc = next_pc /\ c.stack = << >> /\ c.args = << >> /\ c.slots = top.slots
        BY <1>1 DEF Context
    <2> HIDE DEF c
    <2>3. /\ func_contexts'[Depth] = c /\ func_contexts'[Depth - 1] = under
          /\ \A j \in 1..Depth : j < Depth - 1 => func_contexts'[j] = func_contexts[j]
          /\ DOMAIN func_contexts' = DOMAIN func_contexts
        BY <1>1, <1>2, <2>1 DEF c
    <2>4. from = SubSeq(from, 1, Len(from) - 0)
        <3>1. \A i \in 1..Len(from) : from[i] \in Element
            BY <1>4, ElementOfSeq
        <3>2. /\ SubSeq(from, 1, Len(from)) \in Seq(Element) /\ Len(SubSeq(from, 1, Len(from))) = Len(from)
              /\ \A i \in 1..Len(from) : SubSeq(from, 1, Len(from))[i] = from[i]
            BY <1>4, <3>1, SubSeqProperties
        <3>3. from = SubSeq(from, 1, Len(from))
            BY <1>4, <3>2, SeqEqual
        <3> QED BY <1>4, <3>3
    <2>5. TakenArgs(from, 0) = << >>
        BY DEF TakenArgs
    <2>6. 0 \in 0..Len(from)
        BY <1>4
    <2> HIDE DEF under
    <2> QED BY <1>1, <1>3, <1>4, <2>2, <2>3, <2>4, <2>5, <2>6 DEF under
<1>6. CASE instr.argc # 0
    <2> DEFINE n == instr.argc
               less == [under EXCEPT !.stack = SubSeq(from, 1, Len(from) - n)]
               taken == [i \in 0..(n - 1) |-> from[Len(from) - i]]
               given == [func_contexts EXCEPT ![Depth - 1].stack = SubSeq(from, 1, Len(from) - n)]
               c == [top EXCEPT !.args = taken, !.pc = next_pc]
    <2>1. last_context # 0
        BY <1>1
    <2>2. Caller = under /\ CallerLeft = SubSeq(from, 1, Len(from) - n)
        BY <1>1 DEF Caller, CallerLeft
    <2>3. /\ n <= Len(from)
          /\ func_contexts' = [given EXCEPT ![Depth].args = taken, ![Depth].pc = next_pc]
        <3> DEFINE back == [func_contexts EXCEPT ![last_context].stack = CallerLeft]
                   args == [i \in 0..(instr.argc - 1) |-> Caller.stack[Len(Caller.stack) - i]]
        <3>1. /\ instr.argc <= Len(Caller.stack)
              /\ func_contexts' = [back EXCEPT ![Depth].args = args, ![Depth].pc = next_pc]
            BY <1>6, <2>1 DEF Met
        <3>2. back = given
            BY <1>1, <2>2
        <3>3. args = taken
            BY <2>2
        <3> HIDE DEF back, args, given, taken, under
        <3> QED BY <2>2, <3>1, <3>2, <3>3
    <2>4. less.pc = under.pc /\ less.stack = SubSeq(from, 1, Len(from) - n) /\ less.args = under.args
          /\ less.slots = under.slots
        <3> HIDE DEF under
        <3> QED BY <1>3 DEF Context
    <2>5. c.pc = next_pc /\ c.stack = << >> /\ c.args = taken /\ c.slots = top.slots
        <3> HIDE DEF taken
        <3> QED BY <1>1 DEF Context
    <2>6. given[Depth] = top /\ given[Depth - 1] = less /\ DOMAIN given = 1..Depth
          /\ \A j \in 1..Depth : j < Depth - 1 => given[j] = func_contexts[j]
        <3>1. given = [func_contexts EXCEPT ![Depth - 1] = less]
            OBVIOUS
        <3> HIDE DEF given, less
        <3> QED BY <1>1, <1>2, <3>1 DEF top
    <2> HIDE DEF given, taken, less
    <2>7. DOMAIN func_contexts' = 1..Depth /\ func_contexts'[Depth] = c /\ func_contexts'[Depth - 1] = less
          /\ \A j \in 1..Depth : j < Depth - 1 => func_contexts'[j] = func_contexts[j]
        BY <1>1, <2>3, <2>6
    <2>8. taken = TakenArgs(from, n)
        BY <1>6 DEF TakenArgs, taken
    <2>9. n \in 0..Len(from)
        BY <1>1, <1>4, <2>3
    <2> HIDE DEF under, c, n
    <2> QED BY <1>1, <1>2, <1>3, <1>4, <2>4, <2>5, <2>7, <2>8, <2>9 DEF under
<1> QED BY <1>5, <1>6

\* A function that was called takes its arguments.
LEMMA TakeStep ==
    ASSUME IInv, IInv', FreshEmpty, Met, Depth > 1
    PROVE  CallDiscipline!TakeArgs /\ FreshEmpty'
<1> DEFINE under == func_contexts[Depth - 1]
<1>1. Depth \in Nat \ {0} /\ DOMAIN func_contexts = 1..Depth /\ top.pc = 0 /\ top.stack = << >>
    BY AtMet, FramesKnown
<1>2. /\ Len(under.stack) \in Nat
      /\ \A j \in 1..Depth : j < Depth - 1 => func_contexts'[j] = func_contexts[j]
      /\ DOMAIN func_contexts' = 1..Depth
    BY <1>1, MetContexts
<1>3. PICK n \in 0..Len(under.stack) :
        /\ func_contexts'[Depth].pc # 0
        /\ func_contexts'[Depth].stack = << >>
        /\ func_contexts'[Depth].args = TakenArgs(under.stack, n)
        /\ func_contexts'[Depth - 1].pc # 0
        /\ func_contexts'[Depth - 1].stack = SubSeq(under.stack, 1, Len(under.stack) - n)
        /\ func_contexts'[Depth - 1].args = under.args
    BY MetContexts
<1>4. Len(func_contexts') = Depth
    BY <1>1, <1>2, FramesKnown
<1> DEFINE left == SubSeq(under.stack, 1, Len(under.stack) - n)
           taken == TakenArgs(under.stack, n)
<1>5. under.pc # 0
    <2>1. Depth - 1 \in 1..(Len(func_contexts) - 1)
        BY <1>1 DEF Depth
    <2> QED BY <2>1 DEF IInv, CallersResumed
<1> HIDE DEF under
<1>6. /\ Frames[Depth] = FrameOf(top)
      /\ Frames[Depth - 1] = WorkingFrame(under.stack, under.args)
      /\ Frames'[Depth] = WorkingFrame(<< >>, taken)
      /\ Frames'[Depth - 1] = WorkingFrame(left, under.args)
      /\ \A j \in 1..Depth : j < Depth - 1 => Frames'[j] = Frames[j]
    <2>1. Depth - 1 \in 1..Depth /\ Depth \in 1..Depth
        BY <1>1
    <2>2. \A j \in 1..Depth : Frames[j] = FrameOf(func_contexts[j]) /\ Frames'[j] = FrameOf(func_contexts'[j])
        BY <1>4, FramesKnown
    <2>3. FrameOf(func_contexts'[Depth]) = WorkingFrame(<< >>, taken)
        BY <1>3, WorkingFrames
    <2>4. FrameOf(func_contexts'[Depth - 1]) = WorkingFrame(left, under.args)
        BY <1>3, WorkingFrames
    <2>5. FrameOf(func_contexts[Depth - 1]) = WorkingFrame(under.stack, under.args)
        BY <1>5, WorkingFrames DEF under
    <2> HIDE DEF left, taken
    <2> QED BY <1>2, <2>1, <2>2, <2>3, <2>4, <2>5 DEF top
<1>7. Len(Frames) = Depth /\ DOMAIN Frames = 1..Depth /\ DOMAIN Frames' = 1..Depth
    BY <1>4, FramesKnown
<1>8. Frames[Depth].phase = "fresh"
    BY <1>1, <1>6, FrameFields DEF Phase
<1>9. Frames[Depth - 1].stack = under.stack
    BY <1>6 DEF WorkingFrame
<1> DEFINE begun == [CallDiscipline!NewFrame EXCEPT !.phase = "working", !.args = taken]
<1>10. begun = WorkingFrame(<< >>, taken)
    BY WorkingFrames
<1>11. [Frames[Depth - 1] EXCEPT !.stack = left] = WorkingFrame(left, under.args)
    <2>1. Frames[Depth - 1] = [phase |-> "working", stack |-> under.stack, args |-> under.args]
        BY <1>6 DEF WorkingFrame
    <2> HIDE DEF left
    <2> QED BY <2>1 DEF WorkingFrame
<1> HIDE DEF left, begun
<1>12. Frames' = [Frames EXCEPT ![Depth - 1].stack = left, ![Depth] = begun]
    <2> DEFINE new == [Frames EXCEPT ![Depth - 1].stack = left, ![Depth] = begun]
               mid == [Frames EXCEPT ![Depth - 1] = [Frames[Depth - 1] EXCEPT !.stack = left]]
    <2>1. new = [mid EXCEPT ![Depth] = begun]
        OBVIOUS
    <2>2. mid = [Frames EXCEPT ![Depth - 1] = WorkingFrame(left, under.args)]
        BY <1>11
    <2> HIDE DEF mid
    <2>3. DOMAIN mid = 1..Depth /\ mid[Depth - 1] = WorkingFrame(left, under.args)
          /\ \A j \in 1..Depth : j < Depth - 1 => mid[j] = Frames[j]
        BY <1>1, <1>7, <2>2
    <2>4. DOMAIN new = 1..Depth /\ new[Depth] = begun /\ new[Depth - 1] = mid[Depth - 1]
          /\ \A j \in 1..Depth : j < Depth - 1 => new[j] = mid[j]
        <3> HIDE DEF new
        <3> QED BY <1>1, <2>1, <2>3
    <2>5. \A j \in 1..Depth : new[j] = Frames'[j]
        <3> HIDE DEF new
        <3> TAKE j \in 1..Depth
        <3>1. CASE j = Depth
            BY <1>6, <1>10, <2>4, <3>1
        <3>2. CASE j = Depth - 1
            BY <1>6, <2>3, <2>4, <3>2
        <3>3. CASE j < Depth - 1
            BY <1>6, <2>3, <2>4, <3>3
        <3> QED BY <1>1, <3>1, <3>2, <3>3
    <2>6. new = [j \in 1..Depth |-> new[j]]
        BY <2>1, <2>3
    <2>7. Frames' = [j \in 1..Depth |-> Frames'[j]]
        BY <1>4 DEF Frames, Depth
    <2> HIDE DEF new
    <2>8. new = Frames'
        BY <2>5, <2>6, <2>7
    <2> QED BY <2>8 DEF new
<1>13. FreshEmpty'
    BY <1>3, <1>4 DEF FreshEmpty, top, Depth
<1>14. begun = [CallDiscipline!NewFrame EXCEPT !.phase = "working",
                    !.args = IF n = 0 THEN << >>
                             ELSE [i \in 0..(n - 1) |-> Frames[Depth - 1].stack[Len(Frames[Depth - 1].stack) - i]]]
    BY <1>9 DEF begun, TakenArgs
<1>15. left = SubSeq(Frames[Depth - 1].stack, 1, Len(Frames[Depth - 1].stack) - n)
    BY <1>9 DEF left
<1>16. n \in 0..Len(Frames[Depth - 1].stack)
    BY <1>9
<1> HIDE DEF left, begun
<1>17. CallDiscipline!TakeArgs
    <2>1. CallDiscipline!Last = Depth /\ Depth > 1
        BY <1>7 DEF CallDiscipline!Last
    <2> QED BY <1>8, <1>12, <1>14, <1>15, <1>16, <2>1 DEF CallDiscipline!TakeArgs
<1> QED BY <1>13, <1>17

\* A function the host calls takes none: there is nobody to take them from.
LEMMA NoArgsStep ==
    ASSUME IInv, IInv', FreshEmpty, Met, Depth = 1
    PROVE  CallDiscipline!NoArgs /\ FreshEmpty'
<1>1. /\ Depth = Len(func_contexts) /\ top \in Context(prog) /\ top.pc = 0
      /\ top.stack = << >> /\ top.args = << >> /\ Len(top.stack) = 0
      /\ next_pc # 0 /\ instr.argc \in Nat
    BY AtMet
<1>2. DOMAIN func_contexts = 1..1
    BY FramesKnown
<1>3. instr.argc = 0 \/ last_context = 0
    <2> SUFFICES ASSUME ~(instr.argc = 0 \/ last_context = 0) PROVE FALSE
        OBVIOUS
    <2>1. last_context \in 1..Depth /\ instr.argc <= Len(Caller.stack)
        BY DEF Met
    <2>2. Caller = top
        BY <2>1 DEF Caller, top
    <2> QED BY <1>1, <2>1, <2>2
<1> DEFINE c == [top EXCEPT !.pc = next_pc, !.stack = top.stack]
<1>4. func_contexts' = [func_contexts EXCEPT ![1] = c]
    BY <1>3 DEF Met, Goto, Continue
<1>5. c.pc # 0 /\ c.stack = << >> /\ c.args = << >>
    BY <1>1 DEF Context
<1> HIDE DEF c
<1>6. func_contexts'[1] = c /\ DOMAIN func_contexts' = 1..1
    BY <1>2, <1>4
<1>7. Len(func_contexts') = 1
    BY <1>6, FramesKnown
<1>8. FrameOf(c) = WorkingFrame(<< >>, << >>)
    BY <1>5, WorkingFrames
<1>9. Frames' = <<WorkingFrame(<< >>, << >>)>>
    BY <1>6, <1>7, <1>8, FramesAre DEF FramesOf
<1>10. Len(Frames) = 1 /\ Frames[1] = FrameOf(top)
    BY FramesKnown DEF top
<1>11. Frames[1].phase = "fresh"
    BY <1>1, <1>10, FrameFields DEF Phase
<1>12. FreshEmpty'
    BY <1>5, <1>6, <1>7 DEF FreshEmpty, top, Depth
<1> QED BY <1>9, <1>10, <1>11, <1>12, WorkingFrames DEF CallDiscipline!NoArgs, CallDiscipline!Last

\* The frames under the innermost one.
LEMMA FrontKnown ==
    ASSUME IInv, IInv', Depth > 0
    PROVE  /\ CallDiscipline!Last = Depth /\ Depth \in Nat \ {0}
           /\ CallDiscipline!Front \in Seq(FrameSet)
           /\ Len(CallDiscipline!Front) = Depth - 1 /\ DOMAIN CallDiscipline!Front = 1..(Depth - 1)
           /\ \A j \in 1..(Depth - 1) : CallDiscipline!Front[j] = FrameOf(func_contexts[j])
<1>1. /\ Len(Frames) = Depth /\ Depth \in Nat \ {0}
      /\ \A j \in 1..Depth : Frames[j] = FrameOf(func_contexts[j])
    BY FramesKnown
<1>2. Frames \in Seq(FrameSet)
    BY FramesType, FramesAre DEF IInv
<1>3. \A j \in 1..(Depth - 1) : Frames[j] \in FrameSet
    BY <1>1, <1>2, ElementOfSeq
<1>4. /\ SubSeq(Frames, 1, Depth - 1) \in Seq(FrameSet) /\ Len(SubSeq(Frames, 1, Depth - 1)) = Depth - 1
      /\ \A j \in 1..(Depth - 1) : SubSeq(Frames, 1, Depth - 1)[j] = Frames[j]
    BY <1>1, <1>3, SubSeqProperties
<1>5. CallDiscipline!Front = SubSeq(Frames, 1, Depth - 1)
    BY <1>1 DEF CallDiscipline!Front, CallDiscipline!Last
<1>6. DOMAIN CallDiscipline!Front = 1..(Depth - 1)
    BY <1>4, <1>5, LenProperties
<1> QED BY <1>1, <1>4, <1>5, <1>6 DEF CallDiscipline!Last

\* Whatever is uncovered has work left to do.
LEMMA UncoveredWorks ==
    ASSUME IInv, IInv', Depth \in Nat \ {0}, Len(func_contexts') = Depth - 1,
           \A j \in 1..(Depth - 1) : func_contexts'[j].pc = func_contexts[j].pc
    PROVE  FreshEmpty'
<1>1. \A j \in 1..(Depth - 1) : func_contexts'[j].pc # 0
    BY DEF IInv, CallersResumed, Depth
<1>2. Depth' = Depth - 1 /\ top' = func_contexts'[Depth - 1]
    BY DEF Depth, top
<1> QED BY <1>1, <1>2 DEF FreshEmpty

LEMMA DisciplineLeave ==
    ASSUME IInv, IInv', Leave
    PROVE  CallDiscipline!Leave /\ FreshEmpty'
<1>1. Running /\ instr.op \in {"ret", "endmet"}
    BY DEF Leave, Decodes
<1>2. Depth > 0 /\ top.pc # 0
    BY <1>1, Decoded DEF Running
<1>3. /\ Depth \in Nat \ {0} /\ Len(func_contexts') = Depth - 1
      /\ \A j \in 1..(Depth - 1) : func_contexts'[j] = func_contexts[j]
    BY <1>1, Uncovered DEF Leave
<1>4. Frames' \in Seq(FrameSet) /\ Len(Frames') = Depth - 1
      /\ \A j \in 1..(Depth - 1) : Frames'[j] = FrameOf(func_contexts'[j])
    BY <1>3, FramesKnown, FramesType, FramesAre DEF IInv
<1>5. /\ CallDiscipline!Front \in Seq(FrameSet) /\ Len(CallDiscipline!Front) = Depth - 1
      /\ \A j \in 1..(Depth - 1) : CallDiscipline!Front[j] = FrameOf(func_contexts[j])
    BY <1>2, FrontKnown
<1>6. Frames' = CallDiscipline!Front
    <2>1. \A j \in 1..(Depth - 1) : Frames'[j] = CallDiscipline!Front[j]
        BY <1>3, <1>4, <1>5
    <2> QED BY <1>4, <1>5, <2>1, SeqEqual
<1>7. FreshEmpty'
    BY <1>3, UncoveredWorks
<1> QED BY <1>2, <1>6, <1>7, WorkingKnown DEF CallDiscipline!Leave

LEMMA DisciplineReturn ==
    ASSUME IInv, IInv', RetValue
    PROVE  CallDiscipline!Return /\ FreshEmpty'
<1> DEFINE under == func_contexts[Depth - 1]
           rest == SubSeq(func_contexts, 1, Depth - 1)
<1>1. Running /\ instr.op = "ret" /\ Depth > 1 /\ Len(top.stack) = 1
    BY DEF RetValue, Decodes
<1>2. Depth > 0 /\ top.pc # 0 /\ Depth \in Nat \ {0} /\ Depth = Len(func_contexts)
    BY <1>1, Decoded, TopContext DEF Running, Depth
<1>3. \A j \in 1..(Depth - 1) : func_contexts[j] \in Context(prog)
    BY <1>2, ElementOfSeq DEF IInv
<1>4. /\ rest \in Seq(Context(prog)) /\ Len(rest) = Depth - 1
      /\ \A j \in 1..(Depth - 1) : rest[j] = func_contexts[j]
    BY <1>2, <1>3, SubSeqProperties
<1>5. DOMAIN rest = 1..(Depth - 1) /\ rest = [j \in DOMAIN rest |-> rest[j]]
    BY <1>4, LenProperties
<1>6. el1 = top.stack[1]
    BY <1>1 DEF el1, Peek
<1>7. under \in Context(prog) /\ under.pc # 0
    <2>1. Depth - 1 \in 1..(Depth - 1)
        BY <1>1, <1>2
    <2> QED BY <1>2, <1>3, <2>1 DEF IInv, CallersResumed
<1> DEFINE given == Append(under.stack, el1)
           below == [under EXCEPT !.stack = given]
<1>8. below.pc = under.pc /\ below.stack = given /\ below.args = under.args
    <2> HIDE DEF under, given
    <2> QED BY <1>7 DEF Context
<1>9. func_contexts' = [rest EXCEPT ![Depth - 1] = below]
    <2>1. rest[Depth - 1] = under
        BY <1>1, <1>2, <1>4
    <2>2. func_contexts' = [rest EXCEPT ![Depth - 1].stack = Append(@, el1)]
        BY DEF RetValue
    <2> HIDE DEF rest, under
    <2> QED BY <2>1, <2>2
<1> HIDE DEF rest, below, given
<1>10. DOMAIN func_contexts' = 1..(Depth - 1) /\ func_contexts'[Depth - 1] = below
       /\ \A j \in 1..(Depth - 1) : j < Depth - 1 => func_contexts'[j] = func_contexts[j]
    BY <1>1, <1>2, <1>4, <1>5, <1>9
<1>11. Len(func_contexts') = Depth - 1
    BY <1>2, <1>10, FramesKnown
<1>12. \A j \in 1..(Depth - 1) : func_contexts'[j].pc = func_contexts[j].pc
    <2> TAKE j \in 1..(Depth - 1)
    <2>1. CASE j = Depth - 1
        BY <1>8, <1>10, <2>1
    <2>2. CASE j # Depth - 1
        <3>1. j < Depth - 1
            BY <1>2, <2>2
        <3> QED BY <1>10, <3>1
    <2> QED BY <2>1, <2>2
<1>13. FreshEmpty'
    BY <1>2, <1>11, <1>12, UncoveredWorks
<1> HIDE DEF under
<1>14. FrameOf(below) = WorkingFrame(given, under.args) /\ FrameOf(under) = WorkingFrame(under.stack, under.args)
    BY <1>7, <1>8, WorkingFrames
<1> DEFINE front == CallDiscipline!Front
           added == [front EXCEPT ![Depth - 1].stack = given]
<1>15. front \in Seq(FrameSet) /\ DOMAIN front = 1..(Depth - 1) /\ CallDiscipline!Last = Depth
       /\ \A j \in 1..(Depth - 1) : front[j] = FrameOf(func_contexts[j])
    BY <1>2, FrontKnown
<1>16. front = [j \in 1..(Depth - 1) |-> front[j]]
    BY <1>15, LenProperties
<1>17. front[Depth - 1] = WorkingFrame(under.stack, under.args)
    BY <1>1, <1>2, <1>14, <1>15 DEF under
<1> HIDE DEF front
<1>18. [front[Depth - 1] EXCEPT !.stack = given] = WorkingFrame(given, under.args)
    <2>1. front[Depth - 1] = [phase |-> "working", stack |-> under.stack, args |-> under.args]
        BY <1>17 DEF WorkingFrame
    <2> QED BY <2>1 DEF WorkingFrame
<1>19. added = [front EXCEPT ![Depth - 1] = WorkingFrame(given, under.args)]
    BY <1>18
<1> HIDE DEF added
<1>20. added = [j \in 1..(Depth - 1) |-> added[j]] /\ added[Depth - 1] = WorkingFrame(given, under.args)
       /\ \A j \in 1..(Depth - 1) : j < Depth - 1 => added[j] = front[j]
    BY <1>1, <1>2, <1>15, <1>16, <1>19
<1>21. Frames' = [j \in 1..(Depth - 1) |-> Frames'[j]]
    BY <1>11 DEF Frames, Depth
<1>22. \A j \in 1..(Depth - 1) : Frames'[j] = FrameOf(func_contexts'[j])
    BY <1>11, FramesKnown
<1>23. \A j \in 1..(Depth - 1) : Frames'[j] = added[j]
    <2> TAKE j \in 1..(Depth - 1)
    <2>1. CASE j = Depth - 1
        BY <1>10, <1>14, <1>20, <1>22, <2>1
    <2>2. CASE j # Depth - 1
        <3>1. j < Depth - 1
            BY <1>2, <2>2
        <3> QED BY <1>10, <1>15, <1>20, <1>22, <3>1
    <2> QED BY <2>1, <2>2
<1>24. Frames' = added
    BY <1>20, <1>21, <1>23
<1>25. Frames[Depth].stack = top.stack
    BY <1>2, FramesKnown, FrameFields DEF top
<1>26. given = Append(front[Depth - 1].stack, Frames[Depth].stack[1])
    BY <1>6, <1>17, <1>25 DEF given, WorkingFrame
<1>27. Frames' = [front EXCEPT ![Depth - 1].stack = Append(@, Frames[Depth].stack[1])]
    BY <1>24, <1>26 DEF added
<1>28. CallDiscipline!Working
    BY <1>2, WorkingKnown
<1> QED BY <1>1, <1>13, <1>15, <1>25, <1>27, <1>28 DEF CallDiscipline!Return, front

-----------------------------------------------------------------------------
(* The theorem                                                               *)

LEMMA StartsEmpty == ASSUME Init PROVE CallDiscipline!Init
<1>1. func_contexts = << >> /\ Len(func_contexts) = 0
    BY EmptySeq DEF Init
<1>2. func_contexts \in Seq(Context(prog))
    BY <1>1, EmptySeq
<1>3. FramesOf(func_contexts) \in Seq(FrameSet) /\ Len(FramesOf(func_contexts)) = 0
    BY <1>1, <1>2, FramesType
<1>4. FramesOf(func_contexts) = << >>
    BY <1>3, EmptySeq
<1> QED BY <1>4, FramesAre DEF CallDiscipline!Init

\* What leaves the contexts alone is a stutter.
LEMMA StutterStep ==
    ASSUME FreshEmpty, UNCHANGED func_contexts
    PROVE  UNCHANGED Frames /\ FreshEmpty'
BY DEF Frames, FreshEmpty, Depth, top

LEMMA FailureStutters == ASSUME Failure PROVE UNCHANGED func_contexts
BY DEF Failure, Underflow, Misdecode, NoHandler, DanglingCaller, BadIndex, NullObject,
       ModByZero, BadAlloc, Fault

LEMMA StepImplements ==
    ASSUME IInv, IInv', FreshEmpty, [Next]_vars
    PROVE  [CallDiscipline!Next]_Frames /\ FreshEmpty'
<1>1. CASE HostCall
    BY <1>1, StartStep DEF CallDiscipline!Next
<1>2. CASE Handler
    <2>1. CASE Computes
        <3>1. CallDiscipline!Work
            BY <2>1, WorkStep
        <3>2. FreshEmpty'
            BY <2>1, ComputesKnown DEF FreshEmpty
        <3> QED BY <3>1, <3>2 DEF CallDiscipline!Next
    <2>2. CASE CallInterpreted
        BY <2>2, CallStep DEF CallDiscipline!Next
    <2>3. CASE Met
        <3>1. Depth \in Nat \ {0}
            BY <2>3, AtMet
        <3>2. CASE Depth = 1
            BY <2>3, <3>2, NoArgsStep DEF CallDiscipline!Next
        <3>3. CASE Depth > 1
            BY <2>3, <3>3, TakeStep DEF CallDiscipline!Next
        <3> QED BY <3>1, <3>2, <3>3
    <2>4. CASE RetValue
        BY <2>4, DisciplineReturn DEF CallDiscipline!Next
    <2>5. CASE Leave
        BY <2>5, DisciplineLeave DEF CallDiscipline!Next
    <2> QED BY <1>2, <2>1, <2>2, <2>3, <2>4, <2>5, HandlersCompute
<1>3. CASE Failure
    BY <1>3, FailureStutters, StutterStep
<1>4. CASE UNCHANGED vars
    <2>1. UNCHANGED func_contexts
        BY <1>4 DEF vars
    <2> QED BY <2>1, StutterStep
<1> QED BY <1>1, <1>2, <1>3, <1>4 DEF Next, do_opcode

\* call, met and ret implement the discipline of CallStack: whatever the
\* program, a frame is only ever touched by its own function, except to take
\* its arguments and to receive one value (call, met, ret and interpret of
\* ir_interpreter.cpp).
THEOREM ImplementsCallStack == Spec => RefinesCallStack
<1>1. Init => CallDiscipline!Init
    BY StartsEmpty
<1>2. Init => FreshEmpty
    BY InitFresh
<1>3. IInv /\ IInv' /\ FreshEmpty /\ [Next]_vars => [CallDiscipline!Next]_Frames /\ FreshEmpty'
    BY StepImplements
<1> QED BY <1>1, <1>2, <1>3, Invariance, PTL DEF Spec, RefinesCallStack, CallDiscipline!Spec

=============================================================================
