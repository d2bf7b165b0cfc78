---------------------------- MODULE RefManager ----------------------------
(* Values of the interpreter (ir_element) and the objects they refer to      *)
(* (ir_interpreter_ref_manager, ir_array): operators only. The interpreter   *)
(* owns the state, `objects` and `ref_id`, and applies these to it.          *)
EXTENDS Integers, Sequences, FiniteSets

CONSTANTS
    Nums,    \* numbers a program can meet (long double)
    Strs,    \* strings a program can meet
    Empty    \* the string "", what a moved-from string is left as

ASSUME ValuesAssumption ==
    /\ Nums \subseteq Int
    /\ {-1, 0, 1} \subseteq Nums
    /\ Empty \in Strs

-----------------------------------------------------------------------------
(* ir_element. A component the constructor leaves alone and nothing reads    *)
(* before it is assigned has a fixed value here; ref is an object id only    *)
(* when type = "ref".                                                        *)

Types == {"none", "num", "str", "ref"}

Element == [type : Types, num : Nums, str : Strs, ref : Nat]

NoneElement == [type |-> "none", num |-> 0, str |-> Empty, ref |-> 0]

Num(n) == [NoneElement EXCEPT !.type = "num", !.num = n]
Str(s) == [NoneElement EXCEPT !.type = "str", !.str = s]
Ref(o) == [NoneElement EXCEPT !.type = "ref", !.ref = o]

\* What std::move leaves behind: only the string is taken out.
Moved(el) == [el EXCEPT !.str = Empty]

IsRefTo(el, o) == el.type = "ref" /\ el.ref = o

-----------------------------------------------------------------------------
(* Objects: a finite function from ids to reference-counted arrays.          *)

Object == [ref_counter : Nat, elements : Seq(Element)]

IsObjects(objs, last) ==
    /\ DOMAIN objs \subseteq 1..last
    /\ \A o \in DOMAIN objs : objs[o] \in Object

\* make_new_array: the counter of a new object starts at 1.
MakeNewArray(objs, o) ==
    [p \in DOMAIN objs \cup {o} |->
        IF p = o THEN [ref_counter |-> 1, elements |-> << >>] ELSE objs[p]]

\* MUTANT: a push is not counted.
DoPush_Uncounted(objs, el) == objs

\* MUTANT: operator[] without the find before it makes the object anew.
DoPush_Inserts(objs, el) ==
    IF el.type = "ref"
    THEN [p \in DOMAIN objs \cup {el.ref} |->
            IF p \notin DOMAIN objs THEN [ref_counter |-> 1, elements |-> << >>]
            ELSE [objs[p] EXCEPT !.ref_counter = @ + (IF p = el.ref THEN 1 ELSE 0)]]
    ELSE objs

\* do_push, for an element of any type.
DoPush(objs, el) ==
    IF el.type = "ref" /\ el.ref \in DOMAIN objs
    THEN [objs EXCEPT ![el.ref].ref_counter = @ + 1]
    ELSE objs

\* References to o among the elements of a sequence.
Places(o, els)      == {i \in DOMAIN els : IsRefTo(els[i], o)}
Occurrences(o, els) == Cardinality(Places(o, els))

\* MUTANT: the counter is taken to start at 0, as the references do.
DoPop_ErasesAtOne(objs, els) ==
    [o \in {p \in DOMAIN objs :
                \/ Occurrences(p, els) = 0
                \/ objs[p].ref_counter > Occurrences(p, els) + 1} |->
        [objs[o] EXCEPT !.ref_counter = @ - Occurrences(o, els)]]

\* do_pop of every element of a sequence: an object whose counter reaches 0
\* is erased, and erasing it twice is not possible.
DoPop(objs, els) ==
    [o \in {p \in DOMAIN objs :
                \/ Occurrences(p, els) = 0
                \/ objs[p].ref_counter > Occurrences(p, els)} |->
        [objs[o] EXCEPT !.ref_counter = @ - Occurrences(o, els)]]

-----------------------------------------------------------------------------
(* ir_array::get_element: indexing past the end grows the vector. With a     *)
(* negative index, idx + 1 is compared as a size_t: -1 reads elements[-1],   *)
(* anything below asks resize for more than max_size().                      *)

ValidIndex(idx) == idx >= 0

Resized(elements, idx) ==
    [k \in 1..(IF Len(elements) < idx + 1 THEN idx + 1 ELSE Len(elements)) |->
        IF k <= Len(elements) THEN elements[k] ELSE NoneElement]

\* strelm's assignment to the element it finds. A reference stored in a fresh
\* element leaves that element's ref_id as it was: uninitialized, any `junk`.
Stored(old, val, junk) ==
    CASE old.type = "none" -> [val EXCEPT !.ref = IF val.type = "ref" THEN junk ELSE 0]
      [] old.type = "str"  -> [old EXCEPT !.str = val.str]
      [] old.type = "num"  -> [old EXCEPT !.num = val.num]
      [] OTHER             -> old

=============================================================================
