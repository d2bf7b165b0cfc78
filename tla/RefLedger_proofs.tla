-------------------------- MODULE RefLedger_proofs --------------------------
(* The counters of the reference manager and the references on the stacks,   *)
(* for all programs that meet the Interpreter's assumption and all bounds.   *)
EXTENDS RefLedger, Interpreter_proofs

-----------------------------------------------------------------------------
(* Counting the places of a reference                                        *)

\* As many places, one to one.
LEMMA OneToOne ==
    ASSUME NEW S, NEW T, IsFiniteSet(S), NEW f \in [S -> T],
           \A a, b \in S : f[a] = f[b] => a = b,
           \A t \in T : \E a \in S : f[a] = t
    PROVE  IsFiniteSet(T) /\ Cardinality(T) = Cardinality(S)
<1>1. f \in Bijection(S, T)
    BY DEF Bijection, Injection, Surjection, IsInjective
<1>2. ExistsBijection(S, T)
    BY <1>1 DEF ExistsBijection
<1> QED BY <1>2, FS_Bijection

\* As many places in two sets apart as in both together.
LEMMA Apart ==
    ASSUME NEW S, NEW T, IsFiniteSet(S), IsFiniteSet(T), S \cap T = {}
    PROVE  /\ IsFiniteSet(S \cup T)
           /\ Cardinality(S \cup T) = Cardinality(S) + Cardinality(T)
<1>1. Cardinality(S \cap T) = 0
    BY FS_EmptySet
<1>2. Cardinality(S) \in Nat /\ Cardinality(T) \in Nat
    BY FS_CardinalityType
<1>3. /\ IsFiniteSet(S \cup T)
      /\ Cardinality(S \cup T) = Cardinality(S) + Cardinality(T) - Cardinality(S \cap T)
    BY FS_Union
<1> QED BY <1>1, <1>2, <1>3

\* The places in a sequence are finitely many.
LEMMA PlacesFinite ==
    ASSUME NEW o, NEW els \in Seq(Element)
    PROVE  /\ IsFiniteSet(Places(o, els)) /\ Occurrences(o, els) \in Nat
           /\ Occurrences(o, els) = 0 <=> \A i \in 1..Len(els) : ~IsRefTo(els[i], o)
<1>1. DOMAIN els = 1..Len(els) /\ Len(els) \in Nat
    BY LenProperties
<1>2. IsFiniteSet(1..Len(els))
    BY <1>1, FS_Interval
<1>3. IsFiniteSet(Places(o, els))
    BY <1>1, <1>2, FS_Subset DEF Places
<1>4. Occurrences(o, els) = 0 <=> Places(o, els) = {}
    BY <1>3, FS_EmptySet DEF Occurrences
<1>5. Places(o, els) = {} <=> \A i \in 1..Len(els) : ~IsRefTo(els[i], o)
    BY <1>1 DEF Places
<1> QED BY <1>3, <1>4, <1>5, OccurrencesType

\* One reference more, or none.
Counts(el, o) == IF IsRefTo(el, o) THEN 1 ELSE 0

LEMMA OccurrencesAppend ==
    ASSUME NEW o, NEW els \in Seq(Element), NEW el \in Element
    PROVE  Occurrences(o, Append(els, el)) = Occurrences(o, els) + Counts(el, o)
<1> DEFINE more == Append(els, el)
           n == Len(els)
<1>1. /\ n \in Nat /\ more \in Seq(Element) /\ Len(more) = n + 1
      /\ \A i \in 1..n : more[i] = els[i]
      /\ more[n + 1] = el
    BY LenProperties, AppendProperties
<1>2. DOMAIN more = 1..(n + 1) /\ DOMAIN els = 1..n
    BY <1>1, LenProperties
<1> HIDE DEF more, n
<1>3. IsFiniteSet(Places(o, els)) /\ n + 1 \notin Places(o, els)
    <2>1. n + 1 \notin 1..n
        BY <1>1
    <2> QED BY <1>2, <2>1, PlacesFinite DEF Places
<1>4. CASE IsRefTo(el, o)
    <2>1. Places(o, more) = Places(o, els) \cup {n + 1}
        BY <1>1, <1>2, <1>4 DEF Places
    <2> QED BY <1>3, <1>4, <2>1, FS_AddElement DEF Occurrences, Counts, more
<1>5. CASE ~IsRefTo(el, o)
    <2>1. Places(o, more) = Places(o, els)
        BY <1>1, <1>2, <1>5 DEF Places
    <2> QED BY <1>5, <2>1, PlacesFinite DEF Occurrences, Counts, more
<1> QED BY <1>4, <1>5

LEMMA OccurrencesEmpty == \A o : Occurrences(o, << >>) = 0
<1> TAKE o
<1>1. << >> \in Seq(Element) /\ Len(<< >>) = 0
    BY EmptySeq
<1>2. \A i \in 1..Len(<< >>) : ~IsRefTo(<< >>[i], o)
    BY <1>1
<1> QED BY <1>1, <1>2, PlacesFinite

\* What is popped and what is left are what there was.
LEMMA OccurrencesSplit ==
    ASSUME NEW o, NEW els \in Seq(Element), NEW n \in Nat, n <= Len(els)
    PROVE  Occurrences(o, els) = Occurrences(o, SubSeq(els, 1, Len(els) - n))
                                 + Occurrences(o, SubSeq(els, Len(els) - n + 1, Len(els)))
<1> DEFINE m == Len(els) - n
           rest == SubSeq(els, 1, m)
           popped == SubSeq(els, m + 1, Len(els))
<1>1. Len(els) \in Nat /\ m \in Nat /\ DOMAIN els = 1..Len(els) /\ Len(els) = m + n
    BY LenProperties
<1> HIDE DEF m
<1>2. \A i \in 1..Len(els) : els[i] \in Element
    BY ElementOfSeq
<1>3. rest \in Seq(Element) /\ Len(rest) = m /\ \A i \in 1..m : rest[i] = els[i]
    <2>1. \A i \in 1..m : els[i] \in Element
        BY <1>1, <1>2
    <2> QED BY <1>1, <2>1, SubSeqProperties
<1>4. popped \in Seq(Element) /\ Len(popped) = n /\ \A i \in 1..n : popped[i] = els[m + i]
    <2>1. \A i \in (m + 1)..Len(els) : els[i] \in Element
        BY <1>1, <1>2
    <2>2. /\ popped \in Seq(Element)
          /\ Len(popped) = (IF m + 1 <= Len(els) THEN Len(els) - (m + 1) + 1 ELSE 0)
          /\ \A i \in 1..(Len(els) - (m + 1) + 1) : popped[i] = els[m + 1 + i - 1]
        BY <1>1, <2>1, SubSeqProperties
    <2> HIDE DEF popped
    <2> QED BY <1>1, <2>2
<1>5. DOMAIN rest = 1..m /\ DOMAIN popped = 1..n
    BY <1>3, <1>4, LenProperties
<1> HIDE DEF rest, popped
<1> DEFINE shifted == {i \in (m + 1)..Len(els) : IsRefTo(els[i], o)}
           f == [i \in Places(o, popped) |-> m + i]
<1>6. Places(o, els) = Places(o, rest) \cup shifted /\ Places(o, rest) \cap shifted = {}
    BY <1>1, <1>3, <1>5 DEF Places
<1>7. IsFiniteSet(shifted) /\ Cardinality(shifted) = Occurrences(o, popped)
    <2>1. IsFiniteSet(Places(o, popped)) /\ Places(o, popped) \subseteq 1..n
        BY <1>4, <1>5, PlacesFinite DEF Places
    <2>2. f \in [Places(o, popped) -> shifted]
        BY <1>1, <1>4, <1>5 DEF Places
    <2>3. \A a, b \in Places(o, popped) : f[a] = f[b] => a = b
        BY <1>1, <2>1
    <2>4. \A t \in shifted : \E a \in Places(o, popped) : f[a] = t
        <3> TAKE t \in shifted
        <3>1. t - m \in 1..n /\ m + (t - m) = t
            BY <1>1
        <3>2. t - m \in Places(o, popped)
            BY <1>4, <1>5, <3>1 DEF Places
        <3> QED BY <3>1, <3>2
    <2> HIDE DEF f, shifted
    <2> QED BY <2>1, <2>2, <2>3, <2>4, OneToOne DEF Occurrences
<1>8. IsFiniteSet(Places(o, rest))
    BY <1>3, PlacesFinite
<1> HIDE DEF shifted
<1>9. Cardinality(Places(o, els)) = Cardinality(Places(o, rest)) + Cardinality(shifted)
    BY <1>6, <1>7, <1>8, Apart
<1> QED BY <1>7, <1>9 DEF Occurrences, rest, popped, m

\* Arguments hold the references that were at the end of the caller's stack.
LEMMA OccurrencesTaken ==
    ASSUME NEW o, NEW els \in Seq(Element), NEW n \in Nat, n <= Len(els)
    PROVE  Occurrences(o, TakenArgs(els, n)) = Occurrences(o, SubSeq(els, Len(els) - n + 1, Len(els)))
<1> DEFINE popped == SubSeq(els, Len(els) - n + 1, Len(els))
           taken == TakenArgs(els, n)
           f == [i \in Places(o, popped) |-> n - i]
<1>1. Len(els) \in Nat
    BY LenProperties
<1>2. popped \in Seq(Element) /\ Len(popped) = n /\ \A i \in 1..n : popped[i] = els[Len(els) - n + i]
    <2>1. \A i \in (Len(els) - n + 1)..Len(els) : els[i] \in Element
        BY <1>1, ElementOfSeq
    <2>2. /\ popped \in Seq(Element)
          /\ Len(popped) = (IF Len(els) - n + 1 <= Len(els) THEN Len(els) - (Len(els) - n + 1) + 1 ELSE 0)
          /\ \A i \in 1..(Len(els) - (Len(els) - n + 1) + 1) : popped[i] = els[(Len(els) - n + 1) + i - 1]
        BY <1>1, <2>1, SubSeqProperties
    <2> HIDE DEF popped
    <2> QED BY <1>1, <2>2
<1>3. DOMAIN popped = 1..n
    BY <1>2, LenProperties
<1> HIDE DEF popped
<1>4. CASE n = 0
    <2>1. taken = << >>
        BY <1>4 DEF TakenArgs
    <2>2. Occurrences(o, popped) = 0
        <3>1. \A i \in 1..Len(popped) : ~IsRefTo(popped[i], o)
            BY <1>2, <1>4
        <3> QED BY <1>2, <3>1, PlacesFinite
    <2> QED BY <2>1, <2>2, OccurrencesEmpty DEF popped
<1>5. CASE n # 0
    <2>1. DOMAIN taken = 0..(n - 1) /\ \A i \in 0..(n - 1) : taken[i] = els[Len(els) - i]
        BY <1>5 DEF TakenArgs
    <2> HIDE DEF taken
    <2>2. IsFiniteSet(Places(o, popped)) /\ Places(o, popped) \subseteq 1..n
        BY <1>2, <1>3, PlacesFinite DEF Places
    <2>3. \A i \in 1..n : n - i \in 0..(n - 1) /\ taken[n - i] = popped[i]
        <3> TAKE i \in 1..n
        <3>1. n - i \in 0..(n - 1) /\ Len(els) - (n - i) = Len(els) - n + i
            BY <1>1
        <3> QED BY <1>2, <2>1, <3>1
    <2>4. f \in [Places(o, popped) -> Places(o, taken)]
        BY <1>3, <2>1, <2>3 DEF Places
    <2>5. \A a, b \in Places(o, popped) : f[a] = f[b] => a = b
        BY <2>2
    <2>6. \A t \in Places(o, taken) : \E a \in Places(o, popped) : f[a] = t
        <3> TAKE t \in Places(o, taken)
        <3>1. t \in 0..(n - 1) /\ IsRefTo(taken[t], o)
            BY <2>1 DEF Places
        <3>2. n - t \in 1..n /\ n - (n - t) = t
            BY <3>1
        <3>3. n - t \in Places(o, popped)
            BY <1>3, <2>3, <3>1, <3>2 DEF Places
        <3> QED BY <3>2, <3>3
    <2> HIDE DEF f
    <2>7. Cardinality(Places(o, taken)) = Cardinality(Places(o, popped))
        BY <2>2, <2>4, <2>5, <2>6, OneToOne
    <2> QED BY <2>7 DEF Occurrences, popped, taken
<1> QED BY <1>4, <1>5

-----------------------------------------------------------------------------
(* Counting the places on all the stacks                                     *)

\* Induction over the naturals, for a set of them.
LEMMA UpFromZero ==
    ASSUME NEW S, 0 \in S, \A n \in Nat : n \in S => n + 1 \in S
    PROVE  \A n \in Nat : n \in S
<1> SUFFICES ASSUME Nat \ S # {} PROVE FALSE
    OBVIOUS
<1>1. PICK x \in Nat \ S : \A y \in Nat \ S : ~(<<y, x>> \in OpToRel(<, Nat))
    <2>1. Nat \ S \subseteq Nat
        OBVIOUS
    <2> QED BY <2>1, NatLessThanWellFounded, WFMin
<1>2. x # 0
    OBVIOUS
<1>3. x - 1 \in Nat /\ x - 1 < x /\ (x - 1) + 1 = x
    BY <1>2
<1>4. <<x - 1, x>> \in OpToRel(<, Nat)
    BY <1>3 DEF OpToRel
<1>5. x - 1 \in S
    BY <1>1, <1>3, <1>4
<1> QED BY <1>3, <1>5

\* The places on the stacks of the contexts in D.
Held(contexts, D, o) == UNION {{i} \X Places(o, contexts[i].stack) : i \in D}

HeldCount(contexts, D, o) == Cardinality(Held(contexts, D, o))

\* A place of one stack, among those of all.
LEMMA OneStack ==
    ASSUME NEW contexts, NEW d, NEW o, contexts[d].stack \in Seq(Element)
    PROVE  /\ IsFiniteSet({d} \X Places(o, contexts[d].stack))
           /\ Cardinality({d} \X Places(o, contexts[d].stack)) = Occurrences(o, contexts[d].stack)
<1> DEFINE S == Places(o, contexts[d].stack)
           f == [k \in S |-> <<d, k>>]
<1>1. IsFiniteSet(S)
    BY PlacesFinite
<1> HIDE DEF S
<1>2. f \in [S -> {d} \X S] /\ \A a, b \in S : f[a] = f[b] => a = b
    OBVIOUS
<1>3. \A t \in {d} \X S : \E a \in S : f[a] = t
    OBVIOUS
<1> HIDE DEF f
<1>4. IsFiniteSet({d} \X S) /\ Cardinality({d} \X S) = Cardinality(S)
    BY <1>1, <1>2, <1>3, OneToOne
<1> QED BY <1>4 DEF Occurrences, S

LEMMA HeldFinite ==
    ASSUME NEW contexts, NEW o, NEW n \in Nat, \A i \in 1..n : contexts[i].stack \in Seq(Element)
    PROVE  IsFiniteSet(Held(contexts, 1..n, o))
<1> DEFINE S == {m \in Nat : m <= n => IsFiniteSet(Held(contexts, 1..m, o))}
<1>1. 0 \in S
    <2>1. Held(contexts, 1..0, o) = {}
        BY DEF Held
    <2> QED BY <2>1, FS_EmptySet
<1>2. ASSUME NEW m \in Nat, m \in S PROVE m + 1 \in S
    <2> SUFFICES ASSUME m + 1 <= n PROVE IsFiniteSet(Held(contexts, 1..(m + 1), o))
        OBVIOUS
    <2>1. IsFiniteSet(Held(contexts, 1..m, o))
        BY <1>2
    <2>2. IsFiniteSet({m + 1} \X Places(o, contexts[m + 1].stack))
        <3>1. contexts[m + 1].stack \in Seq(Element)
            OBVIOUS
        <3> QED BY <3>1, OneStack
    <2>3. 1..(m + 1) = 1..m \cup {m + 1}
        OBVIOUS
    <2>4. Held(contexts, 1..(m + 1), o) = Held(contexts, 1..m, o) \cup ({m + 1} \X Places(o, contexts[m + 1].stack))
        BY <2>3 DEF Held
    <2> DEFINE old == Held(contexts, 1..m, o)
               new == {m + 1} \X Places(o, contexts[m + 1].stack)
    <2> HIDE DEF old, new
    <2>5. IsFiniteSet(old \cup new)
        BY <2>1, <2>2, FS_Union DEF old, new
    <2> QED BY <2>4, <2>5 DEF old, new
<1> HIDE DEF S
<1>3. n \in S
    BY <1>1, <1>2, UpFromZero
<1> QED BY <1>3 DEF S

\* The references on all stacks are those on one and those on the others.
LEMMA HeldSplit ==
    ASSUME NEW contexts, NEW o, NEW n \in Nat, \A i \in 1..n : contexts[i].stack \in Seq(Element),
           NEW d \in 1..n
    PROVE  /\ HeldCount(contexts, (1..n) \ {d}, o) \in Nat
           /\ Occurrences(o, contexts[d].stack) \in Nat
           /\ HeldCount(contexts, 1..n, o)
                = HeldCount(contexts, (1..n) \ {d}, o) + Occurrences(o, contexts[d].stack)
<1> DEFINE others == Held(contexts, (1..n) \ {d}, o)
           own == {d} \X Places(o, contexts[d].stack)
<1>1. Held(contexts, 1..n, o) = others \cup own
    <2>1. 1..n = ((1..n) \ {d}) \cup {d}
        OBVIOUS
    <2> QED BY <2>1 DEF Held
<1>2. others \cap own = {}
    BY DEF Held
<1>3. IsFiniteSet(others)
    BY <1>1, HeldFinite, FS_Subset
<1>4. IsFiniteSet(own) /\ Cardinality(own) = Occurrences(o, contexts[d].stack)
    BY OneStack
<1>5. Cardinality(others) \in Nat /\ Cardinality(own) \in Nat
    BY <1>3, <1>4, FS_CardinalityType
<1> HIDE DEF others, own
<1>6. Cardinality(others \cup own) = Cardinality(others) + Cardinality(own)
    BY <1>2, <1>3, <1>4, Apart
<1> QED BY <1>1, <1>4, <1>5, <1>6 DEF HeldCount, others

\* Contexts with the same stacks hold the same references.
LEMMA HeldSame ==
    ASSUME NEW contexts, NEW others, NEW D, NEW o, \A i \in D : contexts[i].stack = others[i].stack
    PROVE  HeldCount(contexts, D, o) = HeldCount(others, D, o)
<1>1. {{i} \X Places(o, contexts[i].stack) : i \in D} = {{i} \X Places(o, others[i].stack) : i \in D}
    OBVIOUS
<1> QED BY <1>1 DEF HeldCount, Held

\* What OnStacks counts.
LEMMA OnStacksKnown ==
    \A o : /\ OnStacks(o) = HeldCount(func_contexts, 1..Depth, o)
           /\ OnStacks(o)' = HeldCount(func_contexts', 1..Len(func_contexts'), o)
BY DEF OnStacks, StackPlaces, HeldCount, Held, Depth

\* Every stack holds elements.
LEMMA StacksHold ==
    ASSUME NEW p, NEW contexts \in Seq(Context(p))
    PROVE  /\ Len(contexts) \in Nat
           /\ \A i \in 1..Len(contexts) : contexts[i] \in Context(p) /\ contexts[i].stack \in Seq(Element)
<1>1. Len(contexts) \in Nat
    BY LenProperties
<1>2. \A i \in 1..Len(contexts) : contexts[i] \in Context(p)
    BY ElementOfSeq
<1>3. \A i \in 1..Len(contexts) : contexts[i].stack \in Seq(Element)
    BY <1>2 DEF Context
<1> QED BY <1>1, <1>2, <1>3

-----------------------------------------------------------------------------
(* The inductive invariant                                                   *)

\* A reference to an object that has been made.
Within(el, last) == el.type = "ref" => el.ref <= last

WithinAll(els, last) == \A i \in DOMAIN els : Within(els[i], last)

ContextWithin(c, last) ==
    WithinAll(c.stack, last) /\ WithinAll(c.slots, last) /\ WithinAll(c.args, last)

ContextsWithin == \A i \in 1..Depth : ContextWithin(func_contexts[i], ref_id)

Balance ==
    \A o \in DOMAIN objects :
        objects[o].ref_counter + unpushed[o] = 1 + OnStacks(o) + unpopped[o]

GoneReturned == \A o \in 1..ref_id : o \notin DOMAIN objects => unpushed[o] > 0

\* Nothing is known of an object before it is made.
NothingAhead == \A o \in Ids : o > ref_id => unpushed[o] = 0 /\ unpopped[o] = 0

Sound == ContextsWithin /\ Balance /\ GoneReturned /\ NothingAhead

LInv ==
    /\ IInv /\ FreshEmpty
    /\ ref_id <= MaxRefId
    /\ unpushed \in [Ids -> Nat] /\ unpopped \in [Ids -> Nat]
    /\ ~forged => Sound

\* No live array holds a reference.
PlainArrays ==
    \A o \in DOMAIN objects : \A k \in DOMAIN objects[o].elements :
        objects[o].elements[k].type # "ref"

LEMMA OnStacksType ==
    /\ IInv => \A o : OnStacks(o) \in Nat
    /\ IInv' => \A o : OnStacks(o)' \in Nat
<1>1. ASSUME NEW p, NEW contexts \in Seq(Context(p)), NEW o
      PROVE  HeldCount(contexts, 1..Len(contexts), o) \in Nat
    <2>1. /\ Len(contexts) \in Nat
          /\ \A i \in 1..Len(contexts) : contexts[i].stack \in Seq(Element)
        BY StacksHold
    <2>2. IsFiniteSet(Held(contexts, 1..Len(contexts), o))
        BY <2>1, HeldFinite
    <2> QED BY <2>2, FS_CardinalityType DEF HeldCount
<1>2. IInv => \A o : HeldCount(func_contexts, 1..Depth, o) \in Nat
    BY <1>1 DEF IInv, Depth
<1>3. IInv' => \A o : HeldCount(func_contexts', 1..Len(func_contexts'), o) \in Nat
    BY <1>1 DEF IInv
<1> QED BY <1>2, <1>3, OnStacksKnown

LEMMA CountersType ==
    /\ IInv => \A o \in DOMAIN objects : o \in 1..ref_id /\ objects[o].ref_counter \in Nat
    /\ IInv' => \A o \in DOMAIN objects' : o \in 1..ref_id' /\ objects'[o].ref_counter \in Nat
BY DEF IInv, IsObjects, Object

\* A step that tells the ledger of what it does not count keeps the balance,
\* and destroys only what was returned.
LEMMA Carried ==
    ASSUME LInv, IInv', Sound, ref_id' = ref_id, ContextsWithin',
           unpushed' \in [Ids -> Nat], unpopped' \in [Ids -> Nat],
           \A o \in Ids : /\ unpushed'[o] >= unpushed[o]
                          /\ o > ref_id => unpushed'[o] = unpushed[o] /\ unpopped'[o] = unpopped[o],
           DOMAIN objects' \subseteq DOMAIN objects,
           \A o \in DOMAIN objects' :
                objects'[o].ref_counter + unpushed'[o] + OnStacks(o) + unpopped[o]
                    = objects[o].ref_counter + unpushed[o] + OnStacks(o)' + unpopped'[o],
           \A o \in DOMAIN objects \ DOMAIN objects' : objects[o].ref_counter <= OnStacks(o)
    PROVE  Sound'
<1>1. IInv /\ ref_id \in Nat /\ ref_id <= MaxRefId /\ MaxRefId \in Nat
      /\ unpushed \in [Ids -> Nat] /\ unpopped \in [Ids -> Nat]
    BY InterpreterAssumption DEF LInv, IInv
<1>2. 1..ref_id \subseteq Ids
    BY <1>1 DEF Ids
<1>3. Balance'
    <2> SUFFICES ASSUME NEW o \in DOMAIN objects'
                 PROVE  objects'[o].ref_counter + unpushed'[o] = 1 + OnStacks(o)' + unpopped'[o]
        BY DEF Balance
    <2>1. o \in DOMAIN objects /\ o \in Ids
        BY <1>1, <1>2, CountersType
    <2>2. /\ objects[o].ref_counter \in Nat /\ objects'[o].ref_counter \in Nat
          /\ OnStacks(o) \in Nat /\ OnStacks(o)' \in Nat
        BY <1>1, <2>1, CountersType, OnStacksType
    <2>3. /\ unpushed[o] \in Nat /\ unpopped[o] \in Nat /\ unpushed'[o] \in Nat /\ unpopped'[o] \in Nat
        BY <1>1, <2>1
    <2>4. objects[o].ref_counter + unpushed[o] = 1 + OnStacks(o) + unpopped[o]
        BY <2>1 DEF Sound, Balance
    <2>5. objects'[o].ref_counter + unpushed'[o] + OnStacks(o) + unpopped[o]
            = objects[o].ref_counter + unpushed[o] + OnStacks(o)' + unpopped'[o]
        OBVIOUS
    <2> DEFINE a == objects[o].ref_counter
               b == objects'[o].ref_counter
               s == OnStacks(o)
               t == OnStacks(o)'
    <2> HIDE DEF a, b, s, t
    <2> QED BY <2>2, <2>3, <2>4, <2>5 DEF a, b, s, t
<1>4. GoneReturned'
    <2> SUFFICES ASSUME NEW o \in 1..ref_id, o \notin DOMAIN objects' PROVE unpushed'[o] > 0
        BY DEF GoneReturned
    <2>1. o \in Ids /\ unpushed'[o] >= unpushed[o] /\ unpushed[o] \in Nat /\ unpushed'[o] \in Nat
          /\ unpopped[o] \in Nat
        BY <1>1, <1>2
    <2>2. CASE o \in DOMAIN objects
        <3>1. objects[o].ref_counter \in Nat /\ OnStacks(o) \in Nat
            BY <1>1, <2>2, CountersType, OnStacksType
        <3>2. objects[o].ref_counter + unpushed[o] = 1 + OnStacks(o) + unpopped[o]
            BY <2>2 DEF Sound, Balance
        <3>3. objects[o].ref_counter <= OnStacks(o)
            BY <2>2
        <3> DEFINE a == objects[o].ref_counter
                   s == OnStacks(o)
        <3> HIDE DEF a, s
        <3> QED BY <2>1, <3>1, <3>2, <3>3 DEF a, s
    <2>3. CASE o \notin DOMAIN objects
        <3>1. unpushed[o] > 0
            BY <2>3 DEF Sound, GoneReturned
        <3> QED BY <2>1, <3>1
    <2> QED BY <2>2, <2>3
<1>5. NothingAhead'
    BY DEF Sound, NothingAhead, Ids
<1> QED BY <1>3, <1>4, <1>5 DEF Sound

-----------------------------------------------------------------------------
(* What a step does to the references on the stacks                          *)

\* One stack changes, and no context comes or goes.
LEMMA OneChanged ==
    ASSUME IInv, IInv', NEW d \in 1..Depth, Len(func_contexts') = Depth,
           \A i \in 1..Depth : i # d => func_contexts'[i].stack = func_contexts[i].stack,
           NEW o
    PROVE  /\ OnStacks(o)' + Occurrences(o, func_contexts[d].stack)
                = OnStacks(o) + Occurrences(o, func_contexts'[d].stack)
           /\ Occurrences(o, func_contexts[d].stack) <= OnStacks(o)
<1> DEFINE before == func_contexts
           after == func_contexts'
<1>1. Depth \in Nat /\ \A i \in 1..Depth : before[i].stack \in Seq(Element)
    BY StacksHold DEF IInv, Depth
<1>2. \A i \in 1..Depth : after[i].stack \in Seq(Element)
    BY StacksHold DEF IInv
<1>3. OnStacks(o) = HeldCount(before, 1..Depth, o) /\ OnStacks(o)' = HeldCount(after, 1..Depth, o)
    BY OnStacksKnown
<1> DEFINE others == HeldCount(before, (1..Depth) \ {d}, o)
           s == Occurrences(o, before[d].stack)
           t == Occurrences(o, after[d].stack)
<1>4. others \in Nat /\ s \in Nat /\ HeldCount(before, 1..Depth, o) = others + s
    BY <1>1, HeldSplit
<1>5. t \in Nat /\ HeldCount(after, 1..Depth, o) = HeldCount(after, (1..Depth) \ {d}, o) + t
    BY <1>1, <1>2, HeldSplit
<1>6. HeldCount(after, (1..Depth) \ {d}, o) = others
    BY HeldSame
<1> HIDE DEF others, s, t
<1>7. OnStacks(o) = others + s /\ OnStacks(o)' = others + t
    BY <1>3, <1>4, <1>5, <1>6
<1>8. OnStacks(o)' + s = OnStacks(o) + t /\ s <= OnStacks(o)
    BY <1>4, <1>5, <1>7
<1> QED BY <1>8 DEF s, t

\* The last context, apart from those under it.
LEMMA LastOne ==
    ASSUME NEW contexts, NEW n \in Nat, \A i \in 1..(n + 1) : contexts[i].stack \in Seq(Element), NEW o
    PROVE  /\ HeldCount(contexts, 1..n, o) \in Nat
           /\ HeldCount(contexts, 1..(n + 1), o)
                = HeldCount(contexts, 1..n, o) + Occurrences(o, contexts[n + 1].stack)
           /\ Occurrences(o, contexts[n + 1].stack) \in Nat
<1>1. (1..(n + 1)) \ {n + 1} = 1..n
    OBVIOUS
<1>2. n + 1 \in 1..(n + 1) /\ n + 1 \in Nat
    OBVIOUS
<1>3. /\ HeldCount(contexts, (1..(n + 1)) \ {n + 1}, o) \in Nat
      /\ Occurrences(o, contexts[n + 1].stack) \in Nat
      /\ HeldCount(contexts, 1..(n + 1), o)
            = HeldCount(contexts, (1..(n + 1)) \ {n + 1}, o) + Occurrences(o, contexts[n + 1].stack)
    BY <1>2, HeldSplit
<1> QED BY <1>1, <1>3

\* The innermost context goes.
LEMMA OneGone ==
    ASSUME IInv, NEW n \in Nat, Depth = n + 1, NEW o
    PROVE  /\ HeldCount(func_contexts, 1..n, o) \in Nat
           /\ OnStacks(o) = HeldCount(func_contexts, 1..n, o) + Occurrences(o, top.stack)
           /\ Occurrences(o, top.stack) \in Nat
<1>1. \A i \in 1..(n + 1) : func_contexts[i].stack \in Seq(Element)
    BY StacksHold DEF IInv, Depth
<1>2. OnStacks(o) = HeldCount(func_contexts, 1..(n + 1), o) /\ top.stack = func_contexts[n + 1].stack
    BY OnStacksKnown DEF top
<1> QED BY <1>1, <1>2, LastOne

\* A step of the books: what the counters lose or gain, the stack does.
Books(s, t, objs, objs2) ==
    /\ DOMAIN objs2 \subseteq DOMAIN objs
    /\ \A o \in DOMAIN objs2 :
            objs2[o].ref_counter + Occurrences(o, s) = objs[o].ref_counter + Occurrences(o, t)
    /\ \A o \in DOMAIN objs \ DOMAIN objs2 : objs[o].ref_counter <= Occurrences(o, s)

\* The handlers that keep the books of their own context only.
Accounted ==
    /\ ref_id' = ref_id
    /\ \E c : /\ func_contexts' = [func_contexts EXCEPT ![Depth] = c]
              /\ ContextWithin(c, ref_id)
              /\ Books(top.stack, c.stack, objects, objects')

LEMMA AccountedStep ==
    ASSUME LInv, IInv', Sound, Depth > 0, Accounted, UNCHANGED <<unpushed, unpopped>>
    PROVE  Sound'
<1>1. PICK c : /\ func_contexts' = [func_contexts EXCEPT ![Depth] = c]
               /\ ContextWithin(c, ref_id)
               /\ Books(top.stack, c.stack, objects, objects')
    BY DEF Accounted
<1>2. IInv /\ func_contexts \in Seq(Context(prog)) /\ func_contexts' \in Seq(Context(prog'))
    BY DEF LInv, IInv
<1>3. Depth \in Nat \ {0} /\ DOMAIN func_contexts = 1..Depth
    BY <1>2, LenProperties DEF Depth
<1>4. DOMAIN func_contexts' = 1..Depth /\ Len(func_contexts') = Depth
    BY <1>1, <1>2, <1>3, LenProperties
<1>5. func_contexts'[Depth] = c /\ \A i \in 1..Depth : i # Depth => func_contexts'[i] = func_contexts[i]
    BY <1>1, <1>3
<1>6. ContextsWithin'
    BY <1>1, <1>4, <1>5 DEF Sound, ContextsWithin, Accounted, Depth
<1>7. \A o : /\ OnStacks(o)' + Occurrences(o, top.stack) = OnStacks(o) + Occurrences(o, c.stack)
             /\ Occurrences(o, top.stack) <= OnStacks(o)
    BY <1>2, <1>3, <1>4, <1>5, OneChanged DEF top
<1>8. \A o : /\ OnStacks(o) \in Nat /\ OnStacks(o)' \in Nat
             /\ Occurrences(o, top.stack) \in Nat /\ Occurrences(o, c.stack) \in Nat
    <2>1. top.stack \in Seq(Element) /\ c.stack \in Seq(Element)
        BY <1>2, <1>3, <1>4, <1>5, StacksHold DEF top
    <2> QED BY <1>2, <2>1, OnStacksType, OccurrencesType
<1>9. \A o \in DOMAIN objects' :
            objects'[o].ref_counter + unpushed'[o] + OnStacks(o) + unpopped[o]
                = objects[o].ref_counter + unpushed[o] + OnStacks(o)' + unpopped'[o]
    <2> TAKE o \in DOMAIN objects'
    <2>1. objects'[o].ref_counter + Occurrences(o, top.stack) = objects[o].ref_counter + Occurrences(o, c.stack)
        BY <1>1 DEF Books
    <2>2. o \in DOMAIN objects
        BY <1>1 DEF Books
    <2>3. /\ objects[o].ref_counter \in Nat /\ objects'[o].ref_counter \in Nat
          /\ unpushed[o] \in Nat /\ unpopped[o] \in Nat /\ unpushed' = unpushed /\ unpopped' = unpopped
        <3>1. o \in 1..ref_id /\ ref_id \in Nat /\ ref_id <= MaxRefId /\ MaxRefId \in Nat
            BY <1>2, <2>2, CountersType, InterpreterAssumption DEF LInv, IInv
        <3>2. o \in Ids
            BY <3>1 DEF Ids
        <3> QED BY <1>2, <2>2, <3>2, CountersType DEF LInv
    <2> DEFINE a == objects[o].ref_counter
               b == objects'[o].ref_counter
               s == OnStacks(o)
               t == OnStacks(o)'
               x == Occurrences(o, top.stack)
               y == Occurrences(o, c.stack)
    <2>4. a \in Nat /\ b \in Nat /\ s \in Nat /\ t \in Nat /\ x \in Nat /\ y \in Nat
          /\ b + x = a + y /\ t + x = s + y
        BY <1>7, <1>8, <2>1, <2>3
    <2> HIDE DEF a, b, s, t, x, y
    <2>5. b + unpushed[o] + s + unpopped[o] = a + unpushed[o] + t + unpopped[o]
        BY <2>3, <2>4
    <2> QED BY <2>3, <2>5 DEF a, b, s, t
<1>10. \A o \in DOMAIN objects \ DOMAIN objects' : objects[o].ref_counter <= OnStacks(o)
    <2> TAKE o \in DOMAIN objects \ DOMAIN objects'
    <2>1. objects[o].ref_counter <= Occurrences(o, top.stack) /\ objects[o].ref_counter \in Nat
        BY <1>1, <1>2, CountersType DEF Books
    <2> QED BY <1>7, <1>8, <2>1
<1>11. DOMAIN objects' \subseteq DOMAIN objects
    BY <1>1 DEF Books
<1>12. /\ unpushed' \in [Ids -> Nat] /\ unpopped' \in [Ids -> Nat]
       /\ \A o \in Ids : /\ unpushed'[o] >= unpushed[o]
                         /\ o > ref_id => unpushed'[o] = unpushed[o] /\ unpopped'[o] = unpopped[o]
    BY DEF LInv
<1> QED BY <1>6, <1>9, <1>10, <1>11, <1>12, Carried DEF Accounted

-----------------------------------------------------------------------------
(* Handlers that keep the books                                              *)

LEMMA WithinStack ==
    ASSUME NEW s \in Seq(Element), NEW last, WithinAll(s, last)
    PROVE  /\ \A el \in Element : Within(el, last) => WithinAll(Append(s, el), last)
           /\ \A n \in Nat : n <= Len(s) => WithinAll(SubSeq(s, 1, Len(s) - n), last)
           /\ \A k \in Nat : k < Len(s) => Within(s[Len(s) - k], last)
<1>1. Len(s) \in Nat /\ DOMAIN s = 1..Len(s)
    BY LenProperties
<1>2. ASSUME NEW el \in Element, Within(el, last) PROVE WithinAll(Append(s, el), last)
    <2>1. /\ Append(s, el) \in Seq(Element) /\ Len(Append(s, el)) = Len(s) + 1
          /\ \A i \in 1..Len(s) : Append(s, el)[i] = s[i]
          /\ Append(s, el)[Len(s) + 1] = el
        BY AppendProperties
    <2>2. DOMAIN Append(s, el) = 1..(Len(s) + 1)
        BY <2>1, LenProperties
    <2> QED BY <1>1, <1>2, <2>1, <2>2 DEF WithinAll
<1>3. ASSUME NEW n \in Nat, n <= Len(s) PROVE WithinAll(SubSeq(s, 1, Len(s) - n), last)
    <2> DEFINE m == Len(s) - n
    <2>1. m \in Nat /\ m <= Len(s)
        BY <1>1, <1>3
    <2> HIDE DEF m
    <2>2. \A i \in 1..m : s[i] \in Element
        BY <1>1, <2>1, ElementOfSeq
    <2>3. /\ SubSeq(s, 1, m) \in Seq(Element) /\ Len(SubSeq(s, 1, m)) = m
          /\ \A i \in 1..m : SubSeq(s, 1, m)[i] = s[i]
        BY <2>1, <2>2, SubSeqProperties
    <2>4. DOMAIN SubSeq(s, 1, m) = 1..m
        BY <2>3, LenProperties
    <2>5. WithinAll(SubSeq(s, 1, m), last)
        BY <1>1, <2>1, <2>3, <2>4 DEF WithinAll
    <2> QED BY <2>5 DEF m
<1>4. \A k \in Nat : k < Len(s) => Within(s[Len(s) - k], last)
    BY <1>1 DEF WithinAll
<1> QED BY <1>2, <1>3, <1>4

LEMMA WithinLocals ==
    ASSUME NEW locals, NEW i, NEW last \in Nat, WithinAll(locals, last)
    PROVE  /\ Within(Local(locals, i), last)
           /\ WithinAll(Unload(locals, i), last)
           /\ \A el : Within(el, last) => WithinAll(Assign(locals, i, el), last)
<1>1. Within(Local(locals, i), last)
    BY DEF Local, WithinAll, Within, NoneElement
<1>2. WithinAll(Unload(locals, i), last)
    <2>1. CASE i \in DOMAIN locals
        <3>1. Within(Moved(locals[i]), last)
            <4>1. Within(locals[i], last)
                BY <2>1 DEF WithinAll
            <4>2. Moved(locals[i]).type = locals[i].type /\ Moved(locals[i]).ref = locals[i].ref
                BY DEF Moved
            <4> QED BY <4>1, <4>2 DEF Within
        <3> DEFINE el == Moved(locals[i])
        <3>2. Unload(locals, i) = [locals EXCEPT ![i] = el]
            BY <2>1 DEF Unload
        <3> HIDE DEF el
        <3> QED BY <3>1, <3>2 DEF WithinAll, el
    <2>2. CASE i \notin DOMAIN locals
        BY <2>2 DEF Unload
    <2> QED BY <2>1, <2>2
<1>3. \A el : Within(el, last) => WithinAll(Assign(locals, i, el), last)
    BY DEF Assign, WithinAll
<1> QED BY <1>1, <1>2, <1>3

\* A stack with as many references keeps the books of the same objects.
LEMMA BooksSame ==
    ASSUME NEW s, NEW t, \A o : Occurrences(o, s) = Occurrences(o, t), NEW objs
    PROVE  Books(s, t, objs, objs)
BY DEF Books

\* do_pop of what leaves the stack.
LEMMA BooksPop ==
    ASSUME NEW objs, \A o \in DOMAIN objs : objs[o] \in Object,
           NEW s \in Seq(Element), NEW n \in Nat, n <= Len(s)
    PROVE  Books(s, SubSeq(s, 1, Len(s) - n), objs, DoPop(objs, SubSeq(s, Len(s) - n + 1, Len(s))))
<1> DEFINE rest == SubSeq(s, 1, Len(s) - n)
           popped == SubSeq(s, Len(s) - n + 1, Len(s))
           objs2 == DoPop(objs, popped)
<1>1. rest \in Seq(Element) /\ popped \in Seq(Element)
    BY StackTypes
<1>2. \A o : /\ Occurrences(o, s) = Occurrences(o, rest) + Occurrences(o, popped)
             /\ Occurrences(o, rest) \in Nat /\ Occurrences(o, popped) \in Nat
    BY <1>1, OccurrencesSplit, OccurrencesType
<1> HIDE DEF rest, popped
<1>3. DOMAIN objs2 = {p \in DOMAIN objs : \/ Occurrences(p, popped) = 0
                                          \/ objs[p].ref_counter > Occurrences(p, popped)}
    BY DEF DoPop
<1>4. \A o \in DOMAIN objs : objs[o].ref_counter \in Nat
    BY DEF Object
<1>5. \A o \in DOMAIN objs2 : objs2[o].ref_counter = objs[o].ref_counter - Occurrences(o, popped)
    <2> TAKE o \in DOMAIN objs2
    <2>1. objs[o] \in Object
        BY <1>3
    <2>2. objs2[o] = [objs[o] EXCEPT !.ref_counter = @ - Occurrences(o, popped)]
        BY DEF DoPop
    <2> QED BY <2>1, <2>2 DEF Object
<1> HIDE DEF objs2
<1>6. \A o \in DOMAIN objs2 :
        objs2[o].ref_counter + Occurrences(o, s) = objs[o].ref_counter + Occurrences(o, rest)
    <2> TAKE o \in DOMAIN objs2
    <2>1. o \in DOMAIN objs
        BY <1>3
    <2> QED BY <1>2, <1>4, <1>5, <2>1
<1>7. \A o \in DOMAIN objs \ DOMAIN objs2 : objs[o].ref_counter <= Occurrences(o, s)
    <2> TAKE o \in DOMAIN objs \ DOMAIN objs2
    <2>1. objs[o].ref_counter <= Occurrences(o, popped)
        BY <1>2, <1>3, <1>4
    <2> QED BY <1>2, <1>4, <2>1
<1> QED BY <1>3, <1>6, <1>7 DEF Books, rest, popped, objs2

\* do_push of what is put on the stack.
LEMMA BooksPush ==
    ASSUME NEW objs, NEW objs2, \A o \in DOMAIN objs2 : objs2[o] \in Object,
           \A o \in DOMAIN objs : objs[o] \in Object,
           NEW s \in Seq(Element), NEW t \in Seq(Element), NEW el \in Element, Books(s, t, objs, objs2)
    PROVE  Books(s, Append(t, el), objs, DoPush(objs2, el))
<1> DEFINE objs3 == DoPush(objs2, el)
<1>1. DOMAIN objs3 = DOMAIN objs2
    BY DEF DoPush
<1>2. \A o \in DOMAIN objs2 : objs2[o].ref_counter \in Nat
    BY DEF Object
<1>3. \A o \in DOMAIN objs2 : objs3[o].ref_counter = objs2[o].ref_counter + Counts(el, o)
    <2> TAKE o \in DOMAIN objs2
    <2>1. CASE IsRefTo(el, o)
        <3> DEFINE new == [objs2[o] EXCEPT !.ref_counter = @ + 1]
        <3>1. objs3 = [objs2 EXCEPT ![o] = new]
            BY <2>1 DEF DoPush, IsRefTo
        <3>2. new.ref_counter = objs2[o].ref_counter + 1
            BY DEF Object
        <3> HIDE DEF new, objs3
        <3> QED BY <2>1, <3>1, <3>2 DEF Counts
    <2>2. CASE ~IsRefTo(el, o)
        <3>1. objs3[o] = objs2[o]
            BY <2>2 DEF DoPush, IsRefTo
        <3> QED BY <1>2, <2>2, <3>1 DEF Counts
    <2> QED BY <2>1, <2>2
<1> HIDE DEF objs3
<1>4. \A o : /\ Occurrences(o, Append(t, el)) = Occurrences(o, t) + Counts(el, o)
             /\ Occurrences(o, t) \in Nat /\ Occurrences(o, s) \in Nat /\ Counts(el, o) \in Nat
    BY OccurrencesAppend, OccurrencesType DEF Counts
<1>5. \A o \in DOMAIN objs3 :
        objs3[o].ref_counter + Occurrences(o, s) = objs[o].ref_counter + Occurrences(o, Append(t, el))
    <2> TAKE o \in DOMAIN objs3
    <2>1. o \in DOMAIN objs2 /\ o \in DOMAIN objs /\ objs[o].ref_counter \in Nat
        BY <1>1 DEF Books, Object
    <2>2. objs2[o].ref_counter + Occurrences(o, s) = objs[o].ref_counter + Occurrences(o, t)
        BY <2>1 DEF Books
    <2>3. objs3[o].ref_counter = objs2[o].ref_counter + Counts(el, o) /\ objs2[o].ref_counter \in Nat
        BY <1>2, <1>3, <2>1
    <2> DEFINE x == Occurrences(o, s)
               y == Occurrences(o, t)
               z == Occurrences(o, Append(t, el))
               d == Counts(el, o)
               a == objs[o].ref_counter
               b == objs2[o].ref_counter
               c == objs3[o].ref_counter
    <2>4. z = y + d /\ x \in Nat /\ y \in Nat /\ d \in Nat
        BY <1>4
    <2>5. a \in Nat /\ b \in Nat /\ b + x = a + y /\ c = b + d
        BY <2>1, <2>2, <2>3
    <2> HIDE DEF x, y, z, d, a, b, c
    <2>6. c + x = a + z
        BY <2>4, <2>5
    <2> QED BY <2>6 DEF x, z, a, c
<1> QED BY <1>1, <1>5 DEF Books, objs3

\* What an array holds is no concern of its counter.
LEMMA BooksStore ==
    ASSUME NEW objs, NEW objs2, \A o \in DOMAIN objs2 : objs2[o] \in Object,
           NEW s, NEW t, NEW a, NEW els, Books(s, t, objs, objs2)
    PROVE  Books(s, t, objs, [objs2 EXCEPT ![a].elements = els])
<1> DEFINE objs3 == [objs2 EXCEPT ![a].elements = els]
<1>1. DOMAIN objs3 = DOMAIN objs2
    OBVIOUS
<1>2. \A o \in DOMAIN objs2 : objs3[o].ref_counter = objs2[o].ref_counter
    BY DEF Object
<1> HIDE DEF objs3
<1> QED BY <1>1, <1>2 DEF Books, objs3

\* What is known of a context at work.
LEMMA AtWork ==
    ASSUME LInv, Sound, Running
    PROVE  /\ IInv /\ ref_id \in Nat /\ Depth \in Nat \ {0} /\ top \in Context(prog)
           /\ top.stack \in Seq(Element) /\ Len(top.stack) \in Nat
           /\ WithinAll(top.stack, ref_id) /\ WithinAll(top.slots, ref_id) /\ WithinAll(top.args, ref_id)
           /\ \A o \in DOMAIN objects : objects[o] \in Object
<1>1. IInv
    BY DEF LInv
<1>2. Depth \in Nat \ {0} /\ Depth \in 1..Depth /\ top \in Context(prog) /\ top.stack \in Seq(Element)
      /\ Len(top.stack) \in Nat
    BY <1>1, TopContext DEF Running
<1>3. ContextWithin(top, ref_id)
    BY <1>2 DEF Sound, ContextsWithin, top
<1> QED BY <1>1, <1>2, <1>3 DEF IInv, IsObjects, ContextWithin

\* What popping does, to the books and to the stack.
LEMMA PopKeeps ==
    ASSUME LInv, Sound, Running, NEW n \in Nat, Has(n)
    PROVE  /\ Rest(n) \in Seq(Element) /\ WithinAll(Rest(n), ref_id)
           /\ Books(top.stack, Rest(n), objects, DoPop(objects, Popped(n)))
           /\ \A o \in DOMAIN DoPop(objects, Popped(n)) : DoPop(objects, Popped(n))[o] \in Object
           /\ \A k \in Nat : k < n => Peek(k) \in Element /\ Within(Peek(k), ref_id)
<1>1. /\ IInv /\ top.stack \in Seq(Element) /\ Len(top.stack) \in Nat /\ WithinAll(top.stack, ref_id)
      /\ \A o \in DOMAIN objects : objects[o] \in Object
    BY AtWork
<1>2. n <= Len(top.stack)
    BY <1>1 DEF Has
<1>3. Rest(n) \in Seq(Element) /\ \A k \in Nat : k < n => Peek(k) \in Element
    BY <1>1, Operands
<1>4. WithinAll(Rest(n), ref_id) /\ \A k \in Nat : k < n => Within(Peek(k), ref_id)
    <2>1. \A k \in Nat : k < n => k < Len(top.stack)
        BY <1>1, <1>2
    <2> QED BY <1>1, <1>2, <2>1, WithinStack DEF Rest, Peek
<1>5. Books(top.stack, Rest(n), objects, DoPop(objects, Popped(n)))
    BY <1>1, <1>2, BooksPop DEF Rest, Popped
<1>6. \A o \in DOMAIN DoPop(objects, Popped(n)) : DoPop(objects, Popped(n))[o] \in Object
    BY <1>1, Operands DEF IsObjects
<1> QED BY <1>3, <1>4, <1>5, <1>6

\* What popping and pushing does.
LEMMA ReplaceKeeps ==
    ASSUME LInv, Sound, Running, NEW n \in Nat, Has(n), NEW el \in Element, Within(el, ref_id)
    PROVE  /\ WithinAll(Append(Rest(n), el), ref_id)
           /\ Books(top.stack, Append(Rest(n), el), objects, DoPush(DoPop(objects, Popped(n)), el))
<1> DEFINE objs == DoPop(objects, Popped(n))
           rest == Rest(n)
<1>1. /\ rest \in Seq(Element) /\ WithinAll(rest, ref_id)
      /\ Books(top.stack, rest, objects, objs)
      /\ \A o \in DOMAIN objs : objs[o] \in Object
    BY PopKeeps
<1>2. top.stack \in Seq(Element) /\ \A o \in DOMAIN objects : objects[o] \in Object
    BY AtWork
<1> HIDE DEF objs, rest
<1>3. WithinAll(Append(rest, el), ref_id)
    BY <1>1, WithinStack
<1>4. Books(top.stack, Append(rest, el), objects, DoPush(objs, el))
    BY <1>1, <1>2, BooksPush
<1> QED BY <1>3, <1>4 DEF objs, rest

\* A value that is no reference can be pushed without telling.
LEMMA PushPlain ==
    ASSUME NEW el \in Element, el.type # "ref"
    PROVE  /\ \A last : Within(el, last)
           /\ \A objs : DoPush(objs, el) = objs
           /\ \A s \in Seq(Element) : \A o : Occurrences(o, Append(s, el)) = Occurrences(o, s)
<1>1. \A o : Counts(el, o) = 0
    BY DEF Counts, IsRefTo
<1>2. ASSUME NEW s \in Seq(Element), NEW o
      PROVE  Occurrences(o, Append(s, el)) = Occurrences(o, s)
    <2>1. Occurrences(o, Append(s, el)) = Occurrences(o, s) + Counts(el, o) /\ Occurrences(o, s) \in Nat
        BY OccurrencesAppend, OccurrencesType
    <2> QED BY <1>1, <2>1
<1> QED BY <1>2 DEF Within, DoPush

LEMMA GotoAccounted ==
    ASSUME LInv, Sound, Running, NEW pc, NEW stack, WithinAll(stack, ref_id),
           NEW objs, Books(top.stack, stack, objects, objs), Goto(pc, stack, objs)
    PROVE  Accounted
<1> DEFINE c == [top EXCEPT !.pc = pc, !.stack = stack]
<1>1. top \in Context(prog) /\ WithinAll(top.slots, ref_id) /\ WithinAll(top.args, ref_id)
    BY AtWork
<1>2. c.stack = stack /\ c.slots = top.slots /\ c.args = top.args
    BY <1>1 DEF Context
<1>3. func_contexts' = [func_contexts EXCEPT ![Depth] = c] /\ objects' = objs /\ ref_id' = ref_id
    BY DEF Goto, Continue
<1> HIDE DEF c
<1>4. ContextWithin(c, ref_id)
    BY <1>1, <1>2 DEF ContextWithin
<1> QED BY <1>2, <1>3, <1>4 DEF Accounted

LEMMA DropAccounted ==
    ASSUME LInv, Sound, Running, NEW n \in Nat, Has(n), NEW pc, Goto(pc, Rest(n), DoPop(objects, Popped(n)))
    PROVE  Accounted
BY PopKeeps, GotoAccounted

LEMMA ReplaceAccounted ==
    ASSUME LInv, Sound, Running, NEW n \in Nat, Has(n), NEW el \in Element, Within(el, ref_id), Replace(n, el)
    PROVE  Accounted
BY ReplaceKeeps, GotoAccounted DEF Replace

LEMMA SameAccounted ==
    ASSUME LInv, Sound, Running, NEW pc, Goto(pc, top.stack, objects)
    PROVE  Accounted
BY AtWork, BooksSame, GotoAccounted

LEMMA ConstAccounted == ASSUME LInv, Sound, LdCst PROVE Accounted
<1>1. Running /\ instr.op \in ConstOps /\ instr.cst.type = ExpectedConst
    BY DEF LdCst, Decodes
<1>2. IInv /\ top.stack \in Seq(Element) /\ WithinAll(top.stack, ref_id)
    BY <1>1, AtWork
<1>3. instr.cst \in Element
    BY <1>1, <1>2, Decoded
       DEF Instr, ConstOps, LocalOps, SlotOps, ArgOps, JumpOps, TestOps, BoolOps,
           PlainOps, ArithOps, CompareOps, UnaryOps, UnhandledOps
<1>4. instr.cst.type # "ref"
    BY <1>1 DEF ExpectedConst
<1>5. WithinAll(Append(top.stack, instr.cst), ref_id)
    BY <1>2, <1>3, <1>4, PushPlain, WithinStack
<1>6. Books(top.stack, Append(top.stack, instr.cst), objects, objects)
    BY <1>2, <1>3, <1>4, PushPlain, BooksSame
<1> QED BY <1>1, <1>5, <1>6, GotoAccounted DEF LdCst

\* Numbers and strings are no references.
LEMMA PlainValues ==
    /\ \A n \in Nums : Num(n) \in Element /\ Num(n).type # "ref"
    /\ \A s \in Strs : Str(s) \in Element /\ Str(s).type # "ref"
    /\ NoneElement \in Element /\ NoneElement.type # "ref"
BY ElementTypes DEF Num, Str, NoneElement

LEMMA AddAccounted == ASSUME LInv, Sound, Add PROVE Accounted
<1>1. Running /\ Has(2)
    BY DEF Add, Decodes
<1>2. IInv /\ el1 \in Element /\ el2 \in Element
    BY <1>1, AtWork, Operands DEF el1, el2
<1>3. el1.num \in Int /\ el2.num \in Int /\ el1.str \in Strs /\ el2.str \in Strs
    BY <1>2, Components
<1>4. CASE HasStr
    <2>1. PICK t \in Concat(el2.str, el1.str) : Replace(2, Str(t))
        BY <1>4 DEF Add
    <2>2. t \in Strs
        BY <1>3, <2>1, Results
    <2> QED BY <1>1, <2>1, <2>2, PlainValues, PushPlain, ReplaceAccounted
<1>5. CASE ~HasStr
    <2>1. PICK n \in Fit(el2.num + el1.num) : Replace(2, Num(n))
        BY <1>5 DEF Add
    <2>2. n \in Nums
        <3>1. el2.num + el1.num \in Int
            BY <1>3
        <3> QED BY <2>1, <3>1, Results
    <2> QED BY <1>1, <2>1, <2>2, PlainValues, PushPlain, ReplaceAccounted
<1> QED BY <1>4, <1>5

LEMMA ArithAccounted == ASSUME LInv, Sound, Arith PROVE Accounted
<1>1. Running /\ Has(2)
    BY DEF Arith, Decodes
<1>2. IInv /\ el1 \in Element /\ el2 \in Element
    BY <1>1, AtWork, Operands DEF el1, el2
<1>3. CASE HasStr
    BY <1>1, <1>3, DropAccounted DEF Arith, Drop
<1>4. CASE ~HasStr
    <2>1. PICK n \in ArithResults : Replace(2, Num(n))
        BY <1>4 DEF Arith
    <2>2. el2.num - el1.num \in Int /\ el2.num * el1.num \in Int
        <3>1. el1.num \in Int /\ el2.num \in Int
            BY <1>2, Components
        <3> QED BY <3>1
    <2>3. n \in Nums
        BY <2>1, <2>2, Results DEF ArithResults
    <2> QED BY <1>1, <2>1, <2>3, PlainValues, PushPlain, ReplaceAccounted
<1> QED BY <1>3, <1>4

LEMMA CompareAccounted == ASSUME LInv, Sound, Compare PROVE Accounted
<1>1. Running /\ Has(2)
    BY DEF Compare, Decodes
<1>2. PICK b \in Outcomes :
        Replace(2, [NoneElement EXCEPT !.type = IF HasStr THEN "str" ELSE "num",
                                       !.num = BoolNum(b)])
    BY DEF Compare
<1> DEFINE el == [NoneElement EXCEPT !.type = IF HasStr THEN "str" ELSE "num", !.num = BoolNum(b)]
<1>3. BoolNum(b) \in Nums
    BY Results
<1>4. el \in Element
    BY <1>3, ElementTypes DEF Element, Types
<1>5. el.type # "ref"
    BY DEF NoneElement
<1> HIDE DEF el
<1>6. Replace(2, el)
    BY <1>2 DEF el
<1> QED BY <1>1, <1>4, <1>5, <1>6, PushPlain, ReplaceAccounted

\* A unary operator passes a reference on as the reference it is.
LEMMA UnaryAccounted == ASSUME LInv, Sound, Unary PROVE Accounted
<1>1. Running /\ Has(1) /\ instr.op \in UnaryOps
    BY DEF Unary, Decodes
<1>2. el1 \in Element /\ Within(el1, ref_id)
    BY <1>1, PopKeeps DEF el1
<1>3. CASE el1.type = "str"
    BY <1>1, <1>3, DropAccounted DEF Unary, Drop
<1>4. CASE el1.type # "str"
    <2>1. PICK n \in UnaryResults : Replace(1, [el1 EXCEPT !.num = n])
        BY <1>4 DEF Unary
    <2>2. -el1.num \in Int /\ -el1.num - 1 \in Int
        <3>1. el1.num \in Int
            BY <1>2, Components
        <3> QED BY <3>1
    <2>3. n \in Nums
        BY <1>1, <2>1, <2>2, Results DEF UnaryResults, UnaryOps
    <2>4. [el1 EXCEPT !.num = n] \in Element
        BY <1>2, <2>3 DEF Element
    <2>5. Within([el1 EXCEPT !.num = n], ref_id)
        BY <1>2 DEF Within, Element
    <2> QED BY <1>1, <2>1, <2>4, <2>5, ReplaceAccounted
<1> QED BY <1>3, <1>4

LEMMA BranchesAccounted == ASSUME LInv, Sound, Br \/ BrTest \/ BrBool PROVE Accounted
<1>1. CASE Br
    BY <1>1, SameAccounted DEF Br, Decodes
<1>2. CASE BrTest
    <2>1. Running /\ Has(2)
        BY <1>2 DEF BrTest, Decodes
    <2>2. PICK b \in Outcomes : BranchIf(2, b)
        BY <1>2 DEF BrTest
    <2> QED BY <2>1, <2>2, DropAccounted DEF BranchIf
<1>3. CASE BrBool
    BY <1>3, DropAccounted DEF BrBool, Decodes, BranchIf
<1> QED BY <1>1, <1>2, <1>3

LEMMA StrElmAccounted == ASSUME LInv, Sound, StrElm PROVE Accounted
<1> DEFINE arr == Peek(2)
           index == Peek(1)
           val == Peek(0)
           objs == DoPop(objects, Popped(3))
           grown == Resized(objs[arr.ref].elements, index.num)
<1>1. Running /\ Has(3)
    BY DEF StrElm, Decodes
<1>2. CASE ~Finds(3, arr, index)
    BY <1>1, <1>2, DropAccounted DEF StrElm, Drop
<1>3. CASE Finds(3, arr, index)
    <2>1. PICK junk \in 0..MaxRefId :
            Goto(next_pc, Rest(3),
                 [objs EXCEPT ![arr.ref].elements =
                    [grown EXCEPT ![index.num + 1] = Stored(grown[index.num + 1], val, junk)]])
        BY <1>3 DEF StrElm
    <2> DEFINE a == arr.ref
               els == [grown EXCEPT ![index.num + 1] = Stored(grown[index.num + 1], val, junk)]
    <2>2. Goto(next_pc, Rest(3), [objs EXCEPT ![a].elements = els])
        BY <2>1
    <2>3. /\ WithinAll(Rest(3), ref_id) /\ Books(top.stack, Rest(3), objects, objs)
          /\ \A o \in DOMAIN objs : objs[o] \in Object
        BY <1>1, PopKeeps
    <2> HIDE DEF a, els, objs
    <2>4. Books(top.stack, Rest(3), objects, [objs EXCEPT ![a].elements = els])
        BY <2>3, BooksStore
    <2> QED BY <1>1, <2>2, <2>3, <2>4, GotoAccounted
<1> QED BY <1>2, <1>3

\* As long as no array holds a reference, ldelm loads none.
LEMMA LdElmAccounted == ASSUME LInv, Sound, PlainArrays, LdElm PROVE Accounted
<1> DEFINE arr == Peek(1)
           index == Peek(0)
           objs == DoPop(objects, Popped(2))
           old == objs[arr.ref].elements
           grown == Resized(old, index.num)
           el == grown[index.num + 1]
           els == [grown EXCEPT ![index.num + 1] = Moved(grown[index.num + 1])]
<1>1. Running /\ Has(2)
    BY DEF LdElm, Decodes
<1>2. IInv /\ index \in Element
    BY <1>1, AtWork, PopKeeps
<1>3. CASE ~Finds(2, arr, index)
    BY <1>1, <1>3, DropAccounted DEF LdElm, Drop
<1>4. CASE Finds(2, arr, index)
    <2>1. ValidIndex(index.num)
        BY <1>4 DEF LdElm
    <2> DEFINE a == arr.ref
    <2>2. Goto(next_pc, Append(Rest(2), el), DoPush([objs EXCEPT ![a].elements = els], el))
        BY <1>4 DEF LdElm
    <2>3. a \in DOMAIN objs /\ index.num \in Nat /\ grown \in Seq(Element) /\ index.num + 1 \in 1..Len(grown)
        BY <1>1, <1>2, <1>4, <2>1, FoundArray
    <2>4. el \in Element
        BY <2>3, ElementOfSeq
    <2>5. el.type # "ref"
        <3>1. a \in DOMAIN objects /\ old = objects[a].elements
            <4>1. objects[a] \in Object
                BY <1>1, <2>3, AtWork DEF DoPop
            <4>2. a \in DOMAIN objects /\ objs[a] = [objects[a] EXCEPT !.ref_counter = @ - Occurrences(a, Popped(2))]
                BY <2>3 DEF DoPop
            <4> HIDE DEF objs, a
            <4> QED BY <4>1, <4>2 DEF Object, a
        <3>2. old \in Seq(Element)
            BY <1>1, <3>1, AtWork DEF Object
        <3>3. \A k \in 1..Len(old) : old[k].type # "ref"
            <4>1. DOMAIN old = 1..Len(old)
                BY <3>2, LenProperties
            <4> HIDE DEF old, a
            <4> QED BY <3>1, <4>1 DEF PlainArrays
        <3> DEFINE i == index.num
        <3>4. Len(old) \in Nat /\ i \in Nat
            BY <2>3, <3>2, LenProperties
        <3> HIDE DEF old, i
        <3>5. el = IF i + 1 <= Len(old) THEN old[i + 1] ELSE NoneElement
            BY <3>4 DEF Resized, i
        <3>6. CASE i + 1 <= Len(old)
            <4>1. i + 1 \in 1..Len(old)
                BY <3>4, <3>6
            <4> QED BY <3>3, <3>5, <3>6, <4>1
        <3>7. CASE ~(i + 1 <= Len(old))
            BY <3>5, <3>7, PlainValues
        <3> QED BY <3>6, <3>7
    <2>6. /\ Rest(2) \in Seq(Element) /\ WithinAll(Rest(2), ref_id)
          /\ Books(top.stack, Rest(2), objects, objs)
          /\ \A o \in DOMAIN objs : objs[o] \in Object
        BY <1>1, PopKeeps
    <2> HIDE DEF a, els, objs, el
    <2>7. Books(top.stack, Rest(2), objects, [objs EXCEPT ![a].elements = els])
        BY <2>6, BooksStore
    <2>8. DoPush([objs EXCEPT ![a].elements = els], el) = [objs EXCEPT ![a].elements = els]
          /\ WithinAll(Append(Rest(2), el), ref_id)
          /\ \A o : Occurrences(o, Append(Rest(2), el)) = Occurrences(o, Rest(2))
        BY <2>4, <2>5, <2>6, PushPlain, WithinStack
    <2>9. Books(top.stack, Append(Rest(2), el), objects, [objs EXCEPT ![a].elements = els])
        BY <2>7, <2>8 DEF Books
    <2> QED BY <1>1, <2>2, <2>8, <2>9, GotoAccounted
<1> QED BY <1>3, <1>4

LEMMA LoadAccounted ==
    ASSUME LInv, Sound, Running, NEW locals, instr.op \in {"ldlc", "ldarg"}, IndexOK(instr),
           locals = (IF instr.op = "ldlc" THEN top.slots ELSE top.args), Load(locals)
    PROVE  Accounted
<1> DEFINE el == Local(locals, instr.idx)
           slots == IF instr.op = "ldlc" THEN Unload(top.slots, instr.idx) ELSE top.slots
           args == IF instr.op = "ldarg" THEN Unload(top.args, instr.idx) ELSE top.args
           c == [top EXCEPT !.pc = next_pc, !.stack = Append(top.stack, el),
                            !.slots = slots, !.args = args]
<1>1. /\ IInv /\ ref_id \in Nat /\ top \in Context(prog) /\ top.stack \in Seq(Element)
      /\ WithinAll(top.stack, ref_id) /\ WithinAll(top.slots, ref_id) /\ WithinAll(top.args, ref_id)
      /\ \A o \in DOMAIN objects : objects[o] \in Object
    BY AtWork
<1>2. WithinAll(locals, ref_id) /\ Within(el, ref_id) /\ WithinAll(slots, ref_id) /\ WithinAll(args, ref_id)
    <2>1. WithinAll(locals, ref_id)
        BY <1>1
    <2>2. Within(el, ref_id)
        BY <1>1, <2>1, WithinLocals
    <2>3. WithinAll(slots, ref_id)
        BY <1>1, WithinLocals
    <2>4. WithinAll(args, ref_id)
        BY <1>1, WithinLocals
    <2> QED BY <2>1, <2>2, <2>3, <2>4
<1>3. el \in Element
    <2>1. /\ instr.op = "ldlc" => instr.idx \in 0..(Slots - 1)
          /\ instr.op = "ldarg" => instr.idx \in 0..(Args - 1)
          /\ top.slots \in Locals(Slots) /\ top.args \in Locals(Args)
          /\ Slots \in Nat /\ Args \in Nat
        BY <1>1, IndexInRange, TopContext DEF LocalOps, SlotOps, ArgOps, Slots, Args, Running
    <2>2. CASE instr.op = "ldlc"
        BY <2>1, <2>2, LocalsTypes
    <2>3. CASE instr.op = "ldarg"
        BY <2>1, <2>3, LocalsTypes
    <2> QED BY <2>2, <2>3
<1>4. /\ func_contexts' = [func_contexts EXCEPT ![Depth] = c]
      /\ objects' = DoPush(objects, el) /\ ref_id' = ref_id
    BY <1>1 DEF Load, Continue, Context
<1> HIDE DEF el, slots, args
<1>5. c.stack = Append(top.stack, el) /\ c.slots = slots /\ c.args = args
    BY <1>1 DEF Context
<1>6. WithinAll(Append(top.stack, el), ref_id)
    BY <1>1, <1>2, <1>3, WithinStack
<1>7. Books(top.stack, Append(top.stack, el), objects, DoPush(objects, el))
    BY <1>1, <1>3, BooksSame, BooksPush
<1> HIDE DEF c
<1>8. ContextWithin(c, ref_id)
    BY <1>2, <1>5, <1>6 DEF ContextWithin
<1> QED BY <1>4, <1>5, <1>7, <1>8 DEF Accounted

\* A store leaves on the stack the reference it has moved from.
LEMMA StoreAccounted ==
    ASSUME LInv, Sound, Running, Has(1),
           NEW slots, WithinAll(slots, ref_id), NEW args, WithinAll(args, ref_id),
           Continue([top EXCEPT !.pc = next_pc, !.stack[Len(top.stack)] = Moved(@),
                                !.slots = slots, !.args = args], objects)
    PROVE  Accounted
<1> DEFINE n == Len(top.stack)
           old == top.stack
           el == Moved(old[n])
           stack == [old EXCEPT ![n] = el]
           c == [top EXCEPT !.pc = next_pc, !.stack = stack, !.slots = slots, !.args = args]
<1>1. IInv /\ top \in Context(prog) /\ old \in Seq(Element) /\ n \in Nat /\ WithinAll(old, ref_id)
    BY AtWork
<1>2. n \in 1..n /\ DOMAIN old = 1..n
    <2>1. n >= 1
        BY DEF Has
    <2> QED BY <1>1, <2>1, LenProperties
<1>3. el.type = old[n].type /\ el.ref = old[n].ref
    BY DEF Moved
<1>4. func_contexts' = [func_contexts EXCEPT ![Depth] = c] /\ objects' = objects /\ ref_id' = ref_id
    BY DEF Continue
<1> HIDE DEF el
<1>5. DOMAIN stack = DOMAIN old /\ stack[n] = el /\ \A i \in DOMAIN old : i # n => stack[i] = old[i]
    <2> HIDE DEF old, n
    <2> QED BY <1>2
<1> HIDE DEF stack, old, n
<1>6. \A i \in DOMAIN old : stack[i].type = old[i].type /\ stack[i].ref = old[i].ref
    BY <1>3, <1>5
<1>7. WithinAll(stack, ref_id)
    BY <1>1, <1>5, <1>6 DEF WithinAll, Within
<1>8. \A o : Occurrences(o, old) = Occurrences(o, stack)
    <2> TAKE o
    <2>1. Places(o, old) = Places(o, stack)
        BY <1>5, <1>6 DEF Places, IsRefTo
    <2> QED BY <2>1 DEF Occurrences
<1>9. c.stack = stack /\ c.slots = slots /\ c.args = args
    BY <1>1 DEF Context
<1> HIDE DEF c
<1>10. ContextWithin(c, ref_id)
    BY <1>7, <1>9 DEF ContextWithin
<1>11. Books(top.stack, c.stack, objects, objects)
    BY <1>8, <1>9, BooksSame DEF old
<1> QED BY <1>4, <1>10, <1>11 DEF Accounted

LEMMA StoresAccounted == ASSUME LInv, Sound, StrLc \/ StrArg PROVE Accounted
<1>1. Running /\ Has(1)
    BY DEF StrLc, StrArg, Decodes
<1>2. /\ ref_id \in Nat /\ WithinAll(top.slots, ref_id) /\ WithinAll(top.args, ref_id)
      /\ Within(Peek(0), ref_id) /\ top \in Context(prog)
    BY <1>1, AtWork, PopKeeps
<1>3. CASE StrLc
    <2> DEFINE slots == Assign(top.slots, instr.idx, Peek(0))
    <2>1. WithinAll(slots, ref_id)
        BY <1>2, WithinLocals
    <2>2. Continue([top EXCEPT !.pc = next_pc, !.stack[Len(top.stack)] = Moved(@),
                               !.slots = slots, !.args = top.args], objects)
        BY <1>2, <1>3 DEF StrLc, Context
    <2> HIDE DEF slots
    <2> QED BY <1>1, <1>2, <2>1, <2>2, StoreAccounted
<1>4. CASE StrArg
    <2> DEFINE args == Assign(top.args, instr.idx, Peek(0))
    <2>1. WithinAll(args, ref_id)
        BY <1>2, WithinLocals
    <2>2. Continue([top EXCEPT !.pc = next_pc, !.stack[Len(top.stack)] = Moved(@),
                               !.slots = top.slots, !.args = args], objects)
        BY <1>2, <1>4 DEF StrArg, Context
    <2> HIDE DEF args
    <2> QED BY <1>1, <1>2, <2>1, <2>2, StoreAccounted
<1> QED BY <1>3, <1>4

LEMMA VriAccounted == ASSUME LInv, Sound, Vri PROVE Accounted
<1> DEFINE old == Local(top.args, instr.idx)
           new == IF instr.op = "vri" THEN [old EXCEPT !.type = "num", !.num = 0]
                                      ELSE [old EXCEPT !.type = "str", !.str = Empty]
           args == Assign(top.args, instr.idx, new)
           c == [top EXCEPT !.pc = top.pc + 2, !.args = args]
<1>1. Running /\ instr.op \in {"vri", "vrs"} /\ IndexOK(instr) /\ instr.idx < Args
    BY DEF Vri, Decodes
<1>2. /\ IInv /\ ref_id \in Nat /\ top \in Context(prog) /\ WithinAll(top.stack, ref_id)
      /\ WithinAll(top.slots, ref_id) /\ WithinAll(top.args, ref_id)
    BY <1>1, AtWork
<1>3. Within(new, ref_id)
    <2>1. Args \in Nat /\ instr.idx \in 0..(Args - 1) /\ top.args \in Locals(Args)
        <3>1. Args \in Nat /\ instr.idx \in 0..(Args - 1)
            BY <1>1, <1>2, IndexInRange DEF LocalOps, SlotOps, Args
        <3>2. top.args \in Locals(Args)
            BY <1>1, <1>2, TopContext DEF Running
        <3> QED BY <3>1, <3>2
    <2>2. old \in Element
        BY <2>1, LocalsTypes
    <2> HIDE DEF old
    <2>3. new.type # "ref"
        BY <2>2 DEF Element
    <2> QED BY <2>3 DEF Within
<1>4. func_contexts' = [func_contexts EXCEPT ![Depth] = c] /\ objects' = objects /\ ref_id' = ref_id
    BY <1>2 DEF Vri, Continue, Context
<1> HIDE DEF new
<1>5. WithinAll(args, ref_id)
    BY <1>2, <1>3, WithinLocals
<1> HIDE DEF args
<1>6. c.stack = top.stack /\ c.slots = top.slots /\ c.args = args
    BY <1>2 DEF Context
<1> HIDE DEF c
<1>7. ContextWithin(c, ref_id) /\ Books(top.stack, c.stack, objects, objects)
    BY <1>2, <1>5, <1>6, BooksSame DEF ContextWithin
<1> QED BY <1>4, <1>7 DEF Accounted

\* A call that ends at once leaves stack, and no other trace, in its caller.
LEMMA CallAccounted ==
    ASSUME LInv, Sound, Running, NEW stack, WithinAll(stack, ref_id),
           NEW objs, Books(top.stack, stack, objects, objs),
           func_contexts' = [func_contexts EXCEPT ![Depth] = [Resumed EXCEPT !.stack = stack]],
           objects' = objs, ref_id' = ref_id
    PROVE  Accounted
<1> DEFINE c == [Resumed EXCEPT !.stack = stack]
<1>1. top \in Context(prog) /\ WithinAll(top.slots, ref_id) /\ WithinAll(top.args, ref_id)
    BY AtWork
<1>2. c.stack = stack /\ c.slots = top.slots /\ c.args = top.args
    BY <1>1 DEF Resumed, Context
<1>3. func_contexts' = [func_contexts EXCEPT ![Depth] = c]
    OBVIOUS
<1> HIDE DEF c
<1>4. ContextWithin(c, ref_id)
    BY <1>1, <1>2 DEF ContextWithin
<1> QED BY <1>2, <1>3, <1>4 DEF Accounted

LEMMA StdAccounted ==
    ASSUME LInv, Sound, NEW names, NEW stack, WithinAll(stack, ref_id),
           NEW objs, Books(top.stack, stack, objects, objs), CallStd(names, stack, objs)
    PROVE  Accounted
BY CallAccounted DEF CallStd, Calls, Decodes

LEMMA UnresolvedAccounted == ASSUME LInv, Sound, CallUnresolved PROVE Accounted
<1>1. Running
    BY DEF CallUnresolved, Calls, Decodes
<1>2. top \in Context(prog) /\ WithinAll(top.stack, ref_id)
    BY <1>1, AtWork
<1>3. [Resumed EXCEPT !.stack = top.stack] = Resumed
    BY <1>2 DEF Resumed, Context
<1> QED BY <1>1, <1>2, <1>3, BooksSame, CallAccounted DEF CallUnresolved

LEMMA PrintAccounted == ASSUME LInv, Sound, StdPrint PROVE Accounted
<1>1. Running /\ Has(1)
    BY DEF StdPrint, Decodes
<1>2. PICK n \in PrintPops : CallStd({"print"}, Rest(n), DoPop(objects, Popped(n)))
    BY DEF StdPrint
<1>3. Len(top.stack) \in Nat
    BY <1>1, AtWork
<1>4. n \in Nat /\ Has(n)
    BY <1>1, <1>2, <1>3 DEF PrintPops, Has
<1> QED BY <1>1, <1>2, <1>4, PopKeeps, StdAccounted

\* A result pushed over a popped operand.
LEMMA ResultKeeps ==
    ASSUME LInv, Sound, Running, Has(1), NEW n \in Nums
    PROVE  /\ WithinAll(Append(Rest(1), Num(n)), ref_id)
           /\ Books(top.stack, Append(Rest(1), Num(n)), objects, DoPop(objects, Popped(1)))
<1>1. Num(n) \in Element /\ Num(n).type # "ref"
    BY PlainValues
<1>2. Within(Num(n), ref_id) /\ DoPush(DoPop(objects, Popped(1)), Num(n)) = DoPop(objects, Popped(1))
    BY <1>1, PushPlain
<1> QED BY <1>1, <1>2, ReplaceKeeps

\* Taking off the stack what is no reference tells the counters nothing.
LEMMA PopPlain ==
    ASSUME LInv, Sound, Running, Has(1), el1.type # "ref"
    PROVE  Books(top.stack, Rest(1), objects, objects)
<1> DEFINE s == top.stack
           rest == SubSeq(s, 1, Len(s) - 1)
<1>1. s \in Seq(Element) /\ Len(s) \in Nat /\ Len(s) >= 1
    BY AtWork DEF Has
<1>2. rest \in Seq(Element) /\ Len(rest) = Len(s) - 1 /\ \A i \in 1..(Len(s) - 1) : rest[i] = s[i]
    <2>1. \A i \in 1..(Len(s) - 1) : s[i] \in Element
        BY <1>1, ElementOfSeq
    <2> QED BY <1>1, <2>1, SubSeqProperties
<1>3. DOMAIN rest = 1..(Len(s) - 1) /\ DOMAIN s = 1..Len(s)
    BY <1>1, <1>2, LenProperties
<1>4. s[Len(s)].type # "ref"
    BY <1>1 DEF el1, Peek
<1> HIDE DEF rest
<1>5. \A o : Occurrences(o, s) = Occurrences(o, rest)
    <2> TAKE o
    <2>1. Places(o, s) = Places(o, rest)
        <3>1. \A i : i \in Places(o, s) => i \in Places(o, rest)
            <4> SUFFICES ASSUME NEW i \in Places(o, s) PROVE i \in Places(o, rest)
                OBVIOUS
            <4>1. i \in 1..Len(s) /\ IsRefTo(s[i], o)
                BY <1>3 DEF Places
            <4>2. i # Len(s)
                BY <1>4, <4>1 DEF IsRefTo
            <4>3. i \in 1..(Len(s) - 1)
                BY <1>1, <4>1, <4>2
            <4> QED BY <1>2, <1>3, <4>1, <4>3 DEF Places
        <3>2. \A i : i \in Places(o, rest) => i \in Places(o, s)
            BY <1>1, <1>2, <1>3 DEF Places
        <3> QED BY <3>1, <3>2
    <2> QED BY <2>1 DEF Occurrences
<1> QED BY <1>5, BooksSame DEF Rest, rest

LEMMA SinAccounted == ASSUME LInv, Sound, StdSin PROVE Accounted
<1>1. Running /\ Has(1)
    BY DEF StdSin, Decodes
<1>2. CASE el1.type = "num"
    <2>1. PICK n \in Nums : CallStd({"sin"}, Append(Rest(1), Num(n)), objects)
        BY <1>2 DEF StdSin
    <2>2. Books(top.stack, Rest(1), objects, objects) /\ Rest(1) \in Seq(Element)
        BY <1>1, <1>2, PopPlain, PopKeeps
    <2>3. \A o : Occurrences(o, Append(Rest(1), Num(n))) = Occurrences(o, Rest(1))
        BY <2>2, PlainValues, PushPlain
    <2>4. Books(top.stack, Append(Rest(1), Num(n)), objects, objects)
        BY <2>2, <2>3 DEF Books
    <2>5. WithinAll(Append(Rest(1), Num(n)), ref_id)
        BY <1>1, ResultKeeps
    <2> QED BY <2>1, <2>4, <2>5, StdAccounted
<1>3. CASE el1.type # "num"
    <2>1. CallStd({"sin"}, Rest(1), DoPop(objects, Popped(1)))
        BY <1>3 DEF StdSin
    <2> QED BY <1>1, <2>1, PopKeeps, StdAccounted
<1> QED BY <1>2, <1>3

LEMMA LengthAccounted == ASSUME LInv, Sound, StdLength PROVE Accounted
<1> DEFINE objs == DoPop(objects, Popped(1))
           Gives(n) == CallStd({"length"}, Append(Rest(1), Num(n)), objs)
<1>1. Running /\ Has(1)
    BY DEF StdLength, Decodes
<1>2. IInv /\ el1 \in Element /\ \A o \in DOMAIN objs : objs[o] \in Object
    BY <1>1, AtWork, PopKeeps DEF el1
<1>3. ASSUME NEW n \in Nums, Gives(n) PROVE Accounted
    BY <1>1, <1>3, ResultKeeps, StdAccounted
<1>4. CASE el1.type = "num"
    BY <1>3, <1>4, ValuesAssumption DEF StdLength
<1>5. CASE el1.type = "str"
    BY <1>3, <1>5 DEF StdLength
<1>6. CASE el1.type = "ref"
    <2>1. PICK n \in Fit(Len(objs[el1.ref].elements)) : Gives(n)
        BY <1>6 DEF StdLength
    <2>2. el1.ref \in DOMAIN objs
        BY <1>6 DEF StdLength
    <2>3. objs[el1.ref].elements \in Seq(Element)
        BY <1>2, <2>2 DEF Object
    <2>4. Len(objs[el1.ref].elements) \in Int
        BY <2>3, LenProperties
    <2>5. n \in Nums
        BY <2>1, <2>4, Results
    <2> QED BY <1>3, <2>1, <2>5
<1>7. CASE el1.type = "none"
    <2>1. CallStd({"length"}, Rest(1), objs)
        BY <1>7 DEF StdLength
    <2> QED BY <1>1, <2>1, PopKeeps, StdAccounted
<1>8. el1.type \in Types
    BY <1>2 DEF Element
<1> QED BY <1>4, <1>5, <1>6, <1>7, <1>8 DEF Types

\* All handlers but those that make, pass or return a reference, or leave.
LEMMA HandlersAccounted ==
    ASSUME LInv, Sound, PlainArrays, Handler
    PROVE  Accounted \/ NewArr \/ CallInterpreted \/ Met \/ RetValue \/ Leave
<1>1. CASE LdLc \/ LdArg
    BY <1>1, LoadAccounted DEF LdLc, LdArg, Decodes
<1>2. CASE RejectOperand \/ RetRefused
    <2>1. Running
        BY <1>2 DEF RejectOperand, RetRefused, Decodes
    <2> QED BY <1>2, <2>1, SameAccounted DEF RejectOperand, RetRefused
<1> QED BY <1>1, <1>2, ConstAccounted, StoresAccounted, VriAccounted, AddAccounted, ArithAccounted,
           CompareAccounted, UnaryAccounted, BranchesAccounted, StrElmAccounted, LdElmAccounted,
           UnresolvedAccounted, PrintAccounted, SinAccounted, LengthAccounted DEF Handler

-----------------------------------------------------------------------------
(* Handlers the ledger watches                                               *)

LEMMA ListsNothing ==
    ASSUME LInv, LedgerNext, ~Leaves, \A o : Uncounted(o) = 0
    PROVE  UNCHANGED <<unpushed, unpopped>>
<1>1. unpushed \in [Ids -> Nat] /\ unpopped \in [Ids -> Nat]
    BY DEF LInv
<1>2. unpushed' = [o \in Ids |-> unpushed[o] + 0]
    BY DEF LedgerNext, Returns
<1>3. unpopped' = [o \in Ids |-> unpopped[o] + 0]
    BY DEF LedgerNext
<1>4. unpushed' = [o \in Ids |-> unpushed[o]]
    BY <1>1, <1>2
<1>5. unpopped' = [o \in Ids |-> unpopped[o]]
    BY <1>1, <1>3
<1> QED BY <1>1, <1>4, <1>5

\* Nothing is listed while no arguments are taken and no context is left.
LEMMA QuietLedger ==
    ASSUME LInv, LedgerNext, ~Leaves, ~TakesArgs
    PROVE  UNCHANGED <<unpushed, unpopped>>
<1>1. \A o : Uncounted(o) = 0
    BY DEF Uncounted
<1> QED BY <1>1, ListsNothing

\* A reference nobody holds is on no stack.
LEMMA NothingHeld ==
    ASSUME NEW o, \A i \in 1..Depth : Places(o, func_contexts[i].stack) = {}
    PROVE  OnStacks(o) = 0
<1>1. StackPlaces(o) = {}
    BY DEF StackPlaces
<1> QED BY <1>1, FS_EmptySet DEF OnStacks

\* A reference made now is on no stack yet.
LEMMA NotYetHeld ==
    ASSUME LInv, Sound, NEW o \in Nat, o > ref_id
    PROVE  OnStacks(o) = 0
<1>1. ref_id \in Nat /\ IInv
    BY DEF LInv, IInv
<1>2. \A i \in 1..Depth : Places(o, func_contexts[i].stack) = {}
    <2> TAKE i \in 1..Depth
    <2>1. WithinAll(func_contexts[i].stack, ref_id)
        BY DEF Sound, ContextsWithin, ContextWithin
    <2>2. ASSUME NEW k \in Places(o, func_contexts[i].stack) PROVE FALSE
        <3> DEFINE s == func_contexts[i].stack
        <3>1. k \in DOMAIN s /\ IsRefTo(s[k], o)
            BY <2>2 DEF Places
        <3>2. s[k].type = "ref" /\ s[k].ref = o /\ s[k].ref <= ref_id
            BY <2>1, <3>1 DEF IsRefTo, WithinAll, Within
        <3> QED BY <1>1, <3>2
    <2> QED BY <2>2
<1> QED BY <1>2, NothingHeld

\* What is within a bound is within the next.
LEMMA WithinNext ==
    ASSUME NEW els, \A i \in DOMAIN els : els[i] \in Element, NEW last \in Nat, WithinAll(els, last)
    PROVE  WithinAll(els, last + 1)
<1> SUFFICES ASSUME NEW i \in DOMAIN els, els[i].type = "ref" PROVE els[i].ref <= last + 1
    BY DEF WithinAll, Within
<1>1. els[i].ref \in Nat /\ els[i].ref <= last
    BY DEF Element, WithinAll, Within
<1> QED BY <1>1

LEMMA ContextWithinNext ==
    ASSUME NEW p, NEW c \in Context(p), NEW last \in Nat, ContextWithin(c, last)
    PROVE  ContextWithin(c, last + 1)
<1>1. c.stack \in Seq(Element) /\ c.slots \in Locals(Slots) /\ c.args \in Locals(Args)
    BY DEF Context
<1>2. \A i \in DOMAIN c.stack : c.stack[i] \in Element
    <2>1. DOMAIN c.stack = 1..Len(c.stack)
        BY <1>1, LenProperties
    <2> QED BY <1>1, <2>1, ElementOfSeq
<1>3. \A n, locals : locals \in Locals(n) => \A i \in DOMAIN locals : locals[i] \in Element
    BY DEF Locals
<1>4. /\ WithinAll(c.stack, last + 1)
      /\ WithinAll(c.slots, last + 1)
      /\ WithinAll(c.args, last + 1)
    BY <1>1, <1>2, <1>3, WithinNext DEF ContextWithin
<1> QED BY <1>4 DEF ContextWithin

\* A new array has two references for one: the counter starts at 1.
LEMMA NewArrCounted ==
    ASSUME LInv, IInv', Sound, NewArr, UNCHANGED <<unpushed, unpopped>>
    PROVE  Sound' /\ ref_id' <= MaxRefId
<1> DEFINE new == ref_id + 1
           el == Ref(new)
           c == [top EXCEPT !.pc = next_pc, !.stack = Append(top.stack, el)]
           objs == MakeNewArray(objects, new)
<1>1. Running /\ ref_id < MaxRefId /\ ref_id' = new
      /\ func_contexts' = [func_contexts EXCEPT ![Depth] = c]
      /\ objects' = DoPush(objs, el)
    BY DEF NewArr, Decodes
<1>2. /\ IInv /\ ref_id \in Nat /\ Depth \in Nat \ {0} /\ top \in Context(prog)
      /\ top.stack \in Seq(Element) /\ WithinAll(top.stack, ref_id)
      /\ WithinAll(top.slots, ref_id) /\ WithinAll(top.args, ref_id)
      /\ \A o \in DOMAIN objects : objects[o] \in Object
    BY <1>1, AtWork
<1>3. /\ MaxRefId \in Nat /\ new \in Nat /\ new > ref_id /\ ref_id' <= MaxRefId
      /\ 1..ref_id \subseteq Ids /\ new \in Ids /\ ref_id + 1 = new
    BY <1>1, <1>2, InterpreterAssumption DEF Ids
<1>4. el \in Element /\ el.type = "ref" /\ el.ref = new
    BY <1>3, ElementTypes DEF Ref, NoneElement
<1>5. c.stack = Append(top.stack, el) /\ c.slots = top.slots /\ c.args = top.args
    BY <1>2 DEF Context
<1>6. DOMAIN func_contexts = 1..Depth /\ func_contexts' \in Seq(Context(prog'))
    BY <1>2, LenProperties DEF IInv, Depth
<1> HIDE DEF c, el, new
<1>7. DOMAIN func_contexts' = 1..Depth /\ Len(func_contexts') = Depth
      /\ func_contexts'[Depth] = c
      /\ \A i \in 1..Depth : i # Depth => func_contexts'[i] = func_contexts[i]
    BY <1>1, <1>2, <1>6, LenProperties
<1>8. ContextsWithin'
    <2>1. \A i \in 1..Depth : ContextWithin(func_contexts[i], new)
        <3> TAKE i \in 1..Depth
        <3>1. func_contexts[i] \in Context(prog) /\ ContextWithin(func_contexts[i], ref_id)
            BY <1>2, StacksHold DEF Sound, ContextsWithin, IInv, Depth
        <3> QED BY <1>2, <1>3, <3>1, ContextWithinNext
    <2>2. WithinAll(top.stack, new) /\ WithinAll(top.slots, new) /\ WithinAll(top.args, new)
        BY <1>2, <2>1 DEF ContextWithin, top
    <2>3. Within(el, new)
        BY <1>3, <1>4 DEF Within
    <2>4. ContextWithin(c, new)
        BY <1>2, <1>4, <1>5, <2>2, <2>3, WithinStack DEF ContextWithin
    <2>5. \A i \in 1..Depth : ContextWithin(func_contexts'[i], new)
        BY <1>7, <2>1, <2>4
    <2> QED BY <1>1, <1>7, <2>5 DEF ContextsWithin, Depth
<1>9. \A o : OnStacks(o)' = OnStacks(o) + Counts(el, o) /\ OnStacks(o) \in Nat
    <2> TAKE o
    <2> DEFINE x == Occurrences(o, top.stack)
               y == Occurrences(o, c.stack)
               s == OnStacks(o)
               t == OnStacks(o)'
               d == Counts(el, o)
    <2>1. t + x = s + y
        BY <1>2, <1>7, OneChanged DEF top
    <2>2. y = x + d
        BY <1>2, <1>4, <1>5, OccurrencesAppend
    <2>3. s \in Nat /\ t \in Nat /\ x \in Nat /\ d \in Nat
        BY <1>2, OnStacksType, OccurrencesType DEF Counts
    <2> HIDE DEF x, y, s, t, d
    <2>4. t = s + d
        BY <2>1, <2>2, <2>3
    <2> QED BY <2>3, <2>4 DEF s, t, d
<1>10. \A o \in DOMAIN objects : o \in 1..ref_id /\ o # new /\ o \in Ids
    BY <1>2, <1>3, CountersType
<1>11. /\ DOMAIN objects' = DOMAIN objects \cup {new}
       /\ objects'[new].ref_counter = 2
       /\ \A o \in DOMAIN objects : objects'[o] = objects[o]
    <2>1. /\ DOMAIN objs = DOMAIN objects \cup {new}
          /\ objs[new] = [ref_counter |-> 1, elements |-> << >>]
          /\ \A o \in DOMAIN objects : objs[o] = objects[o]
        BY <1>10 DEF MakeNewArray
    <2> HIDE DEF objs
    <2>2. objects' = [objs EXCEPT ![new].ref_counter = @ + 1]
        BY <1>1, <1>4, <2>1 DEF DoPush
    <2>3. objects'[new].ref_counter = 1 + 1
        BY <2>1, <2>2
    <2> QED BY <1>10, <2>1, <2>2, <2>3
<1>12. unpushed[new] = 0 /\ unpopped[new] = 0 /\ OnStacks(new) = 0
    BY <1>3, NotYetHeld DEF Sound, NothingAhead
<1>13. Counts(el, new) = 1 /\ \A o : o # new => Counts(el, o) = 0
    BY <1>4 DEF Counts, IsRefTo
<1>14. Balance'
    <2> SUFFICES ASSUME NEW o \in DOMAIN objects'
                 PROVE  objects'[o].ref_counter + unpushed[o] = 1 + OnStacks(o)' + unpopped[o]
        BY DEF Balance
    <2>1. CASE o = new
        <3>1. OnStacks(o)' = OnStacks(o) + Counts(el, o) /\ OnStacks(o) = 0 /\ Counts(el, o) = 1
            BY <1>9, <1>12, <1>13, <2>1
        <3>2. objects'[o].ref_counter = 2 /\ unpushed[o] = 0 /\ unpopped[o] = 0
            BY <1>11, <1>12, <2>1
        <3> QED BY <3>1, <3>2
    <2>2. CASE o # new
        <3>1. o \in DOMAIN objects /\ objects'[o] = objects[o]
            BY <1>11, <2>2
        <3>2. OnStacks(o)' = OnStacks(o)
            BY <1>9, <1>13, <2>2
        <3> QED BY <3>1, <3>2 DEF Sound, Balance
    <2> QED BY <2>1, <2>2
<1>15. GoneReturned'
    <2> SUFFICES ASSUME NEW o \in 1..new, o \notin DOMAIN objects' PROVE unpushed[o] > 0
        BY <1>1 DEF GoneReturned
    <2>1. o # new /\ o \notin DOMAIN objects
        BY <1>11
    <2>2. o \in 1..ref_id
        BY <1>2, <1>3, <2>1
    <2> QED BY <2>1, <2>2 DEF Sound, GoneReturned
<1>16. NothingAhead'
    <2> SUFFICES ASSUME NEW o \in Ids, o > new PROVE unpushed[o] = 0 /\ unpopped[o] = 0
        BY <1>1 DEF NothingAhead, Ids
    <2>1. o > ref_id
        BY <1>2, <1>3 DEF Ids
    <2> QED BY <2>1 DEF Sound, NothingAhead
<1> QED BY <1>3, <1>8, <1>14, <1>15, <1>16 DEF Sound


\* A context opened empty changes no count.
LEMMA OpenedCounted ==
    ASSUME LInv, IInv', Sound, Len(func_contexts') = Depth + 1,
           \A i \in 1..Depth : /\ func_contexts'[i].stack = func_contexts[i].stack
                               /\ func_contexts'[i].slots = func_contexts[i].slots
                               /\ func_contexts'[i].args = func_contexts[i].args,
           func_contexts'[Depth + 1].stack = << >>, func_contexts'[Depth + 1].slots = << >>,
           func_contexts'[Depth + 1].args = << >>,
           UNCHANGED <<objects, ref_id, unpushed, unpopped>>
    PROVE  Sound'
<1> DEFINE n == Depth
           after == func_contexts'
<1>1. IInv /\ n \in Nat /\ \A i \in 1..(n + 1) : after[i].stack \in Seq(Element)
    BY StacksHold DEF LInv, IInv, Depth
<1>2. \A o : OnStacks(o)' = OnStacks(o)
    <2> TAKE o
    <2>1. OnStacks(o) = HeldCount(func_contexts, 1..n, o) /\ OnStacks(o)' = HeldCount(after, 1..(n + 1), o)
        BY OnStacksKnown
    <2>2. \A i \in 1..n : after[i].stack = func_contexts[i].stack
        OBVIOUS
    <2>3. Occurrences(o, after[n + 1].stack) = 0
        BY OccurrencesEmpty
    <2>4. HeldCount(after, 1..n, o) = HeldCount(func_contexts, 1..n, o)
        BY <1>1, <2>2, HeldSame
    <2> HIDE DEF n, after
    <2>5. /\ HeldCount(after, 1..n, o) \in Nat
          /\ HeldCount(after, 1..(n + 1), o) = HeldCount(after, 1..n, o) + Occurrences(o, after[n + 1].stack)
        BY <1>1, LastOne
    <2> QED BY <2>1, <2>3, <2>4, <2>5
<1>3. ContextsWithin'
    <2>1. WithinAll(<< >>, ref_id)
        BY EmptySeq, LenProperties DEF WithinAll
    <2>2. \A i \in 1..(n + 1) : ContextWithin(after[i], ref_id)
        <3> TAKE i \in 1..(n + 1)
        <3>1. CASE i = n + 1
            BY <2>1, <3>1 DEF ContextWithin
        <3>2. CASE i # n + 1
            <4>1. i \in 1..n
                BY <1>1, <3>2
            <4> QED BY <4>1 DEF Sound, ContextsWithin, ContextWithin
        <3> QED BY <3>1, <3>2
    <2> QED BY <2>2 DEF ContextsWithin, Depth
<1>4. objects' = objects /\ ref_id' = ref_id /\ unpushed' = unpushed /\ unpopped' = unpopped
    OBVIOUS
<1>5. Balance'
    BY <1>2, <1>4 DEF Sound, Balance
<1>6. GoneReturned' /\ NothingAhead'
    BY <1>4 DEF Sound, GoneReturned, NothingAhead, Ids
<1> QED BY <1>3, <1>5, <1>6 DEF Sound

LEMMA CallOpens ==
    ASSUME IInv, CallInterpreted
    PROVE  /\ Len(func_contexts') = Depth + 1 /\ Depth \in Nat \ {0}
           /\ \A i \in 1..Depth : /\ func_contexts'[i].stack = func_contexts[i].stack
                                  /\ func_contexts'[i].slots = func_contexts[i].slots
                                  /\ func_contexts'[i].args = func_contexts[i].args
           /\ func_contexts'[Depth + 1].stack = << >> /\ func_contexts'[Depth + 1].slots = << >>
           /\ func_contexts'[Depth + 1].args = << >>
<1> DEFINE c == NewContext(CalleeUnit, CalleeFunc)
           given == [func_contexts EXCEPT ![Depth] = Resumed]
<1>1. Running /\ instr.op = "call"
    BY DEF CallInterpreted, Calls, Decodes
<1>2. Depth \in Nat \ {0} /\ top \in Context(prog)
    BY <1>1, TopContext DEF Running
<1>3. func_contexts' = Append(given, c)
    BY DEF CallInterpreted
<1>4. func_contexts \in Seq(Context(prog)) /\ Len(func_contexts) = Depth
    BY <1>1 DEF IInv, Depth
<1>5. Resumed \in Context(prog) /\ c \in Context(prog)
    <2>1. Resumed \in Context(prog)
        BY <1>1, ResumedType, EmptySeq
    <2>2. c \in Context(prog)
        BY <1>1, NewContextType DEF CallInterpreted, Interpreted, IInv
    <2> QED BY <2>1, <2>2
<1>6. given \in Seq(Context(prog)) /\ Len(given) = Depth
      /\ \A i \in 1..Depth : given[i] = IF i = Depth THEN Resumed ELSE func_contexts[i]
    BY <1>2, <1>4, <1>5, ExceptSeq
<1>7. Resumed.stack = top.stack /\ Resumed.slots = top.slots /\ Resumed.args = top.args
    BY <1>2 DEF Resumed, Context
<1>8. c.stack = << >> /\ c.slots = << >> /\ c.args = << >>
    BY DEF NewContext
<1> HIDE DEF c, given
<1>9. /\ Len(func_contexts') = Depth + 1
      /\ \A i \in 1..Depth : func_contexts'[i] = given[i]
      /\ func_contexts'[Depth + 1] = c
    BY <1>3, <1>5, <1>6, AppendProperties
<1>10. \A i \in 1..Depth : /\ func_contexts'[i].stack = func_contexts[i].stack
                           /\ func_contexts'[i].slots = func_contexts[i].slots
                           /\ func_contexts'[i].args = func_contexts[i].args
    <2> TAKE i \in 1..Depth
    <2>1. CASE i = Depth
        BY <1>6, <1>7, <1>9, <2>1 DEF top
    <2>2. CASE i # Depth
        BY <1>6, <1>9, <2>2
    <2> QED BY <2>1, <2>2
<1> QED BY <1>2, <1>8, <1>9, <1>10

LEMMA CallCounted ==
    ASSUME LInv, IInv', Sound, CallInterpreted, UNCHANGED <<unpushed, unpopped>>
    PROVE  Sound'
<1>1. IInv /\ UNCHANGED <<objects, ref_id>>
    BY DEF CallInterpreted, LInv
<1> QED BY <1>1, CallOpens, OpenedCounted

LEMMA HostCallCounted ==
    ASSUME LInv, IInv', Sound, HostCall, UNCHANGED <<unpushed, unpopped>>
    PROVE  Sound'
<1>1. PICK e \in prog.entries : func_contexts' = <<NewContext(e[1], e[2])>>
    BY DEF HostCall
<1>2. Depth = 0 /\ UNCHANGED <<objects, ref_id>>
    BY DEF HostCall
<1> DEFINE c == NewContext(e[1], e[2])
<1>3. c.stack = << >> /\ c.slots = << >> /\ c.args = << >>
    BY DEF NewContext
<1> HIDE DEF c
<1>4. Len(func_contexts') = Depth + 1 /\ func_contexts'[Depth + 1] = c
    BY <1>1, <1>2 DEF c
<1>5. \A i : i \notin 1..Depth
    BY <1>2
<1> QED BY <1>2, <1>3, <1>4, <1>5, OpenedCounted

\* An element within a bound is no reference past it.
LEMMA NoneAhead ==
    ASSUME NEW els, NEW last \in Nat, WithinAll(els, last), NEW o \in Nat, o > last
    PROVE  Occurrences(o, els) = 0
<1>1. Places(o, els) = {}
    <2> SUFFICES ASSUME NEW i \in DOMAIN els, IsRefTo(els[i], o) PROVE FALSE
        BY DEF Places
    <2>1. els[i].ref = o /\ els[i].ref <= last
        BY DEF IsRefTo, WithinAll, Within
    <2> QED BY <2>1
<1> QED BY <1>1, FS_EmptySet DEF Occurrences


\* met takes its arguments off the caller's stack, and the ledger lists them.
LEMMA MetTakesCounted ==
    ASSUME LInv, IInv', Sound, LedgerNext, Met, Depth > 1
    PROVE  Sound'
<1> DEFINE d == Depth - 1
           under == func_contexts[d]
           from == under.stack
<1>1. /\ IInv /\ Running /\ instr.op = "met" /\ Depth \in Nat \ {0} /\ Depth = Len(func_contexts)
      /\ top.stack = << >> /\ top.pc = 0 /\ ref_id \in Nat /\ ref_id <= MaxRefId /\ MaxRefId \in Nat
    BY AtMet, InterpreterAssumption DEF LInv, IInv
<1>2. d \in 1..Depth /\ d # Depth /\ DOMAIN func_contexts = 1..Depth /\ d \in Nat
    BY <1>1, LenProperties DEF IInv
<1>3. PICK n \in 0..Len(from) :
        /\ func_contexts'[Depth].pc # 0
        /\ func_contexts'[Depth].stack = << >>
        /\ func_contexts'[Depth].args = TakenArgs(from, n)
        /\ func_contexts'[Depth].slots = top.slots
        /\ func_contexts'[d].stack = SubSeq(from, 1, Len(from) - n)
        /\ func_contexts'[d].args = under.args
        /\ func_contexts'[d].slots = under.slots
    BY <1>1, MetContexts DEF LInv
<1>4. /\ Len(from) \in Nat /\ DOMAIN func_contexts' = 1..Depth
      /\ \A j \in 1..Depth : j < d => func_contexts'[j] = func_contexts[j]
    BY <1>1, <1>2, MetContexts DEF LInv
<1> DEFINE args == TakenArgs(from, n)
           rest == SubSeq(from, 1, Len(from) - n)
           popped == SubSeq(from, Len(from) - n + 1, Len(from))
<1>5. from \in Seq(Element) /\ n \in Nat /\ n <= Len(from)
    BY <1>1, <1>2, <1>4, StacksHold DEF IInv
<1>6. ContextWithin(under, ref_id) /\ WithinAll(from, ref_id) /\ ContextWithin(top, ref_id)
    BY <1>1, <1>2 DEF Sound, ContextsWithin, ContextWithin, top
<1>7. Len(func_contexts') = Depth /\ Depth' = Depth
    <2>1. func_contexts' \in Seq(Context(prog'))
        BY DEF IInv
    <2>2. Len(func_contexts') = Depth
        BY <1>1, <1>4, <2>1, LenProperties
    <2> QED BY <2>2 DEF Depth
<1>8. WithinAll(rest, ref_id) /\ WithinAll(args, ref_id)
    <2>1. WithinAll(rest, ref_id)
        BY <1>5, <1>6, WithinStack
    <2>2. \A k \in Nat : k < Len(from) => Within(from[Len(from) - k], ref_id)
        BY <1>5, <1>6, WithinStack
    <2>3. CASE n = 0
        <3>1. args = << >>
            BY <2>3 DEF TakenArgs
        <3> HIDE DEF args
        <3>2. WithinAll(<< >>, ref_id)
            BY EmptySeq, LenProperties DEF WithinAll
        <3> QED BY <2>1, <3>1, <3>2
    <2>4. CASE n # 0
        <3>1. DOMAIN args = 0..(n - 1) /\ \A i \in 0..(n - 1) : args[i] = from[Len(from) - i]
            BY <2>4 DEF TakenArgs
        <3>2. \A i \in 0..(n - 1) : i \in Nat /\ i < Len(from)
            BY <1>4, <1>5
        <3> HIDE DEF args
        <3> QED BY <2>1, <2>2, <3>1, <3>2 DEF WithinAll
    <2> QED BY <2>1, <2>3, <2>4 DEF args
<1>9. ContextsWithin'
    <2> SUFFICES ASSUME NEW i \in 1..Depth PROVE ContextWithin(func_contexts'[i], ref_id)
        <3>1. ref_id' = ref_id
            BY DEF Met, Goto, Continue
        <3> QED BY <1>7, <3>1 DEF ContextsWithin, Depth
    <2>1. CASE i = Depth
        <3>1. WithinAll(<< >>, ref_id)
            BY <1>1, <1>6 DEF ContextWithin
        <3> HIDE DEF args
        <3> QED BY <1>3, <1>6, <1>8, <2>1, <3>1 DEF ContextWithin, args
    <2>2. CASE i = d
        <3> HIDE DEF d, under, rest
        <3> QED BY <1>3, <1>6, <1>8, <2>2 DEF ContextWithin, rest
    <2>3. CASE i # Depth /\ i # d
        <3>1. i < d
            BY <1>1, <2>3
        <3>2. func_contexts'[i] = func_contexts[i]
            BY <1>4, <3>1
        <3> QED BY <3>2 DEF Sound, ContextsWithin
    <2> QED BY <2>1, <2>2, <2>3
<1>10. \A i \in 1..Depth : i # d => func_contexts'[i].stack = func_contexts[i].stack
    <2> TAKE i \in 1..Depth
    <2>1. CASE i = Depth
        BY <1>1, <1>3, <2>1 DEF top
    <2>2. CASE i # Depth /\ i # d
        <3>1. i < d
            BY <1>1, <2>2
        <3> QED BY <1>4, <3>1
    <2> QED BY <2>1, <2>2
<1>11. \A o : OnStacks(o) = OnStacks(o)' + Occurrences(o, args) /\ OnStacks(o)' \in Nat
              /\ Occurrences(o, args) \in Nat
    <2> TAKE o
    <2>1. OnStacks(o)' + Occurrences(o, from) = OnStacks(o) + Occurrences(o, func_contexts'[d].stack)
        BY <1>1, <1>2, <1>7, <1>10, OneChanged
    <2>2. Occurrences(o, from) = Occurrences(o, rest) + Occurrences(o, popped)
        BY <1>5, OccurrencesSplit
    <2>3. Occurrences(o, args) = Occurrences(o, popped)
        BY <1>5, OccurrencesTaken
    <2>4. rest \in Seq(Element) /\ popped \in Seq(Element)
        BY <1>5, StackTypes
    <2>5. func_contexts'[d].stack = rest
        BY <1>3
    <2> DEFINE s == OnStacks(o)
               t == OnStacks(o)'
               x == Occurrences(o, from)
               y == Occurrences(o, rest)
               z == Occurrences(o, popped)
    <2>6. s \in Nat /\ t \in Nat /\ y \in Nat /\ z \in Nat
        BY <1>1, <2>4, OnStacksType, OccurrencesType
    <2>7. t + x = s + y /\ x = y + z
        BY <2>1, <2>2, <2>5
    <2> HIDE DEF s, t, x, y, z
    <2>8. s = t + z
        BY <2>6, <2>7
    <2> QED BY <2>3, <2>6, <2>8 DEF s, t, z
<1>12. /\ TakesArgs /\ ~Leaves
       /\ \A o : Uncounted(o) = Occurrences(o, args)
    <2>1. func_contexts'[Depth].pc # func_contexts[Depth].pc
        BY <1>1, <1>3 DEF top
    <2>2. TakesArgs
        BY <1>1, <2>1 DEF TakesArgs, Decodes
    <2>3. ~Leaves
        BY <1>1, <1>7 DEF Leaves
    <2> QED BY <1>3, <2>2, <2>3 DEF Uncounted
<1> HIDE DEF args
<1>13. /\ unpushed \in [Ids -> Nat] /\ unpopped \in [Ids -> Nat]
       /\ unpushed' = unpushed
       /\ unpopped' = [o \in Ids |-> unpopped[o] + Occurrences(o, args)]
    <2>1. unpushed \in [Ids -> Nat] /\ unpopped \in [Ids -> Nat]
        BY DEF LInv
    <2>2. unpushed' = [o \in Ids |-> unpushed[o] + 0]
        BY <1>12 DEF LedgerNext, Returns
    <2>3. unpushed' = unpushed
        BY <2>1, <2>2
    <2>4. unpopped' = [o \in Ids |-> unpopped[o] + Occurrences(o, args)]
        BY <1>12 DEF LedgerNext
    <2> QED BY <2>1, <2>3, <2>4
<1>14. objects' = objects /\ ref_id' = ref_id
    BY DEF Met, Goto, Continue
<1>15. \A o \in DOMAIN objects' :
            objects'[o].ref_counter + unpushed'[o] + OnStacks(o) + unpopped[o]
                = objects[o].ref_counter + unpushed[o] + OnStacks(o)' + unpopped'[o]
    <2> TAKE o \in DOMAIN objects'
    <2>1. objects[o].ref_counter \in Nat /\ o \in 1..ref_id
        BY <1>1, <1>14, CountersType
    <2>2. o \in Ids
        BY <1>1, <2>1 DEF Ids
    <2> DEFINE s == OnStacks(o)
               t == OnStacks(o)'
               a == objects[o].ref_counter
               z == Occurrences(o, args)
    <2>3. s = t + z /\ t \in Nat /\ z \in Nat
        BY <1>11
    <2>4. unpopped'[o] = unpopped[o] + z /\ unpopped[o] \in Nat /\ unpushed[o] \in Nat
        BY <1>13, <2>2
    <2> HIDE DEF s, t, a, z
    <2>5. a + unpushed[o] + s + unpopped[o] = a + unpushed[o] + t + unpopped'[o]
        BY <2>1, <2>3, <2>4 DEF a
    <2> QED BY <1>13, <1>14, <2>5 DEF s, t, a
<1>16. unpushed' \in [Ids -> Nat] /\ unpopped' \in [Ids -> Nat]
    BY <1>11, <1>13
<1>17. \A o \in Ids : /\ unpushed'[o] >= unpushed[o]
                      /\ o > ref_id => unpushed'[o] = unpushed[o] /\ unpopped'[o] = unpopped[o]
    <2> TAKE o \in Ids
    <2>1. unpushed[o] \in Nat /\ unpopped[o] \in Nat /\ o \in Nat
        BY <1>1, <1>13 DEF Ids
    <2>2. o > ref_id => Occurrences(o, args) = 0
        BY <1>1, <1>8, <2>1, NoneAhead
    <2> QED BY <1>13, <2>1, <2>2
<1> QED BY <1>9, <1>14, <1>15, <1>16, <1>17, Carried

LEMMA SumsAgree ==
    ASSUME NEW a \in Nat, NEW b \in Nat, NEW s \in Nat, NEW t \in Nat, NEW h \in Nat, NEW x \in Nat,
           NEW p \in Nat, NEW p2 \in Nat, NEW q \in Nat, NEW q2 \in Nat,
           s = h + x, t + p = h + p2, b + q + x = a + q2
    PROVE  b + p2 + s + q = a + p + t + q2
OBVIOUS

\* What is left when a context is left: the others, as they were, but for the
\* value the one under it may receive.
LEMMA LeftCounted ==
    ASSUME LInv, IInv', Sound, Running, NEW n \in Nat, Depth = n + 1, Len(func_contexts') = n,
           \A i \in 1..n : ContextWithin(func_contexts'[i], ref_id),
           ref_id' = ref_id, DOMAIN objects' \subseteq DOMAIN objects,
           unpushed' \in [Ids -> Nat], unpopped' \in [Ids -> Nat],
           \A o \in Ids : /\ unpushed'[o] >= unpushed[o]
                          /\ o > ref_id => unpushed'[o] = unpushed[o] /\ unpopped'[o] = unpopped[o],
           \A o \in DOMAIN objects' :
                /\ HeldCount(func_contexts', 1..n, o) + unpushed[o]
                        = HeldCount(func_contexts, 1..n, o) + unpushed'[o]
                /\ objects'[o].ref_counter + unpopped[o] + Occurrences(o, top.stack)
                        = objects[o].ref_counter + unpopped'[o],
           \A o \in DOMAIN objects \ DOMAIN objects' :
                objects[o].ref_counter <= Occurrences(o, top.stack)
    PROVE  Sound'
<1>1. IInv /\ ref_id \in Nat /\ ref_id <= MaxRefId /\ MaxRefId \in Nat /\ 1..ref_id \subseteq Ids
    BY InterpreterAssumption DEF LInv, IInv, Ids
<1>2. ContextsWithin'
    BY DEF ContextsWithin, Depth
<1>3. \A o : /\ OnStacks(o) = HeldCount(func_contexts, 1..n, o) + Occurrences(o, top.stack)
             /\ HeldCount(func_contexts, 1..n, o) \in Nat /\ Occurrences(o, top.stack) \in Nat
             /\ OnStacks(o)' = HeldCount(func_contexts', 1..n, o) /\ OnStacks(o)' \in Nat
    BY <1>1, OneGone, OnStacksKnown, OnStacksType
<1>4. \A o \in DOMAIN objects' :
            objects'[o].ref_counter + unpushed'[o] + OnStacks(o) + unpopped[o]
                = objects[o].ref_counter + unpushed[o] + OnStacks(o)' + unpopped'[o]
    <2> TAKE o \in DOMAIN objects'
    <2>1. o \in DOMAIN objects /\ o \in Ids
        BY <1>1, CountersType
    <2> DEFINE a == objects[o].ref_counter
               b == objects'[o].ref_counter
               s == OnStacks(o)
               t == OnStacks(o)'
               h == HeldCount(func_contexts, 1..n, o)
               x == Occurrences(o, top.stack)
               p == unpushed[o]
               p2 == unpushed'[o]
               q == unpopped[o]
               q2 == unpopped'[o]
    <2>2. a \in Nat /\ b \in Nat
        BY <1>1, <2>1, CountersType
    <2>3. p \in Nat /\ p2 \in Nat /\ q \in Nat /\ q2 \in Nat
        BY <2>1 DEF LInv
    <2>4. s = h + x /\ h \in Nat /\ x \in Nat /\ t \in Nat
        BY <1>3
    <2>5. t + p = h + p2 /\ b + q + x = a + q2
        BY <1>3
    <2> HIDE DEF a, b, s, t, h, x, p, p2, q, q2
    <2>6. b + p2 + s + q = a + p + t + q2
        BY <2>2, <2>3, <2>4, <2>5, SumsAgree
    <2> QED BY <2>6 DEF a, b, s, t, p, p2, q, q2
<1>5. \A o \in DOMAIN objects \ DOMAIN objects' : objects[o].ref_counter <= OnStacks(o)
    <2> TAKE o \in DOMAIN objects \ DOMAIN objects'
    <2>1. objects[o].ref_counter \in Nat /\ objects[o].ref_counter <= Occurrences(o, top.stack)
        BY <1>1, CountersType
    <2> QED BY <1>3, <2>1
<1> QED BY <1>2, <1>4, <1>5, Carried


\* Among the same n contexts, the last stack grows by el.
Filled(before, after, n, el) ==
    /\ \A i \in 1..n : before[i].stack \in Seq(Element) /\ after[i].stack \in Seq(Element)
    /\ \A i \in 1..n : i # n => after[i].stack = before[i].stack
    /\ after[n].stack = Append(before[n].stack, el)

LEMMA OneFilled ==
    ASSUME NEW before, NEW after, NEW n \in Nat \ {0}, NEW el \in Element, NEW o,
           Filled(before, after, n, el)
    PROVE  HeldCount(after, 1..n, o) = HeldCount(before, 1..n, o) + Counts(el, o)
<1> DEFINE others == HeldCount(before, (1..n) \ {n}, o)
           s == Occurrences(o, before[n].stack)
           t == Occurrences(o, after[n].stack)
<1>0. /\ n \in 1..n /\ n \in Nat
      /\ \A i \in 1..n : before[i].stack \in Seq(Element)
      /\ \A i \in 1..n : after[i].stack \in Seq(Element)
    BY DEF Filled
<1>1. others \in Nat /\ s \in Nat /\ HeldCount(before, 1..n, o) = others + s
    BY <1>0, HeldSplit
<1>2. t \in Nat /\ HeldCount(after, 1..n, o) = HeldCount(after, (1..n) \ {n}, o) + t
    BY <1>0, HeldSplit
<1>3. HeldCount(after, (1..n) \ {n}, o) = others
    <2>1. \A i \in (1..n) \ {n} : after[i].stack = before[i].stack
        BY DEF Filled
    <2> QED BY <2>1, HeldSame
<1>4. t = s + Counts(el, o) /\ Counts(el, o) \in Nat
    BY <1>0, OccurrencesAppend DEF Counts, Filled
<1> HIDE DEF others, s, t
<1> QED BY <1>1, <1>2, <1>3, <1>4

\* ret pops the value it passes on, and the ledger lists it.
LEMMA RetCounted ==
    ASSUME LInv, IInv', Sound, LedgerNext, RetValue
    PROVE  Sound'
<1>1. Running /\ instr.op = "ret" /\ Depth > 1 /\ Len(top.stack) = 1 /\ IInv
    BY DEF RetValue, Decodes, LInv
<1>2. /\ Depth \in Nat \ {0} /\ Depth = Len(func_contexts) /\ Has(1) /\ top.stack \in Seq(Element)
      /\ ref_id \in Nat /\ ref_id <= MaxRefId /\ MaxRefId \in Nat
      /\ \A o \in DOMAIN objects : objects[o] \in Object
    BY <1>1, AtWork, InterpreterAssumption DEF Depth, Has, LInv
<1>3. PICK n \in Nat \ {0} : n \in 1..n /\ Depth = n + 1 /\ n \in 1..Depth /\ n = Depth - 1
    <2>1. Depth - 1 \in Nat \ {0}
        BY <1>1, <1>2
    <2> QED BY <1>2, <2>1
<1> DEFINE under == func_contexts[n]
           rest == SubSeq(func_contexts, 1, n)
           given == Append(under.stack, el1)
           below == [under EXCEPT !.stack = given]
<1>4. \A j \in 1..n : func_contexts[j] \in Context(prog) /\ ContextWithin(func_contexts[j], ref_id)
    <2>1. \A j \in 1..n : j \in 1..Depth
        BY <1>3
    <2> QED BY <1>1, <1>2, <2>1, ElementOfSeq DEF IInv, Sound, ContextsWithin
<1>5. /\ rest \in Seq(Context(prog)) /\ Len(rest) = n /\ DOMAIN rest = 1..n
      /\ \A j \in 1..n : rest[j] = func_contexts[j]
    <2>1. /\ rest \in Seq(Context(prog)) /\ Len(rest) = n
          /\ \A j \in 1..n : rest[j] = func_contexts[j]
        BY <1>2, <1>3, <1>4, SubSeqProperties
    <2> QED BY <2>1, LenProperties
<1>6. el1 \in Element /\ Within(el1, ref_id)
    BY <1>1, <1>2, PopKeeps DEF el1
<1>7. under \in Context(prog) /\ ContextWithin(under, ref_id)
    BY <1>3, <1>4
<1>8. below.stack = given /\ below.slots = under.slots /\ below.args = under.args
    <2> HIDE DEF under, given
    <2> QED BY <1>7 DEF Context
<1>9. func_contexts' = [rest EXCEPT ![n] = below]
    <2>1. rest[n] = under
        BY <1>3, <1>5
    <2>2. func_contexts' = [rest EXCEPT ![n].stack = Append(@, el1)]
        BY <1>3 DEF RetValue
    <2> HIDE DEF rest, under
    <2> QED BY <2>1, <2>2
<1> HIDE DEF rest, below
<1>10. DOMAIN func_contexts' = 1..n /\ func_contexts'[n] = below
       /\ \A j \in 1..n : j # n => func_contexts'[j] = func_contexts[j]
    <2> QED BY <1>3, <1>5, <1>9
<1>11. Len(func_contexts') = n
    <2>1. func_contexts' \in Seq(Context(prog'))
        BY DEF IInv
    <2> QED BY <1>3, <1>10, <2>1, LenProperties
<1>12. \A i \in 1..n : ContextWithin(func_contexts'[i], ref_id)
    <2>1. ContextWithin(below, ref_id)
        <3>1. under.stack \in Seq(Element)
            BY <1>7 DEF Context
        <3>2. WithinAll(given, ref_id)
            BY <1>6, <1>7, <3>1, WithinStack DEF ContextWithin
        <3> HIDE DEF given, under
        <3> QED BY <1>7, <1>8, <3>2 DEF ContextWithin
    <2> QED BY <1>4, <1>10, <2>1
<1>13. \A o : HeldCount(func_contexts', 1..n, o) = HeldCount(func_contexts, 1..n, o) + Counts(el1, o)
              /\ HeldCount(func_contexts, 1..n, o) \in Nat
    <2> TAKE o
    <2>1. \A i \in 1..n : func_contexts[i].stack \in Seq(Element)
        BY <1>4 DEF Context
    <2>2. \A i \in 1..n : func_contexts'[i].stack \in Seq(Element)
        BY <1>11, StacksHold DEF IInv
    <2>3. func_contexts'[n].stack = Append(func_contexts[n].stack, el1)
        BY <1>8, <1>10
    <2>4. HeldCount(func_contexts, 1..n, o) \in Nat
        BY <1>1, <1>3, OneGone
    <2>5. \A i \in 1..n : i # n => func_contexts'[i].stack = func_contexts[i].stack
        BY <1>10
    <2>6. Filled(func_contexts, func_contexts', n, el1)
        BY <2>1, <2>2, <2>3, <2>5 DEF Filled
    <2>7. HeldCount(func_contexts', 1..n, o) = HeldCount(func_contexts, 1..n, o) + Counts(el1, o)
        BY <1>6, <2>6, OneFilled
    <2> QED BY <2>4, <2>7
<1>14. Books(top.stack, Rest(1), objects, objects')
    BY <1>1, <1>2, PopKeeps DEF RetValue
<1>15. \A o : /\ Occurrences(o, top.stack) = Counts(el1, o)
              /\ Occurrences(o, Rest(1)) = 0 /\ Counts(el1, o) \in Nat
    <2> TAKE o
    <2>1. Rest(1) \in Seq(Element) /\ Len(Rest(1)) = 0
        <3>1. \A i \in 1..0 : top.stack[i] \in Element
            OBVIOUS
        <3>2. Rest(1) = SubSeq(top.stack, 1, 0)
            BY <1>1 DEF Rest
        <3> QED BY <1>2, <3>1, <3>2, SubSeqProperties
    <2>2. Occurrences(o, Rest(1)) = 0
        BY <2>1, EmptySeq, OccurrencesEmpty
    <2>3. DOMAIN top.stack = 1..1 /\ el1 = top.stack[1]
        BY <1>1, <1>2, LenProperties DEF el1, Peek
    <2>4. CASE IsRefTo(el1, o)
        <3>1. Places(o, top.stack) = {1}
            BY <2>3, <2>4 DEF Places
        <3> QED BY <2>2, <2>4, <3>1, FS_Singleton DEF Occurrences, Counts
    <2>5. CASE ~IsRefTo(el1, o)
        <3>1. Places(o, top.stack) = {}
            BY <2>3, <2>5 DEF Places
        <3> QED BY <2>2, <2>5, <3>1, FS_EmptySet DEF Occurrences, Counts
    <2> QED BY <2>4, <2>5
<1>16. Returns /\ Leaves /\ ~TakesArgs
    <2>1. Leaves
        BY <1>2, <1>3, <1>11 DEF Leaves
    <2>2. ~TakesArgs
        BY <1>1 DEF TakesArgs, Decodes
    <2> QED BY <1>1, <1>2, <2>1, <2>2 DEF Returns
<1>17. /\ unpushed \in [Ids -> Nat] /\ unpopped \in [Ids -> Nat]
       /\ unpushed' = [o \in Ids |-> unpushed[o] + Counts(el1, o)]
       /\ unpopped' = unpopped
    <2>1. unpushed \in [Ids -> Nat] /\ unpopped \in [Ids -> Nat]
        BY DEF LInv
    <2>2. unpushed' = [o \in Ids |-> unpushed[o] + Counts(el1, o)]
        BY <1>16 DEF LedgerNext, Counts
    <2>3. \A o : Uncounted(o) = 0
        BY <1>16 DEF Uncounted
    <2>4. unpopped' = [o \in Ids |-> unpopped[o] + 0]
        BY <2>3 DEF LedgerNext
    <2>5. unpopped' = unpopped
        BY <2>1, <2>4
    <2> QED BY <2>1, <2>2, <2>5
<1>18. unpushed' \in [Ids -> Nat] /\ unpopped' \in [Ids -> Nat]
    BY <1>15, <1>17
<1>19. \A o \in Ids : /\ unpushed'[o] >= unpushed[o]
                      /\ o > ref_id => unpushed'[o] = unpushed[o] /\ unpopped'[o] = unpopped[o]
    <2> TAKE o \in Ids
    <2>1. unpushed[o] \in Nat /\ Counts(el1, o) \in Nat /\ o \in Nat
        BY <1>2, <1>15, <1>17 DEF Ids
    <2>2. o > ref_id => Counts(el1, o) = 0
        BY <1>2, <1>6, <2>1 DEF Counts, IsRefTo, Within
    <2> QED BY <1>17, <2>1, <2>2
<1>20. ref_id' = ref_id /\ DOMAIN objects' \subseteq DOMAIN objects
    BY <1>14 DEF RetValue, Books
<1>21. \A o \in DOMAIN objects' :
        /\ HeldCount(func_contexts', 1..n, o) + unpushed[o]
                = HeldCount(func_contexts, 1..n, o) + unpushed'[o]
        /\ objects'[o].ref_counter + unpopped[o] + Occurrences(o, top.stack)
                = objects[o].ref_counter + unpopped'[o]
    <2> TAKE o \in DOMAIN objects'
    <2>1. o \in DOMAIN objects /\ o \in Ids
        <3>1. o \in DOMAIN objects
            BY <1>20
        <3>2. o \in 1..ref_id
            BY <1>1, <3>1, CountersType
        <3> QED BY <1>2, <3>1, <3>2 DEF Ids
    <2> DEFINE a == objects[o].ref_counter
               b == objects'[o].ref_counter
               h == HeldCount(func_contexts, 1..n, o)
               h2 == HeldCount(func_contexts', 1..n, o)
               x == Occurrences(o, top.stack)
               y == Counts(el1, o)
    <2>2. a \in Nat /\ b \in Nat /\ b + x = a + 0
        BY <1>1, <1>14, <1>15, <2>1, CountersType DEF Books
    <2>3. h \in Nat /\ h2 = h + y /\ y \in Nat /\ x = y
        BY <1>13, <1>15
    <2>4. unpushed[o] \in Nat /\ unpopped[o] \in Nat /\ unpushed'[o] = unpushed[o] + y /\ unpopped'[o] = unpopped[o]
        BY <1>17, <2>1
    <2> HIDE DEF a, b, h, h2, x, y
    <2>5. h2 + unpushed[o] = h + unpushed'[o] /\ b + unpopped[o] + x = a + unpopped'[o]
        BY <2>2, <2>3, <2>4
    <2> QED BY <2>5 DEF a, b, h, h2, x
<1>22. \A o \in DOMAIN objects \ DOMAIN objects' : objects[o].ref_counter <= Occurrences(o, top.stack)
    BY <1>14 DEF Books
<1> QED BY <1>1, <1>3, <1>11, <1>12, <1>18, <1>19, <1>20, <1>21, <1>22, LeftCounted

\* A context that is left without a value takes its references with it, and
\* the ledger lists them.
LEMMA LeaveCounted ==
    ASSUME LInv, IInv', Sound, LedgerNext, Leave
    PROVE  Sound'
<1> DEFINE n == Depth - 1
<1>1. Running /\ instr.op \in {"ret", "endmet"} /\ (instr.op = "ret" => ~Has(1)) /\ IInv
    BY DEF Leave, Decodes, LInv
<1>2. /\ Depth \in Nat \ {0} /\ top.stack \in Seq(Element)
      /\ ref_id \in Nat /\ ref_id <= MaxRefId /\ MaxRefId \in Nat
      /\ WithinAll(top.stack, ref_id)
    BY <1>1, AtWork, InterpreterAssumption DEF LInv
<1>3. n \in Nat /\ Depth = n + 1
    BY <1>2
<1>4. Len(func_contexts') = n /\ \A i \in 1..n : func_contexts'[i] = func_contexts[i]
    BY <1>1, Uncovered DEF Leave
<1>5. \A i \in 1..n : ContextWithin(func_contexts'[i], ref_id)
    <2>1. \A i \in 1..n : i \in 1..Depth
        BY <1>3
    <2> QED BY <1>4, <2>1 DEF Sound, ContextsWithin
<1>6. \A o : HeldCount(func_contexts', 1..n, o) = HeldCount(func_contexts, 1..n, o)
             /\ HeldCount(func_contexts, 1..n, o) \in Nat
    <2> TAKE o
    <2>1. HeldCount(func_contexts, 1..n, o) \in Nat
        BY <1>1, <1>3, OneGone
    <2>2. \A i \in 1..n : func_contexts'[i].stack = func_contexts[i].stack
        BY <1>4
    <2> HIDE DEF n
    <2> QED BY <1>3, <2>1, <2>2, HeldSame
<1>7. Leaves /\ ~Returns /\ ~TakesArgs
    BY <1>1, <1>2, <1>4 DEF Returns, Leaves, TakesArgs, Decodes
<1>8. \A o : Uncounted(o) = Occurrences(o, top.stack) /\ Occurrences(o, top.stack) \in Nat
    BY <1>2, <1>7, OccurrencesType DEF Uncounted
<1>9. /\ unpushed \in [Ids -> Nat] /\ unpopped \in [Ids -> Nat]
      /\ unpopped' = [o \in Ids |-> unpopped[o] + Occurrences(o, top.stack)]
      /\ unpushed' = unpushed
    <2>1. unpushed \in [Ids -> Nat] /\ unpopped \in [Ids -> Nat]
        BY DEF LInv
    <2>2. unpopped' = [o \in Ids |-> unpopped[o] + Occurrences(o, top.stack)]
        BY <1>8 DEF LedgerNext
    <2>3. unpushed' = [o \in Ids |-> unpushed[o] + 0]
        BY <1>7 DEF LedgerNext
    <2>4. unpushed' = unpushed
        BY <2>1, <2>3
    <2> QED BY <2>1, <2>2, <2>4
<1>10. unpushed' \in [Ids -> Nat] /\ unpopped' \in [Ids -> Nat]
    BY <1>8, <1>9
<1>11. \A o \in Ids : /\ unpushed'[o] >= unpushed[o]
                      /\ o > ref_id => unpushed'[o] = unpushed[o] /\ unpopped'[o] = unpopped[o]
    <2> TAKE o \in Ids
    <2>1. unpushed[o] \in Nat /\ unpopped[o] \in Nat /\ o \in Nat
        BY <1>2, <1>9 DEF Ids
    <2>2. o > ref_id => Occurrences(o, top.stack) = 0
        BY <1>2, <2>1, NoneAhead
    <2> QED BY <1>9, <2>1, <2>2
<1>12. ref_id' = ref_id /\ objects' = objects
    BY DEF Leave
<1>13. \A o \in DOMAIN objects' :
        /\ HeldCount(func_contexts', 1..n, o) + unpushed[o]
                = HeldCount(func_contexts, 1..n, o) + unpushed'[o]
        /\ objects'[o].ref_counter + unpopped[o] + Occurrences(o, top.stack)
                = objects[o].ref_counter + unpopped'[o]
    <2> TAKE o \in DOMAIN objects'
    <2>1. o \in Ids /\ objects[o].ref_counter \in Nat
        <3>1. o \in 1..ref_id /\ objects[o].ref_counter \in Nat
            BY <1>1, <1>12, CountersType
        <3> QED BY <1>2, <3>1 DEF Ids
    <2> DEFINE a == objects[o].ref_counter
               x == Occurrences(o, top.stack)
    <2>2. unpopped[o] \in Nat /\ unpopped'[o] = unpopped[o] + x /\ x \in Nat
        BY <1>8, <1>9, <2>1
    <2> HIDE DEF a, x
    <2>3. a + unpopped[o] + x = a + unpopped'[o]
        BY <2>1, <2>2 DEF a
    <2> QED BY <1>6, <1>9, <1>12, <2>3 DEF a, x
<1>14. DOMAIN objects' \subseteq DOMAIN objects /\ DOMAIN objects \ DOMAIN objects' = {}
    BY <1>12
<1> HIDE DEF n
<1> QED BY <1>1, <1>3, <1>4, <1>5, <1>10, <1>11, <1>12, <1>13, <1>14, LeftCounted


\* The function the host calls has no caller to take arguments from.
LEMMA MetAlone ==
    ASSUME IInv, FreshEmpty, Met, Depth = 1
    PROVE  Goto(next_pc, top.stack, objects)
<1>1. Len(top.stack) = 0 /\ instr.argc \in Nat
    BY AtMet
<1> SUFFICES ASSUME ~(instr.argc = 0 \/ last_context = 0) PROVE FALSE
    BY DEF Met
<1>2. last_context \in 1..Depth /\ instr.argc <= Len(Caller.stack)
    BY DEF Met
<1>3. Caller = top
    BY <1>2 DEF Caller, top
<1> QED BY <1>1, <1>2, <1>3

LEMMA MetAloneCounted ==
    ASSUME LInv, IInv', Sound, LedgerNext, Met, Depth = 1
    PROVE  Sound'
<1> DEFINE c == [top EXCEPT !.pc = next_pc, !.stack = top.stack]
<1>1. /\ IInv /\ Running /\ instr.op = "met" /\ Depth \in Nat \ {0} /\ Depth = Len(func_contexts)
      /\ top \in Context(prog) /\ top.args = << >>
    BY AtMet DEF LInv
<1>2. Goto(next_pc, top.stack, objects)
    BY <1>1, MetAlone DEF LInv
<1>3. Accounted
    BY <1>1, <1>2, SameAccounted
<1>4. func_contexts' = [func_contexts EXCEPT ![Depth] = c] /\ c.args = << >>
    BY <1>1, <1>2 DEF Goto, Continue, Context
<1> HIDE DEF c
<1>5. DOMAIN func_contexts = 1..Depth /\ Depth \in 1..Depth
    BY <1>1, LenProperties DEF IInv
<1>6. func_contexts'[Depth].args = << >> /\ DOMAIN func_contexts' = 1..Depth
    BY <1>4, <1>5
<1>7. ~Leaves
    <2>1. func_contexts' \in Seq(Context(prog'))
        BY DEF IInv
    <2>2. Len(func_contexts') = Depth
        BY <1>1, <1>6, <2>1, LenProperties
    <2>3. Depth - 1 # Depth
        BY <1>1
    <2> QED BY <2>2, <2>3 DEF Leaves
<1>8. \A o : Uncounted(o) = 0
    BY <1>6, <1>7, OccurrencesEmpty DEF Uncounted
<1>9. UNCHANGED <<unpushed, unpopped>>
    BY <1>7, <1>8, ListsNothing
<1> QED BY <1>1, <1>3, <1>9, AccountedStep

\* Only met takes arguments.
LEMMA MetTakes ==
    ASSUME IInv, Next, TakesArgs
    PROVE  Met
<1>1. Running /\ instr.op = "met" /\ func_contexts' # func_contexts /\ Depth # 0
    BY DEF TakesArgs, Decodes, Running
<1>2. Handler
    <2>1. ~HostCall
        BY <1>1 DEF HostCall
    <2>2. ~Failure
        BY <1>1, FailureStutters
    <2> QED BY <1>1, <2>1, <2>2 DEF Next, do_opcode, vars
<1>3. ~CallInterpreted /\ ~RetValue /\ ~Leave /\ ~Computes
    BY <1>1 DEF CallInterpreted, Calls, RetValue, Leave, Decodes, Computes
<1> QED BY <1>2, <1>3, HandlersCompute

LEMMA UncountedType ==
    ASSUME LInv, IInv', Next, NEW o
    PROVE  Uncounted(o) \in Nat
<1>1. CASE TakesArgs
    <2>1. Met /\ IInv /\ FreshEmpty
        BY <1>1, MetTakes DEF LInv
    <2>2. Depth \in Nat \ {0} /\ Depth = Len(func_contexts) /\ DOMAIN func_contexts = 1..Depth
        BY <2>1, AtMet, LenProperties DEF IInv
    <2>3. DOMAIN func_contexts' = 1..Depth
        <3>1. CASE Depth = 1
            BY <2>1, <2>2, <3>1, MetAlone DEF Goto, Continue
        <3>2. CASE Depth > 1
            BY <2>1, <2>2, <3>2, MetContexts
        <3> QED BY <2>2, <3>1, <3>2
    <2>4. func_contexts'[Depth].args \in Locals(Args)
        <3>1. func_contexts' \in Seq(Context(prog'))
            BY DEF IInv
        <3>2. Len(func_contexts') = Depth
            BY <2>2, <2>3, <3>1, LenProperties
        <3>3. func_contexts'[Depth] \in Context(prog')
            BY <2>2, <3>1, <3>2, ElementOfSeq
        <3> QED BY <3>3 DEF Context
    <2> DEFINE args == func_contexts'[Depth].args
    <2>5. IsFiniteSet(0..(Args - 1)) /\ DOMAIN args \subseteq 0..(Args - 1)
        <3>1. 0 \in Int /\ Args - 1 \in Int
            BY DEF Args
        <3>2. IsFiniteSet(0..(Args - 1))
            BY <3>1, FS_Interval
        <3> QED BY <2>4, <3>2 DEF Locals
    <2> HIDE DEF args
    <2>6. IsFiniteSet(Places(o, args))
        BY <2>5, FS_Subset DEF Places
    <2>7. Occurrences(o, args) \in Nat
        BY <2>6, FS_CardinalityType DEF Occurrences
    <2>8. ~Leaves
        <3>1. func_contexts' \in Seq(Context(prog'))
            BY DEF IInv
        <3>2. Len(func_contexts') = Depth
            BY <2>2, <2>3, <3>1, LenProperties
        <3> QED BY <2>2, <3>2 DEF Leaves
    <2> QED BY <1>1, <2>7, <2>8 DEF Uncounted, args
<1>2. CASE ~TakesArgs /\ Leaves /\ ~Returns
    <2>1. top.stack \in Seq(Element)
        BY <1>2, TopContext DEF Leaves, LInv
    <2> QED BY <1>2, <2>1, OccurrencesType DEF Uncounted
<1>3. CASE ~TakesArgs /\ ~(Leaves /\ ~Returns)
    BY <1>3 DEF Uncounted
<1> QED BY <1>1, <1>2, <1>3

-----------------------------------------------------------------------------
(* What a step may do to the objects                                         *)

LEMMA ObjectsKept ==
    \A objs : /\ \A els : DOMAIN DoPop(objs, els) \subseteq DOMAIN objs
              /\ \A el : DOMAIN DoPush(objs, el) = DOMAIN objs
              /\ \A els, el : DOMAIN DoPush(DoPop(objs, els), el) \subseteq DOMAIN objs
<1>1. \A objs, els : DOMAIN DoPop(objs, els) \subseteq DOMAIN objs
    BY DEF DoPop
<1>2. \A objs, el : DOMAIN DoPush(objs, el) = DOMAIN objs
    BY DEF DoPush
<1> QED BY <1>1, <1>2

\* No handler but newarr makes an object.
LEMMA NothingMade ==
    ASSUME IInv, Handler
    PROVE  NewArr \/ (ref_id' = ref_id /\ DOMAIN objects' \subseteq DOMAIN objects)
<1>1. CASE LdCst \/ StrLc \/ StrArg \/ Vri \/ RejectOperand \/ Br \/ RetRefused \/ Met \/ Leave
           \/ CallUnresolved \/ CallInterpreted
    BY <1>1 DEF LdCst, StrLc, StrArg, Vri, RejectOperand, Br, RetRefused, Met, Leave,
                CallUnresolved, CallInterpreted, Goto, Continue
<1>2. CASE LdLc \/ LdArg
    BY <1>2, ObjectsKept DEF LdLc, LdArg, Load, Continue
<1>3. CASE Add \/ Arith \/ Compare \/ Unary
    <2>1. \A n, el : Replace(n, el) => ref_id' = ref_id /\ DOMAIN objects' \subseteq DOMAIN objects
        BY ObjectsKept DEF Replace, Goto, Continue
    <2>2. \A n : Drop(n) => ref_id' = ref_id /\ DOMAIN objects' \subseteq DOMAIN objects
        BY ObjectsKept DEF Drop, Goto, Continue
    <2> QED BY <1>3, <2>1, <2>2 DEF Add, Arith, Compare, Unary
<1>4. CASE BrTest \/ BrBool
    BY <1>4, ObjectsKept DEF BrTest, BrBool, BranchIf, Goto, Continue
<1>5. CASE StrElm
    <2>1. CASE Drop(3)
        BY <2>1, ObjectsKept DEF Drop, Goto, Continue
    <2>2. CASE ~Drop(3)
        <3> DEFINE objs == DoPop(objects, Popped(3))
        <3>1. \E a, els : objects' = [objs EXCEPT ![a].elements = els] /\ ref_id' = ref_id
            BY <1>5, <2>2 DEF StrElm, Goto, Continue
        <3>2. DOMAIN objs \subseteq DOMAIN objects
            BY ObjectsKept
        <3> HIDE DEF objs
        <3> QED BY <3>1, <3>2
    <2> QED BY <2>1, <2>2
<1>6. CASE LdElm
    <2>1. CASE Drop(2)
        BY <2>1, ObjectsKept DEF Drop, Goto, Continue
    <2>2. CASE ~Drop(2)
        <3> DEFINE objs == DoPop(objects, Popped(2))
        <3>1. \E a, els, el : objects' = DoPush([objs EXCEPT ![a].elements = els], el) /\ ref_id' = ref_id
            BY <1>6, <2>2 DEF LdElm, Goto, Continue
        <3>2. DOMAIN objs \subseteq DOMAIN objects
            BY ObjectsKept
        <3> HIDE DEF objs
        <3>3. \A a, els, el : DOMAIN DoPush([objs EXCEPT ![a].elements = els], el) = DOMAIN objs
            BY ObjectsKept
        <3> QED BY <3>1, <3>2, <3>3
    <2> QED BY <2>1, <2>2
<1>7. CASE StdPrint \/ StdSin \/ StdLength
    <2>1. \A names, stack, objs :
            CallStd(names, stack, objs) => ref_id' = ref_id /\ objects' = objs
        BY DEF CallStd
    <2>2. StdPrint => ref_id' = ref_id /\ DOMAIN objects' \subseteq DOMAIN objects
        BY <2>1, ObjectsKept DEF StdPrint
    <2>3. StdSin => ref_id' = ref_id /\ DOMAIN objects' \subseteq DOMAIN objects
        BY <2>1, ObjectsKept DEF StdSin
    <2>4. StdLength => ref_id' = ref_id /\ objects' = DoPop(objects, Popped(1))
        <3> SUFFICES ASSUME StdLength PROVE ref_id' = ref_id /\ objects' = DoPop(objects, Popped(1))
            OBVIOUS
        <3>1. el1.type \in {"num", "str", "ref", "none"}
            <4>1. Running /\ Has(1)
                BY DEF StdLength, Decodes
            <4>2. el1 \in Element
                BY <4>1, Operands DEF el1
            <4> QED BY <4>2 DEF Element, Types
        <3>2. CASE el1.type = "num"
            BY <2>1, <3>2 DEF StdLength
        <3>3. CASE el1.type = "str"
            BY <2>1, <3>3 DEF StdLength
        <3>4. CASE el1.type = "ref"
            BY <2>1, <3>4 DEF StdLength
        <3>5. CASE el1.type = "none"
            BY <2>1, <3>5 DEF StdLength
        <3> QED BY <3>1, <3>2, <3>3, <3>4, <3>5
    <2> QED BY <1>7, <2>2, <2>3, <2>4, ObjectsKept
<1>8. CASE RetValue
    BY <1>8, ObjectsKept DEF RetValue
<1> QED BY <1>1, <1>2, <1>3, <1>4, <1>5, <1>6, <1>7, <1>8 DEF Handler

\* What a step of the interpreter may do to the objects and their ids.
LEMMA ObjectsStep ==
    ASSUME IInv, [Next]_vars
    PROVE  \/ ref_id' = ref_id /\ DOMAIN objects' \subseteq DOMAIN objects
           \/ /\ ref_id' = ref_id + 1 /\ ref_id < MaxRefId
              /\ DOMAIN objects' = DOMAIN objects \cup {ref_id + 1}
<1>1. CASE NewArr
    <2>1. ref_id' = ref_id + 1 /\ ref_id < MaxRefId
          /\ objects' = DoPush(MakeNewArray(objects, ref_id + 1), Ref(ref_id + 1))
        BY <1>1 DEF NewArr
    <2>2. DOMAIN MakeNewArray(objects, ref_id + 1) = DOMAIN objects \cup {ref_id + 1}
        BY DEF MakeNewArray
    <2> QED BY <2>1, <2>2, ObjectsKept
<1>2. CASE Handler /\ ~NewArr
    BY <1>2, NothingMade
<1>3. CASE HostCall \/ Failure \/ UNCHANGED vars
    BY <1>3 DEF HostCall, Failure, Underflow, Misdecode, NoHandler, DanglingCaller, BadIndex,
                NullObject, ModByZero, BadAlloc, Fault, vars
<1> QED BY <1>1, <1>2, <1>3 DEF Next, do_opcode


-----------------------------------------------------------------------------
(* The invariant is inductive                                                *)

LEMMA SoundStutters ==
    ASSUME Sound, UNCHANGED <<func_contexts, objects, ref_id, unpushed, unpopped>>
    PROVE  Sound'
<1>1. ContextsWithin' /\ GoneReturned' /\ NothingAhead'
    BY DEF Sound, ContextsWithin, GoneReturned, NothingAhead, Depth, Ids
<1>2. \A o : OnStacks(o)' = OnStacks(o)
    BY DEF OnStacks, StackPlaces, Depth
<1>3. Balance'
    BY <1>2 DEF Sound, Balance
<1> QED BY <1>1, <1>3 DEF Sound

\* Handlers that leave the number of contexts alone and are no met.
LEMMA ComputesCounted ==
    ASSUME LInv, IInv', Sound, PlainArrays, LedgerNext, Handler, Computes
    PROVE  Sound'
<1>1. IInv /\ Running /\ instr.op # "met"
    BY DEF LInv, Computes
<1>2. ~Leaves /\ ~TakesArgs /\ Depth > 0
    BY <1>1, ComputesKnown DEF Leaves, TakesArgs, Decodes, Running
<1>3. UNCHANGED <<unpushed, unpopped>>
    BY <1>2, QuietLedger
<1>4. ~Met
    BY <1>1 DEF Met, Decodes
<1>5. ~CallInterpreted
    <2>1. Len(func_contexts') = Depth /\ Depth \in Nat
        BY <1>1, ComputesKnown
    <2> QED BY <1>1, <2>1, CallOpens
<1>6. CASE NewArr
    BY <1>3, <1>6, NewArrCounted
<1>7. CASE RetValue
    BY <1>7, RetCounted
<1>8. CASE Leave
    BY <1>8, LeaveCounted
<1>9. CASE Accounted
    BY <1>2, <1>3, <1>9, AccountedStep
<1> QED BY <1>4, <1>5, <1>6, <1>7, <1>8, <1>9, HandlersAccounted

\* As long as no array has held a reference, every step keeps the books.
LEMMA SoundStep ==
    ASSUME LInv, IInv', Sound, PlainArrays, LedgerNext
    PROVE  Sound'
<1>1. IInv
    BY DEF LInv
<1>2. CASE HostCall
    <2>1. Depth = 0
        BY <1>2 DEF HostCall
    <2>2. UNCHANGED <<unpushed, unpopped>>
        BY <2>1, QuietLedger DEF Leaves, TakesArgs, Decodes, Running
    <2> QED BY <1>2, <2>2, HostCallCounted
<1>3. CASE Handler
    <2>1. CASE Computes
        BY <1>3, <2>1, ComputesCounted
    <2>2. CASE CallInterpreted
        <3>1. Running /\ instr.op = "call" /\ Depth \in Nat
            BY <1>1, <2>2, TopContext DEF CallInterpreted, Calls, Decodes, Running
        <3>2. ~TakesArgs
            BY <3>1 DEF TakesArgs, Decodes
        <3>3. ~Leaves
            BY <2>2, <3>1, CallOpens, <1>1 DEF Leaves
        <3>4. UNCHANGED <<unpushed, unpopped>>
            BY <3>2, <3>3, QuietLedger
        <3> QED BY <2>2, <3>4, CallCounted
    <2>3. CASE Met
        <3>1. Depth \in Nat \ {0}
            BY <1>1, <2>3, AtMet DEF LInv
        <3>2. CASE Depth = 1
            BY <2>3, <3>2, MetAloneCounted
        <3>3. CASE Depth > 1
            BY <2>3, <3>3, MetTakesCounted
        <3> QED BY <3>1, <3>2, <3>3
    <2> QED BY <1>1, <1>3, <2>1, <2>2, <2>3, HandlersCompute, RetCounted, LeaveCounted
<1>4. CASE Failure \/ UNCHANGED vars
    <2>1. UNCHANGED <<func_contexts, objects, ref_id>>
        BY <1>4 DEF Failure, Underflow, Misdecode, NoHandler, DanglingCaller, BadIndex,
                    NullObject, ModByZero, BadAlloc, Fault, vars
    <2>2. ~Leaves /\ ~TakesArgs
        <3>1. Len(func_contexts) \in Nat
            BY <1>1, LenProperties DEF IInv
        <3> QED BY <2>1, <3>1 DEF Leaves, TakesArgs, Depth
    <2>3. UNCHANGED <<unpushed, unpopped>>
        BY <2>2, QuietLedger
    <2> QED BY <2>1, <2>3, SoundStutters
<1> QED BY <1>2, <1>3, <1>4 DEF LedgerNext, Next, do_opcode

LEMMA InitLInv == LedgerInit => LInv
<1> SUFFICES ASSUME LedgerInit PROVE LInv
    OBVIOUS
<1>1. Init /\ IInv /\ FreshEmpty
    BY InitIInv, InitFresh DEF LedgerInit
<1>2. ref_id = 0 /\ objects = << >> /\ func_contexts = << >> /\ Depth = 0 /\ DOMAIN objects = {}
    BY <1>1, EmptySeq, LenProperties DEF Init, Depth
<1>3. unpushed \in [Ids -> Nat] /\ unpopped \in [Ids -> Nat]
    BY DEF LedgerInit
<1>4. ref_id <= MaxRefId
    BY <1>2, InterpreterAssumption
<1>5. ContextsWithin /\ Balance /\ GoneReturned
    BY <1>2 DEF ContextsWithin, Balance, GoneReturned
<1>6. NothingAhead
    BY DEF LedgerInit, NothingAhead
<1> QED BY <1>1, <1>3, <1>4, <1>5, <1>6 DEF LInv, Sound

LEMMA NextLInv == LInv /\ [LedgerNext]_ledger_vars => LInv'
<1> SUFFICES ASSUME LInv, [LedgerNext]_ledger_vars PROVE LInv'
    OBVIOUS
<1>1. IInv /\ FreshEmpty /\ [Next]_vars
    BY DEF LInv, LedgerNext, ledger_vars
<1>2. IInv'
    BY <1>1, NextIInv
<1>3. FreshEmpty'
    BY <1>1, <1>2, StepImplements
<1>4. ref_id' <= MaxRefId
    <2>1. ref_id \in Nat /\ ref_id <= MaxRefId /\ MaxRefId \in Nat
        BY InterpreterAssumption DEF LInv, IInv
    <2> QED BY <1>1, <2>1, ObjectsStep
<1>5. CASE LedgerNext
    <2>1. unpushed' \in [Ids -> Nat] /\ unpopped' \in [Ids -> Nat]
        <3>1. \A o \in Ids : unpushed[o] \in Nat /\ unpopped[o] \in Nat /\ Uncounted(o) \in Nat
            BY <1>2, <1>5, UncountedType DEF LInv, LedgerNext
        <3>2. \A o \in Ids : /\ unpushed[o] + (IF Returns /\ IsRefTo(el1, o) THEN 1 ELSE 0) \in Nat
                             /\ unpopped[o] + Uncounted(o) \in Nat
            BY <3>1
        <3>3. /\ unpushed' = [o \in Ids |-> unpushed[o] + (IF Returns /\ IsRefTo(el1, o) THEN 1 ELSE 0)]
              /\ unpopped' = [o \in Ids |-> unpopped[o] + Uncounted(o)]
            BY <1>5 DEF LedgerNext
        <3> QED BY <3>2, <3>3
    <2>2. ASSUME ~forged' PROVE Sound'
        <3>1. ~forged /\ PlainArrays
            BY <1>5, <2>2 DEF LedgerNext, PlainArrays
        <3>2. Sound
            BY <3>1 DEF LInv
        <3> QED BY <1>2, <1>5, <3>1, <3>2, SoundStep
    <2> QED BY <1>2, <1>3, <1>4, <2>1, <2>2 DEF LInv, Ids
<1>6. CASE UNCHANGED ledger_vars
    <2>1. UNCHANGED <<func_contexts, objects, ref_id, unpushed, unpopped, forged>>
        BY <1>6 DEF ledger_vars, vars
    <2>2. unpushed' \in [Ids -> Nat] /\ unpopped' \in [Ids -> Nat]
        BY <2>1 DEF LInv
    <2>3. ~forged' => Sound'
        BY <2>1, SoundStutters DEF LInv
    <2> QED BY <1>2, <1>3, <1>4, <2>2, <2>3 DEF LInv, Ids
<1> QED BY <1>5, <1>6

LEMMA LedgerInvariance == LedgerSpec => []LInv
<1> QED BY InitLInv, NextLInv, PTL DEF LedgerSpec

-----------------------------------------------------------------------------
(* The theorems                                                              *)

\* Whatever the program, do_push and do_pop keep every live object's counter
\* one above the references to it on the evaluation stacks, but for those that
\* met takes, ret returns and endmet drops without telling the reference
\* manager (ir_interpreter.cpp): no other handler, its error paths included,
\* lets counters and stacks drift apart.
THEOREM CountersKept == LedgerSpec => []CountersBalance
<1>1. LInv => CountersBalance
    BY DEF LInv, Sound, Balance, CountersBalance
<1> QED BY <1>1, LedgerInvariance, PTL

\* Whatever the program, do_pop erases an array only once some function has
\* returned a reference to it: ret pops the value it passes on, and only that
\* brings a counter down to the references that are left.
THEOREM GoneKnown == LedgerSpec => []GoneOnlyIfReturned
<1>1. LInv => GoneOnlyIfReturned
    BY DEF LInv, Sound, GoneReturned, GoneOnlyIfReturned
<1> QED BY <1>1, LedgerInvariance, PTL

\* Whatever the program, make_new_array hands out every id once: an array that
\* was erased never comes back under a reference that has outlived it.
THEOREM IdsUsedOnce == LedgerSpec => NeverReborn
<1>1. LInv /\ [LedgerNext]_ledger_vars =>
        [\A o \in 1..ref_id : o \in DOMAIN objects' => o \in DOMAIN objects]_ledger_vars
    <2> SUFFICES ASSUME LInv, LedgerNext, NEW o \in 1..ref_id, o \in DOMAIN objects'
                 PROVE  o \in DOMAIN objects
        OBVIOUS
    <2>1. IInv /\ ref_id \in Nat /\ [Next]_vars
        BY DEF LInv, IInv, LedgerNext
    <2>2. o # ref_id + 1
        BY <2>1
    <2> QED BY <2>1, <2>2, ObjectsStep
<1> QED BY <1>1, LedgerInvariance, PTL DEF LedgerSpec, NeverReborn

=============================================================================
