--------------------------- MODULE Scoping_proofs ---------------------------
(* Theorems about Scoping, for all names, numbers of arguments and bounds.   *)
EXTENDS Scoping, SequenceTheorems, WellFoundedInduction, TLAPS

VarName == Names \X Nat
ScopeSet == [nt : {"function", "block"}, place : Nat]
VarSet == [name : VarName, scope : ScopeSet]
FunctionSet == [name : Functions, argc : Arities, type : {"external", "full_link"}]
CallSet == [name : Functions, argc : Arities, node : Nat \ {0}]

LocalsSet == UNION {[S -> Seq(VarName)] : S \in SUBSET ScopeSet}
ParserSet == [at : Nat, vars : Seq(VarSet), locals : LocalsSet, functions : Seq(FunctionSet)]

\* What each part of the state is.
Types ==
    /\ parser \in ParserSet
    /\ parents \in Seq(ScopeSet)
    /\ header \in BOOLEAN
    /\ calls \subseteq CallSet

\* Scopes and variables are read one behind the other, so that no two are the
\* same, and none is the next that is read.
InOrder ==
    /\ \A k \in DOMAIN parents : parents[k].place <= parser.at
    /\ \A j, k \in DOMAIN parents : j < k => parents[j].place < parents[k].place
    /\ \A i \in DOMAIN parser.vars :
            parser.vars[i].name[2] <= parser.at /\ parser.vars[i].scope.place <= parser.at
    /\ \A i, j \in DOMAIN parser.vars : i < j => parser.vars[i].name[2] < parser.vars[j].name[2]
    /\ \A func \in DOMAIN parser.locals :
            /\ func.place <= parser.at
            /\ \A var \in ToSet(parser.locals[func]) : var[2] <= parser.at

\* A function around the parser has local variables, and a header is of one.
FunctionsKnown ==
    /\ \A k \in DOMAIN parents : parents[k].nt = "function" => parents[k] \in DOMAIN parser.locals
    /\ header => parents # << >> /\ parents[Len(parents)].nt = "function"

\* A variable of a scope around the parser is a local variable of one function,
\* which is that scope or around it.
HeldByOne ==
    \A i \in DOMAIN parser.vars, k \in DOMAIN parents :
        parser.vars[i].scope = parents[k] =>
            \E j \in 1..k : parents[j].nt = "function" /\ Holders(parser.vars[i].name) = {parents[j]}

IInv == Types /\ InOrder /\ FunctionsKnown /\ HeldByOne /\ CallsAgree

-----------------------------------------------------------------------------
(* The first and the last place of a sequence that satisfies a test          *)

LEMMA MinIsLeast ==
    ASSUME NEW S \in SUBSET Nat, S # {}
    PROVE  Min(S) \in S /\ \A k \in S : Min(S) <= k
<1>1. PICK m \in S : \A k \in S : ~(<<k, m>> \in OpToRel(<, Nat))
    BY NatLessThanWellFounded, WFMin
<1>2. \A k \in S : m <= k
    <2> SUFFICES ASSUME NEW k \in S, k < m PROVE FALSE
        OBVIOUS
    <2>1. <<k, m>> \in OpToRel(<, Nat)
        BY DEF OpToRel
    <2> QED BY <1>1, <2>1
<1>3. \E x \in S : \A y \in S : x =< y
    BY <1>2
<1> QED BY <1>3 DEF Min

LEMMA MaxIsGreatest ==
    ASSUME NEW n \in Nat, NEW S \in SUBSET (1..n), S # {}
    PROVE  Max(S) \in S /\ \A k \in S : k <= Max(S)
<1> DEFINE T == {n - k : k \in S}
<1>1. T \in SUBSET Nat /\ T # {}
    <2>1. \A k \in S : k \in Int /\ 1 <= k /\ k <= n
        OBVIOUS
    <2>2. \A k \in S : n - k \in Nat
        BY <2>1
    <2> QED BY <2>2
<1>2. Min(T) \in T /\ \A k \in T : Min(T) <= k
    BY <1>1, MinIsLeast
<1>3. PICK m \in S : Min(T) = n - m
    BY <1>2
<1>4. \A k \in S : k <= m
    <2> TAKE k \in S
    <2>1. Min(T) <= n - k
        BY <1>2
    <2> QED BY <1>3, <2>1
<1>5. \E x \in S : \A y \in S : x >= y
    BY <1>4
<1>6. Max(S) \in S /\ \A y \in S : Max(S) >= y
    BY <1>5 DEF Max
<1>7. \A k \in S : k \in Int
    OBVIOUS
<1> QED BY <1>6, <1>7

\* A variable matches a scope and a name.
Matches(v, scope, name) == v.scope = scope /\ v.name[1] = name

\* InScope is the first variable of the name in the scope.
LEMMA InScopeIsFirst ==
    ASSUME NEW p, p.vars \in Seq(VarSet), NEW scope, NEW name
    PROVE  /\ InScope(p, scope, name) \in 0..Len(p.vars)
           /\ \A i \in 1..Len(p.vars) :
                Matches(p.vars[i], scope, name) =>
                    InScope(p, scope, name) > 0 /\ InScope(p, scope, name) <= i
           /\ InScope(p, scope, name) > 0 =>
                Matches(p.vars[InScope(p, scope, name)], scope, name)
<1> DEFINE I == {i \in 1..Len(p.vars) : Matches(p.vars[i], scope, name)}
<1>1. InScope(p, scope, name) = IF I # {} THEN Min(I) ELSE 0
    BY DEF InScope, SelectInSeq, Matches
<1>2. Len(p.vars) \in Nat
    BY LenProperties
<1>3. I \in SUBSET Nat
    BY <1>2
<1>4. CASE I = {}
    BY <1>1, <1>2, <1>4
<1>5. CASE I # {}
    <2>1. Min(I) \in I /\ \A k \in I : Min(I) <= k
        BY <1>3, <1>5, MinIsLeast
    <2>2. InScope(p, scope, name) = Min(I)
        BY <1>1, <1>5
    <2> HIDE DEF I
    <2>3. InScope(p, scope, name) \in I /\ \A k \in I : InScope(p, scope, name) <= k
        BY <2>1, <2>2
    <2> QED BY <1>2, <2>3 DEF I
<1> QED BY <1>4, <1>5

\* FindFunction is the first function of the name and number of arguments.
LEMMA FindFunctionIsFirst ==
    ASSUME NEW p, p.functions \in Seq(FunctionSet), NEW name, NEW argc
    PROVE  /\ FindFunction(p, name, argc) \in 0..Len(p.functions)
           /\ \A i \in 1..Len(p.functions) :
                p.functions[i].name = name /\ p.functions[i].argc = argc =>
                    FindFunction(p, name, argc) > 0 /\ FindFunction(p, name, argc) <= i
           /\ FindFunction(p, name, argc) > 0 =>
                /\ p.functions[FindFunction(p, name, argc)].name = name
                /\ p.functions[FindFunction(p, name, argc)].argc = argc
<1> DEFINE I == {i \in 1..Len(p.functions) : p.functions[i].name = name /\ p.functions[i].argc = argc}
<1>1. FindFunction(p, name, argc) = IF I # {} THEN Min(I) ELSE 0
    BY DEF FindFunction, SelectInSeq
<1>2. Len(p.functions) \in Nat
    BY LenProperties
<1>3. I \in SUBSET Nat
    BY <1>2
<1>4. CASE I = {}
    BY <1>1, <1>2, <1>4
<1>5. CASE I # {}
    <2>1. Min(I) \in I /\ \A k \in I : Min(I) <= k
        BY <1>3, <1>5, MinIsLeast
    <2>2. FindFunction(p, name, argc) = Min(I)
        BY <1>1, <1>5
    <2> HIDE DEF I
    <2>3. FindFunction(p, name, argc) \in I /\ \A k \in I : FindFunction(p, name, argc) <= k
        BY <2>1, <2>2
    <2> QED BY <1>2, <2>3 DEF I
<1> QED BY <1>4, <1>5

\* The place of the nearest function, as declare looks for it.
LastFunction(parent) == SelectLastInSeq(parent, LAMBDA scope : scope.nt = "function")

LEMMA LastFunctionIsNearest ==
    ASSUME NEW parent \in Seq(ScopeSet), \E k \in 1..Len(parent) : parent[k].nt = "function"
    PROVE  LastFunction(parent) \in 1..Len(parent) /\ parent[LastFunction(parent)].nt = "function"
<1> DEFINE I == {k \in 1..Len(parent) : parent[k].nt = "function"}
<1>1. LastFunction(parent) = IF I # {} THEN Max(I) ELSE 0
    BY DEF LastFunction, SelectLastInSeq
<1>2. I # {} /\ I \in SUBSET (1..Len(parent)) /\ Len(parent) \in Nat
    BY LenProperties
<1>3. Max(I) \in I
    BY <1>2, MaxIsGreatest
<1> QED BY <1>1, <1>2, <1>3

-----------------------------------------------------------------------------
(* What a name means: get_var, walking up                                    *)

Known(p, scope, name) == InScope(p, scope, name) > 0

\* What get_var finds in that scope.
FoundIn(p, scope, name) == p.vars[InScope(p, scope, name)].name

VarNode(name) == [nt |-> "var", name |-> name]

LastKnown(p, parent, name) == SelectLastInSeq(parent, LAMBDA scope : InScope(p, scope, name) > 0)

LEMMA LastKnownIsNearest ==
    ASSUME NEW parent \in Seq(ScopeSet), NEW p, NEW name
    PROVE  /\ LastKnown(p, parent, name) \in 0..Len(parent)
           /\ \A k \in 1..Len(parent) : Known(p, parent[k], name) => k <= LastKnown(p, parent, name)
           /\ LastKnown(p, parent, name) > 0 => Known(p, parent[LastKnown(p, parent, name)], name)
<1> DEFINE I == {k \in 1..Len(parent) : Known(p, parent[k], name)}
<1>1. LastKnown(p, parent, name) = IF I # {} THEN Max(I) ELSE 0
    BY DEF LastKnown, SelectLastInSeq, Known
<1>2. I \in SUBSET (1..Len(parent)) /\ Len(parent) \in Nat
    BY LenProperties
<1>3. CASE I = {}
    BY <1>1, <1>2, <1>3
<1>4. CASE I # {}
    <2>1. Max(I) \in I /\ \A k \in I : k <= Max(I)
        BY <1>2, <1>4, MaxIsGreatest
    <2>2. LastKnown(p, parent, name) = Max(I)
        BY <1>1, <1>4
    <2> HIDE DEF I
    <2>3. LastKnown(p, parent, name) \in I /\ \A k \in I : k <= LastKnown(p, parent, name)
        BY <2>1, <2>2
    <2> QED BY <1>2, <2>3 DEF I
<1> QED BY <1>3, <1>4

\* As Meaning, of any state of the parser.
MeaningIn(p, parent, name) ==
    IF LastKnown(p, parent, name) = 0 THEN << >> ELSE FoundIn(p, parent[LastKnown(p, parent, name)], name)

LEMMA NodesDiffer == \A name : VarNode(name) # nullptr
<1> SUFFICES ASSUME NEW name PROVE VarNode(name) # nullptr
    OBVIOUS
<1>1. VarNode(name).nt = "var" /\ nullptr.nt = "nullptr"
    BY DEF VarNode, nullptr
<1> QED BY <1>1

LEMMA GetVarIs ==
    ASSUME NEW p, NEW parent, NEW name
    PROVE  MeaningIn(p, parent, name) =
             LET var == get_var(p, parent, name) IN IF var = nullptr THEN << >> ELSE var.name
<1>1. get_var(p, parent, name) =
        IF LastKnown(p, parent, name) = 0 THEN nullptr
        ELSE VarNode(FoundIn(p, parent[LastKnown(p, parent, name)], name))
    BY DEF get_var, LastKnown, VarNode, FoundIn
<1>2. \A n : VarNode(n).name = n
    BY DEF VarNode
<1> QED BY <1>1, <1>2, NodesDiffer DEF MeaningIn

LEMMA MeaningIs ==
    ASSUME NEW parent, NEW name
    PROVE  Meaning(parent, name) = MeaningIn(parser, parent, name)
BY GetVarIs DEF Meaning

\* The step of the walk: what the innermost scope has, or else what is around.
LEMMA MeaningOfAppend ==
    ASSUME NEW p, NEW parent \in Seq(ScopeSet), NEW scope \in ScopeSet, NEW name
    PROVE  MeaningIn(p, Append(parent, scope), name) =
             IF Known(p, scope, name) THEN FoundIn(p, scope, name) ELSE MeaningIn(p, parent, name)
<1> DEFINE all == Append(parent, scope)
           n == Len(parent)
<1>1. /\ all \in Seq(ScopeSet) /\ Len(all) = n + 1 /\ n \in Nat
      /\ \A k \in 1..n : all[k] = parent[k]
      /\ all[n + 1] = scope
    BY AppendProperties, LenProperties
<1> HIDE DEF all
<1> DEFINE L == LastKnown(p, all, name)
           M == LastKnown(p, parent, name)
<1>2. /\ L \in 0..(n + 1)
      /\ \A k \in 1..(n + 1) : Known(p, all[k], name) => k <= L
      /\ L > 0 => Known(p, all[L], name)
    BY <1>1, LastKnownIsNearest
<1>3. /\ M \in 0..n
      /\ \A k \in 1..n : Known(p, parent[k], name) => k <= M
      /\ M > 0 => Known(p, parent[M], name)
    BY LastKnownIsNearest
<1> HIDE DEF n, L, M
<1>4. CASE Known(p, scope, name)
    <2>1. n + 1 \in 1..(n + 1) /\ Known(p, all[n + 1], name)
        BY <1>1, <1>4
    <2>2. n + 1 <= L
        BY <1>2, <2>1
    <2>3. L = n + 1 /\ L # 0
        BY <1>1, <1>2, <2>2
    <2> QED BY <1>1, <1>4, <2>3 DEF MeaningIn, L, all
<1>5. CASE ~Known(p, scope, name)
    <2>1. L # n + 1
        BY <1>1, <1>2, <1>5
    <2>2. L \in 0..n
        BY <1>1, <1>2, <2>1
    <2>3. L <= M
        BY <1>1, <1>2, <1>3, <2>2
    <2>4. M <= L
        BY <1>1, <1>2, <1>3
    <2>5. L = M
        BY <1>1, <2>2, <2>3, <2>4, <1>3
    <2>6. L > 0 => all[L] = parent[M]
        BY <1>1, <2>2, <2>5
    <2> QED BY <1>1, <1>3, <1>5, <2>5, <2>6 DEF MeaningIn, L, M, all
<1> QED BY <1>4, <1>5

\* Two states of the parser that agree on the scopes agree on the names.
LEMMA SameMeaning ==
    ASSUME NEW p, NEW q, NEW parent \in Seq(ScopeSet), NEW name,
           \A k \in 1..Len(parent) :
                /\ Known(q, parent[k], name) <=> Known(p, parent[k], name)
                /\ Known(p, parent[k], name) => FoundIn(q, parent[k], name) = FoundIn(p, parent[k], name)
    PROVE  MeaningIn(q, parent, name) = MeaningIn(p, parent, name)
<1> DEFINE n == Len(parent)
           L == LastKnown(q, parent, name)
           M == LastKnown(p, parent, name)
<1>1. /\ L \in 0..n
      /\ \A k \in 1..n : Known(q, parent[k], name) => k <= L
      /\ L > 0 => Known(q, parent[L], name)
    BY LastKnownIsNearest
<1>2. /\ M \in 0..n
      /\ \A k \in 1..n : Known(p, parent[k], name) => k <= M
      /\ M > 0 => Known(p, parent[M], name)
    BY LastKnownIsNearest
<1>3. n \in Nat
    BY LenProperties
<1> HIDE DEF L, M
<1>4. L <= M
    BY <1>1, <1>2, <1>3
<1>5. M <= L
    BY <1>1, <1>2, <1>3
<1>6. L = M
    BY <1>1, <1>2, <1>3, <1>4, <1>5
<1>7. L > 0 => FoundIn(q, parent[L], name) = FoundIn(p, parent[M], name)
    BY <1>1, <1>2, <1>3, <1>6
<1> QED BY <1>1, <1>3, <1>6, <1>7 DEF MeaningIn, L, M

\* What a name means is a variable of that name in a scope around.
LEMMA MeaningIsDeclared ==
    ASSUME NEW p, p.vars \in Seq(VarSet), NEW parent \in Seq(ScopeSet), NEW name,
           MeaningIn(p, parent, name) # << >>
    PROVE  \E i \in 1..Len(p.vars), k \in 1..Len(parent) :
                Matches(p.vars[i], parent[k], name) /\ p.vars[i].name = MeaningIn(p, parent, name)
<1> DEFINE M == LastKnown(p, parent, name)
           i == InScope(p, parent[M], name)
<1>1. /\ M \in 0..Len(parent)
      /\ M > 0 => Known(p, parent[M], name)
    BY LastKnownIsNearest
<1>2. M # 0 /\ MeaningIn(p, parent, name) = p.vars[i].name
    BY DEF MeaningIn, FoundIn
<1>3. Len(parent) \in Nat
    BY LenProperties
<1>4. M \in 1..Len(parent) /\ M > 0
    BY <1>1, <1>2, <1>3
<1>5. i > 0
    BY <1>1, <1>4 DEF Known
<1>6. i \in 0..Len(p.vars) /\ (i > 0 => Matches(p.vars[i], parent[M], name))
    BY InScopeIsFirst
<1>7. i \in 1..Len(p.vars)
    BY <1>5, <1>6, LenProperties
<1> HIDE DEF M, i
<1> QED BY <1>2, <1>4, <1>5, <1>6, <1>7

\* A declaration does not change what the scope has of a name already.
LEMMA OldInScope ==
    ASSUME NEW p, NEW q, NEW v \in VarSet, p.vars \in Seq(VarSet), q.vars = Append(p.vars, v),
           NEW scope, NEW name, Known(p, scope, name)
    PROVE  Known(q, scope, name) /\ FoundIn(q, scope, name) = FoundIn(p, scope, name)
<1> DEFINE n == Len(p.vars)
           i == InScope(p, scope, name)
           j == InScope(q, scope, name)
<1>1. /\ q.vars \in Seq(VarSet) /\ Len(q.vars) = n + 1 /\ n \in Nat
      /\ \A k \in 1..n : q.vars[k] = p.vars[k]
    BY AppendProperties, LenProperties
<1>2. /\ i \in 0..n /\ i > 0 /\ Matches(p.vars[i], scope, name)
      /\ \A k \in 1..n : Matches(p.vars[k], scope, name) => i <= k
    BY InScopeIsFirst DEF Known
<1>3. /\ j \in 0..(n + 1)
      /\ \A k \in 1..(n + 1) : Matches(q.vars[k], scope, name) => j > 0 /\ j <= k
      /\ j > 0 => Matches(q.vars[j], scope, name)
    BY <1>1, InScopeIsFirst
<1> HIDE DEF n, i, j
<1>4. i \in 1..n /\ q.vars[i] = p.vars[i]
    BY <1>1, <1>2
<1>5. j > 0 /\ j <= i
    BY <1>1, <1>2, <1>3, <1>4
<1>6. j \in 1..n
    BY <1>1, <1>3, <1>4, <1>5
<1>7. i <= j
    BY <1>1, <1>2, <1>3, <1>5, <1>6
<1>8. i = j
    BY <1>1, <1>2, <1>5, <1>6, <1>7
<1> QED BY <1>4, <1>5, <1>8 DEF Known, FoundIn, i, j

\* Nor, if it is of another scope or name, what it does not have.
LEMMA StillUnknown ==
    ASSUME NEW p, NEW q, NEW v \in VarSet, p.vars \in Seq(VarSet), q.vars = Append(p.vars, v),
           NEW scope, NEW name, ~Known(p, scope, name), ~Matches(v, scope, name)
    PROVE  ~Known(q, scope, name)
<1> DEFINE n == Len(p.vars)
           j == InScope(q, scope, name)
<1>1. /\ q.vars \in Seq(VarSet) /\ Len(q.vars) = n + 1 /\ n \in Nat
      /\ \A k \in 1..n : q.vars[k] = p.vars[k]
      /\ q.vars[n + 1] = v
    BY AppendProperties, LenProperties
<1>2. /\ j \in 0..(n + 1)
      /\ j > 0 => Matches(q.vars[j], scope, name)
    BY <1>1, InScopeIsFirst
<1>3. \A k \in 1..n : ~Matches(p.vars[k], scope, name)
    BY InScopeIsFirst DEF Known
<1> HIDE DEF n, j
<1>4. SUFFICES ASSUME j > 0 PROVE FALSE
    BY DEF Known, j
<1>5. CASE j = n + 1
    BY <1>1, <1>2, <1>4, <1>5
<1>6. CASE j # n + 1
    <2>1. j \in 1..n
        BY <1>1, <1>2, <1>4, <1>6
    <2> QED BY <1>1, <1>2, <1>3, <1>4, <2>1
<1> QED BY <1>5, <1>6

\* The first declaration of a name in a scope is what the scope has from then on.
LEMMA NowKnown ==
    ASSUME NEW p, NEW q, NEW v \in VarSet, p.vars \in Seq(VarSet), q.vars = Append(p.vars, v),
           NEW scope, NEW name, ~Known(p, scope, name), Matches(v, scope, name)
    PROVE  Known(q, scope, name) /\ FoundIn(q, scope, name) = v.name
<1> DEFINE n == Len(p.vars)
           j == InScope(q, scope, name)
<1>1. /\ q.vars \in Seq(VarSet) /\ Len(q.vars) = n + 1 /\ n \in Nat
      /\ \A k \in 1..n : q.vars[k] = p.vars[k]
      /\ q.vars[n + 1] = v
    BY AppendProperties, LenProperties
<1>2. /\ j \in 0..(n + 1)
      /\ \A k \in 1..(n + 1) : Matches(q.vars[k], scope, name) => j > 0 /\ j <= k
      /\ j > 0 => Matches(q.vars[j], scope, name)
    BY <1>1, InScopeIsFirst
<1>3. \A k \in 1..n : ~Matches(p.vars[k], scope, name)
    BY InScopeIsFirst DEF Known
<1> HIDE DEF n, j
<1>4. j > 0
    BY <1>1, <1>2
<1>5. ~(j \in 1..n)
    BY <1>1, <1>2, <1>3, <1>4
<1>6. j = n + 1
    BY <1>1, <1>2, <1>4, <1>5
<1> QED BY <1>1, <1>4, <1>6 DEF Known, FoundIn, j

-----------------------------------------------------------------------------
(* What the operators of Scopes make of the parser                           *)

LEMMA ReadFields ==
    ASSUME parser \in ParserSet
    PROVE  /\ Read \in ParserSet /\ Read.at = parser.at + 1
           /\ Read.vars = parser.vars /\ Read.locals = parser.locals /\ Read.functions = parser.functions
BY DEF Read, ParserSet

LEMMA LocalsKnown ==
    ASSUME NEW p \in ParserSet
    PROVE  /\ p.at \in Nat /\ p.vars \in Seq(VarSet) /\ p.functions \in Seq(FunctionSet)
           /\ p.locals \in LocalsSet /\ DOMAIN p.locals \subseteq ScopeSet
           /\ \A f \in DOMAIN p.locals : p.locals[f] \in Seq(VarName)
BY DEF ParserSet, LocalsSet

LEMMA BeginFields ==
    ASSUME NEW p \in ParserSet, NEW func \in ScopeSet
    PROVE  LET q == begin_locals(p, func)
           IN  /\ q \in ParserSet /\ q.at = p.at /\ q.vars = p.vars /\ q.functions = p.functions
               /\ DOMAIN q.locals = DOMAIN p.locals \cup {func}
               /\ q.locals[func] = << >>
               /\ \A f \in DOMAIN p.locals \ {func} : q.locals[f] = p.locals[f]
<1> DEFINE new == [f \in DOMAIN p.locals \cup {func} |-> IF f = func THEN << >> ELSE p.locals[f]]
           q == [p EXCEPT !.locals = new]
<1>1. begin_locals(p, func) = q
    BY DEF begin_locals
<1>2. << >> \in Seq(VarName)
    BY EmptySeq
<1>3. new \in [DOMAIN p.locals \cup {func} -> Seq(VarName)]
    BY <1>2, LocalsKnown
<1>4. DOMAIN p.locals \cup {func} \in SUBSET ScopeSet
    BY LocalsKnown
<1>5. new \in LocalsSet
    BY <1>3, <1>4 DEF LocalsSet
<1>6. /\ DOMAIN new = DOMAIN p.locals \cup {func} /\ new[func] = << >>
      /\ \A f \in DOMAIN p.locals \ {func} : new[f] = p.locals[f]
    OBVIOUS
<1> HIDE DEF new
<1>7. q \in ParserSet /\ q.at = p.at /\ q.vars = p.vars /\ q.functions = p.functions /\ q.locals = new
    BY <1>5 DEF ParserSet
<1> QED BY <1>1, <1>6, <1>7

LEMMA DeclareFields ==
    ASSUME NEW p \in ParserSet, NEW parent \in Seq(ScopeSet), NEW name \in VarName, Len(parent) > 0,
           parent[LastFunction(parent)] \in DOMAIN p.locals
    PROVE  LET q    == declare(p, parent, name)
               func == parent[LastFunction(parent)]
           IN  /\ q \in ParserSet /\ q.at = p.at /\ q.functions = p.functions
               /\ q.vars = Append(p.vars, [name |-> name, scope |-> parent[Len(parent)]])
               /\ [name |-> name, scope |-> parent[Len(parent)]] \in VarSet
               /\ DOMAIN q.locals = DOMAIN p.locals
               /\ q.locals[func] = Append(p.locals[func], name)
               /\ \A f \in DOMAIN p.locals \ {func} : q.locals[f] = p.locals[f]
<1> DEFINE func == parent[LastFunction(parent)]
           v    == [name |-> name, scope |-> parent[Len(parent)]]
           new  == [p.locals EXCEPT ![func] = Append(p.locals[func], name)]
           vars2 == Append(p.vars, v)
           q    == [p EXCEPT !.vars = vars2, !.locals = new]
<1>1. declare(p, parent, name) = q
    BY DEF declare, Last, LastFunction
<1>2. Len(parent) \in 1..Len(parent)
    BY LenProperties
<1>3. v \in VarSet
    BY <1>2, ElementOfSeq DEF VarSet
<1>4. vars2 \in Seq(VarSet)
    BY <1>3, LocalsKnown, AppendProperties
<1>5. Append(p.locals[func], name) \in Seq(VarName)
    BY LocalsKnown, AppendProperties
<1>6. PICK S \in SUBSET ScopeSet : p.locals \in [S -> Seq(VarName)]
    BY LocalsKnown DEF LocalsSet
<1>7. new \in [S -> Seq(VarName)]
    BY <1>5, <1>6
<1>8. new \in LocalsSet
    BY <1>6, <1>7 DEF LocalsSet
<1>9. /\ DOMAIN new = DOMAIN p.locals /\ new[func] = Append(p.locals[func], name)
      /\ \A f \in DOMAIN p.locals \ {func} : new[f] = p.locals[f]
    BY <1>6
<1> HIDE DEF new, vars2
<1>10. q \in ParserSet /\ q.at = p.at /\ q.vars = vars2 /\ q.functions = p.functions /\ q.locals = new
    BY <1>4, <1>8 DEF ParserSet
<1> QED BY <1>1, <1>3, <1>9, <1>10 DEF vars2

LEMMA AddFields ==
    ASSUME NEW p \in ParserSet, NEW name \in Functions, NEW argc \in Arities, NEW type \in {"external", "full_link"}
    PROVE  LET q == add_function(p, name, argc, type)
           IN  /\ q \in ParserSet /\ q.at = p.at /\ q.vars = p.vars /\ q.locals = p.locals
               /\ q.functions = Append(p.functions, [name |-> name, argc |-> argc, type |-> type])
               /\ [name |-> name, argc |-> argc, type |-> type] \in FunctionSet
<1> DEFINE f == [name |-> name, argc |-> argc, type |-> type]
           all == Append(p.functions, f)
<1>1. f \in FunctionSet
    BY DEF FunctionSet
<1>2. all \in Seq(FunctionSet)
    BY <1>1, LocalsKnown, AppendProperties
<1>3. add_function(p, name, argc, type) = [p EXCEPT !.functions = all]
    BY DEF add_function
<1> HIDE DEF all
<1> DEFINE q == [p EXCEPT !.functions = all]
<1>4. q \in ParserSet /\ q.at = p.at /\ q.vars = p.vars /\ q.locals = p.locals /\ q.functions = all
    BY <1>2 DEF ParserSet
<1> QED BY <1>1, <1>3, <1>4 DEF all

LEMMA AppendIs ==
    ASSUME NEW S, NEW s \in Seq(S), NEW e \in S, NEW t, t = Append(s, e)
    PROVE  /\ t \in Seq(S) /\ Len(s) \in Nat /\ Len(t) = Len(s) + 1
           /\ \A i \in 1..Len(s) : t[i] = s[i]
           /\ t[Len(s) + 1] = e
           /\ DOMAIN s = 1..Len(s) /\ DOMAIN t = 1..(Len(s) + 1)
BY AppendProperties, LenProperties

LEMMA ToSetOfAppend ==
    ASSUME NEW S, NEW s \in Seq(S), NEW e \in S
    PROVE  ToSet(Append(s, e)) = ToSet(s) \cup {e}
<1> DEFINE t == Append(s, e)
           n == Len(s)
<1>1. /\ t \in Seq(S) /\ Len(t) = n + 1 /\ n \in Nat
      /\ \A k \in 1..n : t[k] = s[k]
      /\ t[n + 1] = e
    BY AppendProperties, LenProperties
<1>2. DOMAIN t = 1..(n + 1) /\ DOMAIN s = 1..n
    BY <1>1, LenProperties
<1> HIDE DEF t
<1>3. ASSUME NEW x \in ToSet(t) PROVE x \in ToSet(s) \cup {e}
    <2>1. PICK k \in 1..(n + 1) : x = t[k]
        BY <1>2, <1>3 DEF ToSet
    <2>2. CASE k = n + 1
        BY <1>1, <2>1, <2>2
    <2>3. CASE k # n + 1
        <3>1. k \in 1..n
            BY <1>1, <2>3
        <3> QED BY <1>1, <1>2, <2>1, <3>1 DEF ToSet
    <2> QED BY <2>2, <2>3
<1>4. ASSUME NEW x \in ToSet(s) PROVE x \in ToSet(t)
    <2>1. PICK k \in 1..n : x = s[k]
        BY <1>2, <1>4 DEF ToSet
    <2>2. k \in 1..(n + 1)
        BY <1>1
    <2> QED BY <1>1, <1>2, <2>1, <2>2 DEF ToSet
<1>5. e \in ToSet(t)
    BY <1>1, <1>2 DEF ToSet
<1>6. ToSet(t) = ToSet(s) \cup {e}
    BY <1>3, <1>4, <1>5
<1> QED BY <1>6 DEF t

-----------------------------------------------------------------------------
(* Functions and calls                                                       *)

LEMMA SameFind ==
    ASSUME NEW p, NEW q, q.functions = p.functions, NEW name, NEW argc
    PROVE  FindFunction(q, name, argc) = FindFunction(p, name, argc)
<1>1. \A r : FindFunction(r, name, argc) =
        LET I == {i \in 1..Len(r.functions) : r.functions[i].name = name /\ r.functions[i].argc = argc}
        IN  IF I # {} THEN Min(I) ELSE 0
    BY DEF FindFunction, SelectInSeq
<1> QED BY <1>1

\* A function that is known stays the one that is found; one that is not is
\* found when it is added.
LEMMA FindAfterAdd ==
    ASSUME NEW p, NEW q, NEW f \in FunctionSet, p.functions \in Seq(FunctionSet),
           q.functions = Append(p.functions, f), NEW name, NEW argc
    PROVE  /\ FindFunction(p, name, argc) > 0 => FindFunction(q, name, argc) = FindFunction(p, name, argc)
           /\ FindFunction(p, name, argc) = 0 /\ f.name = name /\ f.argc = argc =>
                FindFunction(q, name, argc) = Len(q.functions)
<1> DEFINE n == Len(p.functions)
           i == FindFunction(p, name, argc)
           j == FindFunction(q, name, argc)
           Is(g) == g.name = name /\ g.argc = argc
<1>1. /\ q.functions \in Seq(FunctionSet) /\ Len(q.functions) = n + 1 /\ n \in Nat
      /\ \A k \in 1..n : q.functions[k] = p.functions[k]
      /\ q.functions[n + 1] = f
    BY AppendProperties, LenProperties
<1>2. /\ i \in 0..n
      /\ \A k \in 1..n : Is(p.functions[k]) => i > 0 /\ i <= k
      /\ i > 0 => Is(p.functions[i])
    BY FindFunctionIsFirst
<1>3. /\ j \in 0..(n + 1)
      /\ \A k \in 1..(n + 1) : Is(q.functions[k]) => j > 0 /\ j <= k
      /\ j > 0 => Is(q.functions[j])
    BY <1>1, FindFunctionIsFirst
<1>4. (f.name = name /\ f.argc = argc) <=> Is(f)
    OBVIOUS
<1> HIDE DEF n, i, j, Is
<1>5. CASE i > 0
    <2>1. i \in 1..n /\ q.functions[i] = p.functions[i]
        BY <1>1, <1>2, <1>5
    <2>2. j > 0 /\ j <= i
        BY <1>1, <1>2, <1>3, <1>5, <2>1
    <2>3. j \in 1..n
        BY <1>1, <1>3, <2>1, <2>2
    <2>4. i <= j
        BY <1>1, <1>2, <1>3, <2>2, <2>3
    <2>5. i = j
        BY <1>1, <2>1, <2>2, <2>3, <2>4
    <2> QED BY <1>5, <2>5 DEF i, j
<1>6. CASE i = 0
    <2> SUFFICES ASSUME Is(f) PROVE j = n + 1
        BY <1>1, <1>4, <1>6 DEF i, j
    <2>1. j > 0
        BY <1>1, <1>3
    <2>2. ~(j \in 1..n)
        BY <1>1, <1>2, <1>3, <1>6, <2>1
    <2> QED BY <1>1, <1>3, <2>1, <2>2
<1> QED BY <1>1, <1>2, <1>5, <1>6

\* An action that leaves functions and calls alone leaves them in agreement.
LEMMA StillAgree ==
    ASSUME CallsAgree, calls' = calls, parser'.functions = parser.functions
    PROVE  CallsAgree'
<1>1. \A c : FindFunction(parser', c.name, c.argc) = FindFunction(parser, c.name, c.argc)
    BY SameFind
<1>2. \A c \in calls' : c.node = FindFunction(parser', c.name, c.argc)
    BY <1>1 DEF CallsAgree
<1> QED BY <1>2 DEF CallsAgree

\* Nor does a function at the end of the list, if it is not one of those known
\* made external again.
LEMMA AgreeAfterAdd ==
    ASSUME Types, CallsAgree, NEW f \in FunctionSet, parser'.functions = Append(parser.functions, f),
           f.type = "full_link" \/ FindFunction(parser, f.name, f.argc) = 0
    PROVE  /\ \A c \in calls : c.node = FindFunction(parser', c.name, c.argc)
           /\ \A i, j \in DOMAIN parser'.functions :
                i < j /\ SameFunction(parser'.functions[i], parser'.functions[j]) =>
                    parser'.functions[j].type = "full_link"
<1> DEFINE fs == parser.functions
           n  == Len(fs)
<1>1. fs \in Seq(FunctionSet) /\ n \in Nat /\ DOMAIN fs = 1..n
    BY LenProperties, LocalsKnown DEF Types
<1>2. /\ parser'.functions \in Seq(FunctionSet) /\ Len(parser'.functions) = n + 1
      /\ \A k \in 1..n : parser'.functions[k] = fs[k]
      /\ parser'.functions[n + 1] = f
    BY <1>1, AppendProperties
<1>3. DOMAIN parser'.functions = 1..(n + 1)
    BY <1>2, LenProperties
<1>4. ASSUME NEW c \in calls PROVE c.node = FindFunction(parser', c.name, c.argc)
    <2>1. c.node = FindFunction(parser, c.name, c.argc)
        BY DEF CallsAgree
    <2>2. FindFunction(parser, c.name, c.argc) > 0
        BY <2>1 DEF Types, CallSet
    <2> QED BY <1>1, <2>1, <2>2, FindAfterAdd
<1>5. ASSUME NEW i \in DOMAIN parser'.functions, NEW j \in DOMAIN parser'.functions, i < j,
             SameFunction(parser'.functions[i], parser'.functions[j])
      PROVE  parser'.functions[j].type = "full_link"
    <2>1. i \in 1..n /\ parser'.functions[i] = fs[i]
        BY <1>1, <1>2, <1>3, <1>5
    <2>2. CASE j \in 1..n
        <3>1. fs[j].type = "full_link"
            BY <1>1, <1>2, <1>5, <2>1, <2>2 DEF CallsAgree
        <3> QED BY <1>2, <2>2, <3>1
    <2>3. CASE j = n + 1
        <3>1. fs[i].name = f.name /\ fs[i].argc = f.argc
            BY <1>2, <1>5, <2>1, <2>3 DEF SameFunction
        <3>2. FindFunction(parser, f.name, f.argc) > 0
            BY <1>1, <2>1, <3>1, FindFunctionIsFirst
        <3> QED BY <1>2, <2>3, <3>2
    <2> QED BY <1>1, <1>3, <2>2, <2>3
<1> QED BY <1>4, <1>5

-----------------------------------------------------------------------------
(* The invariant                                                             *)

\* What the steps below need of the types.
LEMMA Parts ==
    ASSUME Types
    PROVE  /\ parser \in ParserSet /\ parser.at \in Nat
           /\ parser.vars \in Seq(VarSet) /\ DOMAIN parser.vars = 1..Len(parser.vars)
           /\ Len(parser.vars) \in Nat
           /\ \A i \in DOMAIN parser.vars :
                parser.vars[i].name[2] \in Nat /\ parser.vars[i].scope \in ScopeSet
           /\ parents \in Seq(ScopeSet) /\ DOMAIN parents = 1..Len(parents) /\ Len(parents) \in Nat
           /\ \A k \in DOMAIN parents : parents[k] \in ScopeSet /\ parents[k].place \in Nat
           /\ DOMAIN parser.locals \subseteq ScopeSet
           /\ \A f \in DOMAIN parser.locals :
                /\ f.place \in Nat /\ parser.locals[f] \in Seq(VarName)
                /\ \A var \in ToSet(parser.locals[f]) : var \in VarName /\ var[2] \in Nat
<1>1. parser \in ParserSet /\ parents \in Seq(ScopeSet)
    BY DEF Types
<1>2. /\ parser.at \in Nat /\ parser.vars \in Seq(VarSet) /\ DOMAIN parser.locals \subseteq ScopeSet
      /\ \A f \in DOMAIN parser.locals : parser.locals[f] \in Seq(VarName)
    BY <1>1, LocalsKnown
<1>3. /\ DOMAIN parser.vars = 1..Len(parser.vars) /\ Len(parser.vars) \in Nat
      /\ DOMAIN parents = 1..Len(parents) /\ Len(parents) \in Nat
    BY <1>1, <1>2, LenProperties
<1>4. \A i \in DOMAIN parser.vars : parser.vars[i] \in VarSet
    BY <1>2, <1>3, ElementOfSeq
<1>5. \A i \in DOMAIN parser.vars : parser.vars[i].name[2] \in Nat /\ parser.vars[i].scope \in ScopeSet
    BY <1>4 DEF VarSet, VarName
<1>6. \A k \in DOMAIN parents : parents[k] \in ScopeSet
    BY <1>1, <1>3, ElementOfSeq
<1>7. \A k \in DOMAIN parents : parents[k].place \in Nat
    BY <1>6 DEF ScopeSet
<1>8. \A f \in DOMAIN parser.locals : f.place \in Nat
    BY <1>2 DEF ScopeSet
<1>9. ASSUME NEW f \in DOMAIN parser.locals, NEW var \in ToSet(parser.locals[f])
      PROVE  var \in VarName /\ var[2] \in Nat
    <2>1. parser.locals[f] \in Seq(VarName)
        BY <1>2
    <2>2. DOMAIN parser.locals[f] = 1..Len(parser.locals[f])
        BY <2>1, LenProperties
    <2>3. PICK k \in 1..Len(parser.locals[f]) : var = parser.locals[f][k]
        BY <1>9, <2>2 DEF ToSet
    <2>4. var \in VarName
        BY <2>1, <2>3, ElementOfSeq
    <2> QED BY <2>4 DEF VarName
<1> QED BY <1>1, <1>2, <1>3, <1>5, <1>6, <1>7, <1>8, <1>9

\* A scope begins, a function with a list of local variables of its own.
LEMMA OpenKeeps ==
    ASSUME IInv, NEW scope \in ScopeSet, scope.place = parser.at + 1,
           parents' = Append(parents, scope), header' \in BOOLEAN, calls' = calls,
           \/ scope.nt = "block" /\ parser' = Read /\ ~header'
           \/ scope.nt = "function" /\ parser' = begin_locals(Read, scope)
    PROVE  IInv'
<1> DEFINE n == Len(parents)
<1>1. Types /\ InOrder /\ FunctionsKnown /\ HeldByOne /\ CallsAgree
    BY DEF IInv
<1>2. /\ parents' \in Seq(ScopeSet) /\ Len(parents') = n + 1 /\ n \in Nat
      /\ \A k \in 1..n : parents'[k] = parents[k]
      /\ parents'[n + 1] = scope
    BY <1>1, Parts, AppendProperties
<1>3. DOMAIN parents' = 1..(n + 1) /\ DOMAIN parents = 1..n
    BY <1>1, <1>2, Parts, LenProperties
<1>4. /\ Read \in ParserSet /\ Read.at = parser.at + 1
      /\ Read.vars = parser.vars /\ Read.locals = parser.locals /\ Read.functions = parser.functions
    BY <1>1, Parts, ReadFields
<1>5. /\ parser' \in ParserSet /\ parser'.at = parser.at + 1
      /\ parser'.vars = parser.vars /\ parser'.functions = parser.functions
      /\ DOMAIN parser'.locals = DOMAIN parser.locals \/ DOMAIN parser'.locals = DOMAIN parser.locals \cup {scope}
      /\ scope.nt = "function" => scope \in DOMAIN parser'.locals
      /\ scope \in DOMAIN parser'.locals => parser'.locals[scope] = << >> \/ scope \in DOMAIN parser.locals
      /\ \A f \in DOMAIN parser.locals \ {scope} : f \in DOMAIN parser'.locals /\ parser'.locals[f] = parser.locals[f]
    <2>1. CASE scope.nt = "block" /\ parser' = Read
        BY <1>4, <2>1
    <2>2. CASE parser' = begin_locals(Read, scope)
        BY <1>4, <2>2, BeginFields
    <2> QED BY <2>1, <2>2
<1>6. scope \notin DOMAIN parser.locals
    BY <1>1, Parts DEF InOrder
<1>7. \A f \in DOMAIN parser'.locals :
        IF f = scope THEN parser'.locals[f] = << >> ELSE f \in DOMAIN parser.locals /\ parser'.locals[f] = parser.locals[f]
    BY <1>5, <1>6
<1>8. ToSet(<< >>) = {}
    BY DEF ToSet
<1>9. Types'
    BY <1>1, <1>2, <1>5 DEF Types
<1>10. InOrder'
    <2>1. \A k \in DOMAIN parents' : parents'[k].place <= parser'.at
        <3> TAKE k \in DOMAIN parents'
        <3>1. CASE k = n + 1
            BY <1>1, <1>2, <1>5, <3>1, Parts
        <3>2. CASE k # n + 1
            <4>1. k \in 1..n /\ parents'[k] = parents[k]
                BY <1>2, <1>3, <3>2
            <4>2. parents[k].place <= parser.at /\ parents[k].place \in Nat
                BY <1>1, <1>3, <4>1, Parts DEF InOrder
            <4> QED BY <1>1, <1>5, <4>1, <4>2, Parts
        <3> QED BY <3>1, <3>2
    <2>2. \A j, k \in DOMAIN parents' : j < k => parents'[j].place < parents'[k].place
        <3> SUFFICES ASSUME NEW j \in DOMAIN parents', NEW k \in DOMAIN parents', j < k
                     PROVE  parents'[j].place < parents'[k].place
            OBVIOUS
        <3>1. j \in 1..n /\ parents'[j] = parents[j]
            BY <1>2, <1>3
        <3>2. parents[j].place <= parser.at /\ parents[j].place \in Nat
            BY <1>1, <1>3, <3>1, Parts DEF InOrder
        <3>3. CASE k = n + 1
            BY <1>1, <1>2, <3>1, <3>2, <3>3, Parts
        <3>4. CASE k # n + 1
            <4>1. k \in 1..n /\ parents'[k] = parents[k]
                BY <1>2, <1>3, <3>4
            <4> QED BY <1>1, <1>3, <3>1, <4>1 DEF InOrder
        <3> QED BY <3>3, <3>4
    <2>3. \A i \in DOMAIN parser'.vars :
            parser'.vars[i].name[2] <= parser'.at /\ parser'.vars[i].scope.place <= parser'.at
        <3> TAKE i \in DOMAIN parser'.vars
        <3>1. /\ parser.vars[i].name[2] <= parser.at /\ parser.vars[i].scope.place <= parser.at
              /\ parser.vars[i].name[2] \in Nat /\ parser.vars[i].scope.place \in Nat
            BY <1>1, <1>5, Parts DEF InOrder, ScopeSet
        <3> QED BY <1>1, <1>5, <3>1, Parts
    <2>4. \A i, j \in DOMAIN parser'.vars : i < j => parser'.vars[i].name[2] < parser'.vars[j].name[2]
        BY <1>1, <1>5 DEF InOrder
    <2>5. \A func \in DOMAIN parser'.locals :
            /\ func.place <= parser'.at
            /\ \A var \in ToSet(parser'.locals[func]) : var[2] <= parser'.at
        <3> TAKE func \in DOMAIN parser'.locals
        <3>1. CASE func = scope
            BY <1>1, <1>5, <1>7, <1>8, <3>1, Parts
        <3>2. CASE func # scope
            <4>1. func \in DOMAIN parser.locals /\ parser'.locals[func] = parser.locals[func]
                BY <1>7, <3>2
            <4>2. /\ func.place <= parser.at /\ func.place \in Nat
                  /\ \A var \in ToSet(parser.locals[func]) : var[2] <= parser.at /\ var[2] \in Nat
                BY <1>1, <4>1, Parts DEF InOrder
            <4> QED BY <1>1, <1>5, <4>1, <4>2, Parts
        <3> QED BY <3>1, <3>2
    <2> QED BY <2>1, <2>2, <2>3, <2>4, <2>5 DEF InOrder
<1>11. FunctionsKnown'
    <2>1. ASSUME NEW k \in DOMAIN parents', parents'[k].nt = "function"
          PROVE  parents'[k] \in DOMAIN parser'.locals
        <3>1. CASE k = n + 1
            BY <1>2, <1>5, <2>1, <3>1
        <3>2. CASE k # n + 1
            <4>1. k \in 1..n /\ parents'[k] = parents[k]
                BY <1>2, <1>3, <3>2
            <4>2. parents[k] \in DOMAIN parser.locals
                BY <1>1, <1>3, <2>1, <4>1 DEF FunctionsKnown
            <4> QED BY <1>5, <4>1, <4>2
        <3> QED BY <3>1, <3>2
    <2>2. header' => parents' # << >> /\ parents'[Len(parents')].nt = "function"
        <3>1. parents' # << >>
            BY <1>1, Parts, AppendProperties
        <3> QED BY <1>2, <3>1
    <2> QED BY <2>1, <2>2 DEF FunctionsKnown
<1>12. HeldByOne'
    <2> SUFFICES ASSUME NEW i \in DOMAIN parser'.vars, NEW k \in DOMAIN parents',
                        parser'.vars[i].scope = parents'[k]
                 PROVE  \E j \in 1..k : /\ parents'[j].nt = "function"
                                        /\ Holders(parser.vars[i].name)' = {parents'[j]}
        BY <1>5 DEF HeldByOne
    <2>1. k # n + 1
        <3> SUFFICES ASSUME k = n + 1 PROVE FALSE
            OBVIOUS
        <3>1. parser.vars[i].scope.place = parser.at + 1
            BY <1>2, <1>5
        <3> QED BY <1>1, <1>5, <3>1, Parts DEF InOrder
    <2>2. k \in 1..n /\ parents'[k] = parents[k]
        BY <1>2, <1>3, <2>1
    <2>3. PICK j \in 1..k : parents[j].nt = "function" /\ Holders(parser.vars[i].name) = {parents[j]}
        <3>1. i \in DOMAIN parser.vars /\ k \in DOMAIN parents /\ parser.vars[i].scope = parents[k]
            BY <1>3, <1>5, <2>2
        <3>2. HeldByOne
            BY <1>1
        <3> QED BY <3>1, <3>2 DEF HeldByOne
    <2>4. parents'[j] = parents[j]
        <3>1. j \in 1..n
            BY <1>2, <2>2
        <3> QED BY <1>2, <3>1
    <2>5. Holders(parser.vars[i].name)' = {func \in DOMAIN parser'.locals : parser'.vars[i].name \in ToSet(parser'.locals[func])}
        BY DEF Holders
    <2>6. Holders(parser.vars[i].name)' = Holders(parser.vars[i].name)
        <3> DEFINE v == parser.vars[i].name
        <3>1. \A f : f \in DOMAIN parser'.locals /\ v \in ToSet(parser'.locals[f]) <=>
                     f \in DOMAIN parser.locals /\ v \in ToSet(parser.locals[f])
            BY <1>5, <1>6, <1>7, <1>8
        <3>2. v = parser'.vars[i].name
            BY <1>5
        <3> HIDE DEF v
        <3>3. Holders(v) = {func \in DOMAIN parser.locals : v \in ToSet(parser.locals[func])}
            BY DEF Holders
        <3> QED BY <2>5, <3>1, <3>2, <3>3 DEF v
    <2> QED BY <2>3, <2>4, <2>6
<1>13. CallsAgree'
    BY <1>1, <1>5, StillAgree
<1> QED BY <1>9, <1>10, <1>11, <1>12, <1>13 DEF IInv

\* A variable is declared in the innermost scope, by its name and place.
LEMMA DeclareKeeps ==
    ASSUME IInv, \E k \in DOMAIN parents : parents[k].nt = "function", NEW name \in Names,
           parser' = declare(Read, parents, <<name, Read.at>>),
           UNCHANGED <<parents, header, calls>>
    PROVE  IInv'
<1> DEFINE n    == Len(parser.vars)
           m    == Len(parents)
           id   == <<name, Read.at>>
           func == parents[LastFunction(parents)]
           v    == [name |-> id, scope |-> parents[m]]
<1>1. Types /\ InOrder /\ FunctionsKnown /\ HeldByOne /\ CallsAgree
    BY DEF IInv
<1>2. /\ Read \in ParserSet /\ Read.at = parser.at + 1
      /\ Read.vars = parser.vars /\ Read.locals = parser.locals /\ Read.functions = parser.functions
    BY <1>1, Parts, ReadFields
<1>3. /\ parents \in Seq(ScopeSet) /\ m \in Nat /\ DOMAIN parents = 1..m /\ m > 0
      /\ parser.at \in Nat
    BY <1>1, Parts
<1>4. LastFunction(parents) \in 1..m /\ func.nt = "function"
    BY <1>3, LastFunctionIsNearest
<1>5. func \in DOMAIN parser.locals
    BY <1>1, <1>3, <1>4 DEF FunctionsKnown
<1>6. id \in VarName /\ id[2] = parser.at + 1
    BY <1>2, <1>3 DEF VarName
<1>7. /\ parser' \in ParserSet /\ parser'.at = parser.at + 1 /\ parser'.functions = parser.functions
      /\ parser'.vars = Append(parser.vars, v) /\ v \in VarSet
      /\ DOMAIN parser'.locals = DOMAIN parser.locals
      /\ parser'.locals[func] = Append(parser.locals[func], id)
      /\ \A f \in DOMAIN parser.locals \ {func} : parser'.locals[f] = parser.locals[f]
    <2> DEFINE q == declare(Read, parents, id)
    <2>1. parser' = q
        OBVIOUS
    <2> HIDE DEF id
    <2>2. /\ q \in ParserSet /\ q.at = Read.at /\ q.functions = Read.functions
          /\ q.vars = Append(Read.vars, v) /\ v \in VarSet
          /\ DOMAIN q.locals = DOMAIN Read.locals
          /\ q.locals[func] = Append(Read.locals[func], id)
          /\ \A f \in DOMAIN Read.locals \ {func} : q.locals[f] = Read.locals[f]
        BY <1>2, <1>3, <1>5, <1>6, DeclareFields
    <2> HIDE DEF q, v, func
    <2> QED BY <1>2, <2>1, <2>2
<1>8. v.name = id /\ v.scope = parents[m] /\ m \in 1..m
    BY <1>3
<1> HIDE DEF v, id, func
<1>9. /\ Len(parser'.vars) = n + 1 /\ n \in Nat
      /\ \A i \in 1..n : parser'.vars[i] = parser.vars[i]
      /\ parser'.vars[n + 1] = v
      /\ DOMAIN parser.vars = 1..n /\ DOMAIN parser'.vars = 1..(n + 1)
    <2> DEFINE old == parser.vars
               new == parser'.vars
    <2>1. old \in Seq(VarSet)
        BY <1>1, Parts
    <2>2. new = Append(old, v) /\ v \in VarSet
        BY <1>7
    <2>3. n = Len(old)
        OBVIOUS
    <2> HIDE DEF old, new, n
    <2>4. /\ Len(old) \in Nat /\ Len(new) = Len(old) + 1
          /\ \A i \in 1..Len(old) : new[i] = old[i]
          /\ new[Len(old) + 1] = v
          /\ DOMAIN old = 1..Len(old) /\ DOMAIN new = 1..(Len(old) + 1)
        BY <2>1, <2>2, AppendIs
    <2>5. /\ n \in Nat /\ Len(new) = n + 1
          /\ \A i \in 1..n : new[i] = old[i]
          /\ new[n + 1] = v
          /\ DOMAIN old = 1..n /\ DOMAIN new = 1..(n + 1)
        BY <2>3, <2>4
    <2> QED BY <2>5 DEF old, new
<1>10. \A f \in DOMAIN parser.locals :
        ToSet(parser'.locals[f]) = IF f = func THEN ToSet(parser.locals[f]) \cup {id} ELSE ToSet(parser.locals[f])
    <2> TAKE f \in DOMAIN parser.locals
    <2>1. CASE f = func
        <3>1. parser.locals[func] \in Seq(VarName)
            BY <1>1, <1>5, Parts
        <3>2. parser'.locals[func] = Append(parser.locals[func], id)
            BY <1>7
        <3>3. ToSet(Append(parser.locals[func], id)) = ToSet(parser.locals[func]) \cup {id}
            BY <1>6, <3>1, ToSetOfAppend
        <3> QED BY <2>1, <3>2, <3>3
    <2>2. CASE f # func
        BY <1>7, <2>2
    <2> QED BY <2>1, <2>2
<1>11. \A f \in DOMAIN parser.locals : id \notin ToSet(parser.locals[f])
    BY <1>1, <1>6, Parts DEF InOrder
<1>17. parser'.at = parser.at + 1 /\ parser.at \in Nat
    BY <1>3, <1>7
<1> HIDE DEF n, m
<1>12. Types'
    BY <1>1, <1>7 DEF Types
<1>13. InOrder'
    <2>1. \A k \in DOMAIN parents : parents[k].place <= parser'.at
        <3> TAKE k \in DOMAIN parents
        <3>1. parents[k].place <= parser.at /\ parents[k].place \in Nat
            BY <1>1, Parts DEF InOrder
        <3> QED BY <1>17, <3>1
    <2>2. \A i \in DOMAIN parser'.vars :
            parser'.vars[i].name[2] <= parser'.at /\ parser'.vars[i].scope.place <= parser'.at
        <3> TAKE i \in DOMAIN parser'.vars
        <3>1. CASE i = n + 1
            <4>1. parser'.vars[i].name[2] = parser.at + 1 /\ parser'.vars[i].scope = parents[m]
                BY <1>6, <1>8, <1>9, <3>1
            <4> QED BY <1>3, <1>8, <1>17, <2>1, <4>1
        <3>2. CASE i # n + 1
            <4>1. i \in 1..n /\ parser'.vars[i] = parser.vars[i]
                BY <1>9, <3>2
            <4>2. /\ parser.vars[i].name[2] <= parser.at /\ parser.vars[i].scope.place <= parser.at
                  /\ parser.vars[i].name[2] \in Nat /\ parser.vars[i].scope.place \in Nat
                BY <1>1, <1>9, <4>1, Parts DEF InOrder, ScopeSet
            <4> QED BY <1>17, <4>1, <4>2
        <3> QED BY <3>1, <3>2
    <2>3. \A i, j \in DOMAIN parser'.vars : i < j => parser'.vars[i].name[2] < parser'.vars[j].name[2]
        <3> SUFFICES ASSUME NEW i \in DOMAIN parser'.vars, NEW j \in DOMAIN parser'.vars, i < j
                     PROVE  parser'.vars[i].name[2] < parser'.vars[j].name[2]
            OBVIOUS
        <3>1. i \in 1..n /\ parser'.vars[i] = parser.vars[i]
            BY <1>9
        <3>2. parser.vars[i].name[2] <= parser.at /\ parser.vars[i].name[2] \in Nat
            BY <1>1, <1>9, <3>1, Parts DEF InOrder
        <3>3. CASE j = n + 1
            <4>1. parser'.vars[j].name[2] = parser.at + 1
                BY <1>6, <1>8, <1>9, <3>3
            <4> QED BY <1>17, <3>1, <3>2, <4>1
        <3>4. CASE j # n + 1
            <4>1. j \in 1..n /\ parser'.vars[j] = parser.vars[j]
                BY <1>9, <3>4
            <4> QED BY <1>1, <1>9, <3>1, <4>1 DEF InOrder
        <3> QED BY <3>3, <3>4
    <2>4. ASSUME NEW f \in DOMAIN parser'.locals
          PROVE  f.place <= parser'.at /\ \A var \in ToSet(parser'.locals[f]) : var[2] <= parser'.at
        <3>1. /\ f.place <= parser.at /\ f.place \in Nat
              /\ \A var \in ToSet(parser.locals[f]) : var[2] <= parser.at /\ var[2] \in Nat
            BY <1>1, <1>7, Parts DEF InOrder
        <3>2. \A var \in ToSet(parser'.locals[f]) : var \in ToSet(parser.locals[f]) \/ var = id
            BY <1>7, <1>10
        <3> QED BY <1>6, <1>17, <3>1, <3>2
    <2>5. \A j, k \in DOMAIN parents : j < k => parents[j].place < parents[k].place
        BY <1>1 DEF InOrder
    <2> QED BY <2>1, <2>2, <2>3, <2>4, <2>5 DEF InOrder
<1>14. FunctionsKnown'
    BY <1>1, <1>7 DEF FunctionsKnown
<1>15. HeldByOne'
    <2> SUFFICES ASSUME NEW i \in DOMAIN parser'.vars, NEW k \in DOMAIN parents,
                        parser'.vars[i].scope = parents[k]
                 PROVE  \E j \in 1..k :
                          /\ parents[j].nt = "function"
                          /\ {f \in DOMAIN parser'.locals : parser'.vars[i].name \in ToSet(parser'.locals[f])} = {parents[j]}
        BY DEF HeldByOne, Holders
    <2>1. CASE i = n + 1
        <3>1. k = m
            <4>1. parents[k].place = parents[m].place
                BY <1>8, <1>9, <2>1
            <4> SUFFICES ASSUME k < m PROVE FALSE
                BY <1>3
            <4>2. parents[k].place < parents[m].place /\ parents[k].place \in Nat
                BY <1>1, <1>3, <1>8, Parts DEF InOrder
            <4> QED BY <4>1, <4>2
        <3>2. parser'.vars[i].name = id
            BY <1>8, <1>9, <2>1
        <3>3. \A f \in DOMAIN parser.locals : id \in ToSet(parser'.locals[f]) <=> f = func
            BY <1>10, <1>11
        <3>4. {f \in DOMAIN parser'.locals : id \in ToSet(parser'.locals[f])} = {func}
            BY <1>5, <1>7, <3>3
        <3> QED BY <1>4, <3>1, <3>2, <3>4 DEF func
    <2>2. CASE i # n + 1
        <3>1. i \in 1..n /\ parser'.vars[i] = parser.vars[i]
            BY <1>9, <2>2
        <3> DEFINE w == parser.vars[i].name
        <3>2. PICK j \in 1..k : parents[j].nt = "function" /\ Holders(w) = {parents[j]}
            <4>1. i \in DOMAIN parser.vars /\ k \in DOMAIN parents /\ w = parser.vars[i].name
                  /\ parser.vars[i].scope = parents[k]
                BY <1>9, <3>1
            <4>2. HeldByOne
                BY <1>1
            <4> QED BY <4>1, <4>2 DEF HeldByOne
        <3>3. w[2] <= parser.at /\ w[2] \in Nat
            BY <1>1, <1>9, <3>1, Parts DEF InOrder
        <3>4. w # id
            BY <1>3, <1>6, <3>3
        <3> HIDE DEF w
        <3>5. \A f \in DOMAIN parser.locals : w \in ToSet(parser'.locals[f]) <=> w \in ToSet(parser.locals[f])
            BY <1>10, <3>4
        <3>6. {f \in DOMAIN parser'.locals : w \in ToSet(parser'.locals[f])} = Holders(w)
            BY <1>7, <3>5 DEF Holders
        <3> QED BY <3>1, <3>2, <3>6 DEF w
    <2> QED BY <2>1, <2>2
<1>16. CallsAgree'
    BY <1>1, <1>7, StillAgree
<1> QED BY <1>12, <1>13, <1>14, <1>15, <1>16 DEF IInv

\* A scope ends: what is left of the scopes around is as it was.
LEMMA EndKeeps ==
    ASSUME IInv, parents # << >>, parents' = Front(parents), header' = FALSE,
           parser' \in ParserSet, parser'.at = parser.at, parser'.vars = parser.vars,
           parser'.locals = parser.locals, calls' = calls, CallsAgree'
    PROVE  IInv'
<1> DEFINE n == Len(parents)
<1>1. Types /\ InOrder /\ FunctionsKnown /\ HeldByOne /\ CallsAgree
    BY DEF IInv
<1>2. parents \in Seq(ScopeSet) /\ n \in Nat /\ DOMAIN parents = 1..n /\ n > 0
    BY <1>1, Parts, EmptySeq
<1>3. parents' = SubSeq(parents, 1, n - 1)
    BY DEF Front
<1>4. \A i \in 1..(n - 1) : parents[i] \in ScopeSet
    BY <1>2, ElementOfSeq
<1>5. /\ parents' \in Seq(ScopeSet) /\ Len(parents') = n - 1
      /\ \A k \in 1..(n - 1) : parents'[k] = parents[k]
    <2>1. 1 \in Int /\ n - 1 \in Int
        BY <1>2
    <2>2. /\ SubSeq(parents, 1, n - 1) \in Seq(ScopeSet)
          /\ Len(SubSeq(parents, 1, n - 1)) = IF 1 <= n - 1 THEN (n - 1) - 1 + 1 ELSE 0
          /\ \A i \in 1..((n - 1) - 1 + 1) : SubSeq(parents, 1, n - 1)[i] = parents[1 + i - 1]
        BY <1>4, <2>1, SubSeqProperties
    <2> QED BY <1>2, <1>3, <2>2
<1>6. DOMAIN parents' = 1..(n - 1)
    BY <1>5, LenProperties
<1>7. \A k \in DOMAIN parents' : k \in DOMAIN parents /\ parents'[k] = parents[k]
    BY <1>2, <1>5, <1>6
<1>8. Types'
    BY <1>1, <1>5 DEF Types
<1>9. InOrder'
    BY <1>1, <1>7 DEF InOrder
<1>10. FunctionsKnown'
    BY <1>1, <1>7 DEF FunctionsKnown
<1>11. HeldByOne'
    <2> SUFFICES ASSUME NEW i \in DOMAIN parser.vars, NEW k \in DOMAIN parents',
                        parser.vars[i].scope = parents'[k]
                 PROVE  \E j \in 1..k :
                          /\ parents'[j].nt = "function"
                          /\ {f \in DOMAIN parser.locals : parser.vars[i].name \in ToSet(parser.locals[f])} = {parents'[j]}
        BY DEF HeldByOne, Holders
    <2>1. PICK j \in 1..k : parents[j].nt = "function" /\ Holders(parser.vars[i].name) = {parents[j]}
        BY <1>1, <1>7 DEF HeldByOne
    <2>2. j \in 1..(n - 1)
        BY <1>2, <1>6
    <2> QED BY <1>5, <2>1, <2>2 DEF Holders
<1> QED BY <1>8, <1>9, <1>10, <1>11 DEF IInv

\* A call is given the first function of its name and number of arguments,
\* which is made for it if there is none.
LEMMA CallKeeps ==
    ASSUME IInv, NEW name \in Functions, NEW argc \in Arities,
           parser' = get_function(parser, name, argc),
           calls' = calls \cup {[name |-> name, argc |-> argc, node |-> Given(name, argc)]},
           UNCHANGED <<parents, header>>
    PROVE  IInv'
<1> DEFINE f == [name |-> name, argc |-> argc, type |-> "external"]
           call == [name |-> name, argc |-> argc, node |-> Given(name, argc)]
           known == FindFunction(parser, name, argc)
<1>1. Types /\ InOrder /\ FunctionsKnown /\ HeldByOne /\ CallsAgree
    BY DEF IInv
<1>2. parser \in ParserSet /\ parser.functions \in Seq(FunctionSet)
    BY <1>1, Parts, LocalsKnown
<1>3. known \in 0..Len(parser.functions) /\ Len(parser.functions) \in Nat
    BY <1>2, FindFunctionIsFirst, LenProperties
<1>4. CASE known > 0
    <2>1. parser' = parser
        BY <1>4 DEF get_function
    <2>2. Given(name, argc) = known
        BY <1>4 DEF Given
    <2>3. call \in CallSet
        BY <1>3, <1>4, <2>2 DEF CallSet
    <2>4. Types'
        BY <1>1, <2>1, <2>3 DEF Types
    <2>5. InOrder' /\ FunctionsKnown' /\ HeldByOne'
        BY <1>1, <2>1 DEF InOrder, FunctionsKnown, HeldByOne, Holders
    <2>6. ASSUME NEW c \in calls' PROVE c.node = FindFunction(parser, c.name, c.argc)
        <3>1. CASE c \in calls
            BY <1>1, <3>1 DEF CallsAgree
        <3>2. CASE c = call
            BY <2>2, <3>2
        <3> QED BY <3>1, <3>2
    <2>7. CallsAgree'
        BY <1>1, <2>1, <2>6 DEF CallsAgree
    <2> QED BY <2>4, <2>5, <2>7 DEF IInv
<1>5. CASE known = 0
    <2>1. parser' = add_function(parser, name, argc, "external")
        BY <1>5 DEF get_function
    <2>2. /\ parser' \in ParserSet /\ parser'.at = parser.at /\ parser'.vars = parser.vars
          /\ parser'.locals = parser.locals
          /\ parser'.functions = Append(parser.functions, f) /\ f \in FunctionSet
        <3> DEFINE q == add_function(parser, name, argc, "external")
        <3>1. parser' = q
            BY <2>1
        <3>2. /\ q \in ParserSet /\ q.at = parser.at /\ q.vars = parser.vars /\ q.locals = parser.locals
              /\ q.functions = Append(parser.functions, f) /\ f \in FunctionSet
            BY <1>2, AddFields
        <3> HIDE DEF q, f
        <3> QED BY <3>1, <3>2
    <2>3. Given(name, argc) = Len(parser'.functions)
        BY <1>5 DEF Given
    <2>4. Len(parser'.functions) = Len(parser.functions) + 1
        BY <1>2, <2>2, AppendProperties
    <2>5. call \in CallSet
        BY <1>3, <2>3, <2>4 DEF CallSet
    <2>6. f.name = name /\ f.argc = argc
        OBVIOUS
    <2> HIDE DEF f
    <2>7. FindFunction(parser', name, argc) = Len(parser'.functions)
        BY <1>2, <1>5, <2>2, <2>6, FindAfterAdd
    <2>8. Types'
        BY <1>1, <2>2, <2>5 DEF Types
    <2>9. InOrder' /\ FunctionsKnown' /\ HeldByOne'
        BY <1>1, <2>2 DEF InOrder, FunctionsKnown, HeldByOne, Holders
    <2>10. /\ \A c \in calls : c.node = FindFunction(parser', c.name, c.argc)
           /\ \A i, j \in DOMAIN parser'.functions :
                i < j /\ SameFunction(parser'.functions[i], parser'.functions[j]) =>
                    parser'.functions[j].type = "full_link"
        BY <1>1, <1>5, <2>2, <2>6, AgreeAfterAdd
    <2>11. ASSUME NEW c \in calls' PROVE c.node = FindFunction(parser', c.name, c.argc)
        <3>1. CASE c \in calls
            BY <2>10, <3>1
        <3>2. CASE c = call
            BY <2>3, <2>7, <3>2
        <3> QED BY <3>1, <3>2
    <2>12. CallsAgree'
        BY <2>10, <2>11 DEF CallsAgree
    <2> QED BY <2>8, <2>9, <2>12 DEF IInv
<1> QED BY <1>3, <1>4, <1>5

LEMMA InitKeeps == Init => IInv
<1> SUFFICES ASSUME Init PROVE IInv
    OBVIOUS
<1>1. /\ parser.at = 0 /\ parser.vars = << >> /\ parser.locals = << >> /\ parser.functions = << >>
      /\ parents = << >> /\ header = FALSE /\ calls = {}
    BY DEF Init
<1>2. DOMAIN << >> = {}
    OBVIOUS
<1>3. << >> \in [{} -> Seq(VarName)]
    OBVIOUS
<1>4. << >> \in LocalsSet
    <2>1. {} \in SUBSET ScopeSet
        OBVIOUS
    <2> QED BY <1>3, <2>1 DEF LocalsSet
<1>5. parser \in ParserSet
    BY <1>4 DEF Init, ParserSet
<1>6. Types
    <2>1. << >> \in Seq(ScopeSet) /\ {} \subseteq CallSet
        BY EmptySeq
    <2> QED BY <1>1, <1>5, <2>1 DEF Types
<1>7. InOrder /\ FunctionsKnown /\ HeldByOne /\ CallsAgree
    BY <1>1, <1>2 DEF InOrder, FunctionsKnown, HeldByOne, CallsAgree
<1> QED BY <1>6, <1>7 DEF IInv

LEMMA StepKeeps == IInv /\ [Next]_vars => IInv'
<1> SUFFICES ASSUME IInv, [Next]_vars PROVE IInv'
    OBVIOUS
<1>1. Types /\ InOrder /\ FunctionsKnown /\ HeldByOne /\ CallsAgree
    BY DEF IInv
<1>2. parser \in ParserSet /\ parser.at \in Nat /\ Read.at = parser.at + 1
    BY <1>1, Parts, ReadFields
<1>3. \A nt \in {"function", "block"} : Scope(nt, Read) \in ScopeSet
                /\ Scope(nt, Read).place = parser.at + 1 /\ Scope(nt, Read).nt = nt
    BY <1>2 DEF Scope, ScopeSet
<1>4. CASE parse_function
    <2> DEFINE func == Scope("function", Read)
    <2>1. func \in ScopeSet /\ func.place = parser.at + 1 /\ func.nt = "function"
        BY <1>3
    <2>2. /\ parser' = begin_locals(Read, func) /\ parents' = Append(parents, func)
          /\ header' = TRUE /\ calls' = calls
        BY <1>4 DEF parse_function
    <2> HIDE DEF func
    <2> QED BY <2>1, <2>2, OpenKeeps
<1>5. CASE Parameter
    <2>1. PICK name \in Names : parser' = declare(Read, parents, <<name, Read.at>>)
        BY <1>5 DEF Parameter
    <2>2. header /\ UNCHANGED <<parents, header, calls>>
        BY <1>5 DEF Parameter
    <2>3. parents # << >> /\ parents[Len(parents)].nt = "function"
        BY <1>1, <2>2 DEF FunctionsKnown
    <2>4. Len(parents) \in DOMAIN parents
        BY <1>1, <2>3, Parts, EmptySeq
    <2> QED BY <2>1, <2>2, <2>3, <2>4, DeclareKeeps
<1>6. CASE Colon
    <2>1. header' = FALSE /\ UNCHANGED <<parser, parents, calls>>
        BY <1>6 DEF Colon
    <2>2. Types'
        BY <1>1, <2>1 DEF Types
    <2>3. InOrder' /\ FunctionsKnown' /\ HeldByOne'
        BY <1>1, <2>1 DEF InOrder, FunctionsKnown, HeldByOne, Holders
    <2>4. CallsAgree'
        BY <1>1, <2>1, StillAgree
    <2> QED BY <2>2, <2>3, <2>4 DEF IInv
<1>7. CASE parse_block
    <2> DEFINE block == Scope("block", Read)
    <2>1. block \in ScopeSet /\ block.place = parser.at + 1 /\ block.nt = "block"
        BY <1>3
    <2>2. /\ parser' = Read /\ parents' = Append(parents, block)
          /\ header' = FALSE /\ calls' = calls
        BY <1>1, <1>7 DEF parse_block, Types
    <2> HIDE DEF block
    <2> QED BY <2>1, <2>2, OpenKeeps
<1>8. CASE parse_var
    <2>1. PICK name \in Names : parser' = declare(Read, parents, <<name, Read.at>>)
        BY <1>8 DEF parse_var
    <2>2. UNCHANGED <<parents, header, calls>>
        BY <1>8 DEF parse_var
    <2>3. \E k \in DOMAIN parents : parents[k].nt = "function"
        BY <1>8 DEF parse_var, ToSet
    <2> QED BY <2>1, <2>2, <2>3, DeclareKeeps
<1>9. CASE parse_function_call
    <2>1. PICK name \in Functions, argc \in Arities :
            /\ parser' = get_function(parser, name, argc)
            /\ calls' = calls \cup {[name |-> name, argc |-> argc, node |-> Given(name, argc)]}
        BY <1>9 DEF parse_function_call
    <2>2. UNCHANGED <<parents, header>>
        BY <1>9 DEF parse_function_call
    <2> QED BY <2>1, <2>2, CallKeeps
<1>10. CASE end_block
    <2>1. /\ parents # << >> /\ parents' = Front(parents) /\ header' = FALSE
          /\ UNCHANGED <<parser, calls>>
        BY <1>1, <1>10 DEF end_block, Ends, Types
    <2>2. CallsAgree'
        BY <1>1, <2>1, StillAgree
    <2> QED BY <1>2, <2>1, <2>2, EndKeeps
<1>11. CASE end_function
    <2>1. PICK name \in Functions, argc \in Arities : parser' = add_function(parser, name, argc, "full_link")
        BY <1>11 DEF end_function
    <2>2. parents # << >> /\ parents' = Front(parents) /\ header' = FALSE /\ calls' = calls
        BY <1>1, <1>11 DEF end_function, Ends, Types
    <2> DEFINE f == [name |-> name, argc |-> argc, type |-> "full_link"]
    <2>3. /\ parser' \in ParserSet /\ parser'.at = parser.at /\ parser'.vars = parser.vars
          /\ parser'.locals = parser.locals
          /\ parser'.functions = Append(parser.functions, f) /\ f \in FunctionSet
        BY <1>2, <2>1, AddFields
    <2>4. f.type = "full_link"
        OBVIOUS
    <2> HIDE DEF f
    <2>5. /\ \A c \in calls : c.node = FindFunction(parser', c.name, c.argc)
          /\ \A i, j \in DOMAIN parser'.functions :
                i < j /\ SameFunction(parser'.functions[i], parser'.functions[j]) =>
                    parser'.functions[j].type = "full_link"
        BY <1>1, <2>3, <2>4, AgreeAfterAdd
    <2>6. CallsAgree'
        BY <2>2, <2>5 DEF CallsAgree
    <2> QED BY <2>2, <2>3, <2>6, EndKeeps
<1>12. CASE refuse_function
    <2>1. /\ parents # << >> /\ parents' = Front(parents) /\ header' = FALSE
          /\ UNCHANGED <<parser, calls>>
        BY <1>12 DEF refuse_function, Ends
    <2>2. CallsAgree'
        BY <1>1, <2>1, StillAgree
    <2> QED BY <1>2, <2>1, <2>2, EndKeeps
<1>13. CASE UNCHANGED vars
    <2>1. UNCHANGED <<parser, parents, header, calls>>
        BY <1>13 DEF vars
    <2>2. Types'
        BY <1>1, <2>1 DEF Types
    <2>3. InOrder' /\ FunctionsKnown' /\ HeldByOne'
        BY <1>1, <2>1 DEF InOrder, FunctionsKnown, HeldByOne, Holders
    <2>4. CallsAgree'
        BY <1>1, <2>1, StillAgree
    <2> QED BY <2>2, <2>3, <2>4 DEF IInv
<1> QED BY <1>4, <1>5, <1>6, <1>7, <1>8, <1>9, <1>10, <1>11, <1>12, <1>13 DEF Next

LEMMA Invariance == Spec => []IInv
<1>1. IInv /\ [Next]_vars => IInv'
    BY StepKeeps
<1> QED BY InitKeeps, <1>1, PTL DEF Spec

\* The calls of one name and number of arguments have the same node, now and
\* after any other: get_function (parser.cpp:172) finds what it or a function's
\* end has added first.
THEOREM CallsOfOneNode == Spec => []CallsAgree
<1>1. IInv => CallsAgree
    BY DEF IInv
<1> QED BY Invariance, <1>1, PTL

\* What a name means is in one function's local variables, however functions
\* and blocks are nested: parse_var's own walk (parser.cpp:963) comes to a
\* function that get_var's passes too.
THEOREM LocalNames == Spec => []LocalToOne
<1>1. IInv => LocalToOne
    <2> SUFFICES ASSUME IInv, NEW name \in Names, Meaning(parents, name) # << >>
                 PROVE  \E func \in ToSet(parents) :
                            func.nt = "function" /\ Holders(Meaning(parents, name)) = {func}
        BY DEF LocalToOne
    <2>1. Types /\ HeldByOne
        BY DEF IInv
    <2>2. /\ parser.vars \in Seq(VarSet) /\ DOMAIN parser.vars = 1..Len(parser.vars)
          /\ parents \in Seq(ScopeSet) /\ DOMAIN parents = 1..Len(parents) /\ Len(parents) \in Nat
        BY <2>1, Parts
    <2>3. Meaning(parents, name) = MeaningIn(parser, parents, name)
        BY MeaningIs
    <2>4. PICK i \in 1..Len(parser.vars), k \in 1..Len(parents) :
            Matches(parser.vars[i], parents[k], name) /\ parser.vars[i].name = Meaning(parents, name)
        BY <2>2, <2>3, MeaningIsDeclared
    <2>5. parser.vars[i].scope = parents[k]
        BY <2>4 DEF Matches
    <2>6. PICK j \in 1..k : parents[j].nt = "function" /\ Holders(parser.vars[i].name) = {parents[j]}
        BY <2>1, <2>2, <2>5 DEF HeldByOne
    <2>7. j \in DOMAIN parents
        BY <2>2
    <2>8. parents[j] \in ToSet(parents)
        BY <2>7 DEF ToSet
    <2> QED BY <2>4, <2>6, <2>8
<1> QED BY Invariance, <1>1, PTL

-----------------------------------------------------------------------------
(* Scoping implements Environment                                            *)

Values == VarName \cup {<< >>}
Block == [Names -> Values]

\* The scopes around a node's k-th one.
Above(P, k) == SubSeq(P, 1, k - 1)

\* As Meanings, of any state of the parser.
MeaningsIn(p, P) ==
    [k \in 1..(Len(P) + 1) |-> [name \in Names |-> MeaningIn(p, Above(P, k), name)]]

LEMMA MeaningsAre ==
    /\ Meanings = MeaningsIn(parser, parents)
    /\ Meanings' = MeaningsIn(parser', parents')
<1>1. \A parent, name : Meaning(parent, name) = MeaningIn(parser, parent, name)
    BY MeaningIs
<1>2. \A parent, name : Meaning(parent, name)' = MeaningIn(parser', parent, name)
    BY GetVarIs DEF Meaning
<1>3. Meanings = [k \in 1..(Len(parents) + 1) |-> [name \in Names |-> Meaning(Above(parents, k), name)]]
    BY DEF Meanings, Above
<1>4. Meanings' = [k \in 1..(Len(parents') + 1) |-> [name \in Names |-> MeaningIn(parser', Above(parents', k), name)]]
    BY GetVarIs DEF Meanings, Meaning, Above
<1> QED BY <1>1, <1>3, <1>4 DEF MeaningsIn

LEMMA AboveIs ==
    ASSUME NEW P \in Seq(ScopeSet), NEW k \in 1..(Len(P) + 1)
    PROVE  /\ Above(P, k) \in Seq(ScopeSet) /\ Len(Above(P, k)) = k - 1
           /\ \A i \in 1..(k - 1) : Above(P, k)[i] = P[i]
<1>1. Len(P) \in Nat
    BY LenProperties
<1>2. 1 \in Int /\ k - 1 \in Int /\ k - 1 <= Len(P)
    BY <1>1
<1>3. \A i \in 1..(k - 1) : P[i] \in ScopeSet
    BY <1>1, <1>2, ElementOfSeq
<1>4. /\ SubSeq(P, 1, k - 1) \in Seq(ScopeSet)
      /\ Len(SubSeq(P, 1, k - 1)) = IF 1 <= k - 1 THEN (k - 1) - 1 + 1 ELSE 0
      /\ \A i \in 1..((k - 1) - 1 + 1) : SubSeq(P, 1, k - 1)[i] = P[1 + i - 1]
    BY <1>2, <1>3, SubSeqProperties
<1> QED BY <1>1, <1>4 DEF Above

LEMMA AboveOfAppend ==
    ASSUME NEW P \in Seq(ScopeSet), NEW scope \in ScopeSet
    PROVE  /\ \A k \in 1..(Len(P) + 1) : Above(Append(P, scope), k) = Above(P, k)
           /\ Above(Append(P, scope), Len(P) + 2) = Append(P, scope)
<1> DEFINE Q == Append(P, scope)
           n == Len(P)
<1>1. /\ Q \in Seq(ScopeSet) /\ Len(Q) = n + 1 /\ n \in Nat
      /\ \A k \in 1..n : Q[k] = P[k]
    BY AppendProperties, LenProperties
<1> HIDE DEF Q
<1>2. ASSUME NEW k \in 1..(n + 1) PROVE Above(Q, k) = Above(P, k)
    <2>1. k \in 1..(Len(Q) + 1)
        BY <1>1
    <2>2. /\ Above(P, k) \in Seq(ScopeSet) /\ Len(Above(P, k)) = k - 1
          /\ \A i \in 1..(k - 1) : Above(P, k)[i] = P[i]
        BY AboveIs
    <2>3. /\ Above(Q, k) \in Seq(ScopeSet) /\ Len(Above(Q, k)) = k - 1
          /\ \A i \in 1..(k - 1) : Above(Q, k)[i] = Q[i]
        BY <1>1, <2>1, AboveIs
    <2>4. \A i \in 1..(k - 1) : Q[i] = P[i]
        BY <1>1
    <2>5. \A i \in 1..Len(Above(Q, k)) : Above(Q, k)[i] = Above(P, k)[i]
        BY <2>2, <2>3, <2>4
    <2>6. Len(Above(Q, k)) = Len(Above(P, k))
        BY <2>2, <2>3
    <2> QED BY <2>2, <2>3, <2>5, <2>6, SeqEqual
<1>3. Above(Q, n + 2) = Q
    <2>1. n + 2 \in 1..(Len(Q) + 1) /\ (n + 2) - 1 = Len(Q)
        BY <1>1
    <2>2. /\ Above(Q, n + 2) \in Seq(ScopeSet) /\ Len(Above(Q, n + 2)) = Len(Q)
          /\ \A i \in 1..Len(Q) : Above(Q, n + 2)[i] = Q[i]
        BY <1>1, <2>1, AboveIs
    <2> QED BY <1>1, <2>2, SeqEqual
<1> QED BY <1>2, <1>3 DEF Q

\* All scopes around, and the walk's last step.
LEMMA AboveLast ==
    ASSUME NEW P \in Seq(ScopeSet), Len(P) > 0
    PROVE  Above(P, Len(P) + 1) = P /\ P = Append(Above(P, Len(P)), P[Len(P)]) /\ P[Len(P)] \in ScopeSet
<1> DEFINE n == Len(P)
           A == Above(P, n)
           B == Above(P, n + 1)
<1>1. n \in Nat /\ n \in 1..(n + 1) /\ n + 1 \in 1..(n + 1) /\ n \in 1..n
    BY LenProperties
<1>2. A \in Seq(ScopeSet) /\ Len(A) = n - 1 /\ \A i \in 1..(n - 1) : A[i] = P[i]
    BY <1>1, AboveIs
<1>3. B \in Seq(ScopeSet) /\ Len(B) = (n + 1) - 1 /\ \A i \in 1..((n + 1) - 1) : B[i] = P[i]
    BY <1>1, AboveIs
<1>4. P[n] \in ScopeSet
    BY <1>1, ElementOfSeq
<1> DEFINE C == Append(A, P[n])
<1>5. /\ C \in Seq(ScopeSet) /\ Len(C) = Len(A) + 1
      /\ \A i \in 1..Len(A) : C[i] = A[i]
      /\ C[Len(A) + 1] = P[n]
    BY <1>2, <1>4, AppendProperties
<1> HIDE DEF A, B, C
<1>6. B = P
    <2>1. Len(B) = n /\ \A i \in 1..Len(B) : B[i] = P[i]
        BY <1>1, <1>3
    <2> QED BY <1>3, <2>1, SeqEqual
<1>7. C = P
    <2>1. Len(C) = n
        BY <1>1, <1>2, <1>5
    <2>2. ASSUME NEW i \in 1..Len(C) PROVE C[i] = P[i]
        <3>1. CASE i = n
            BY <1>1, <1>2, <1>5, <3>1
        <3>2. CASE i # n
            <4>1. i \in 1..(n - 1)
                BY <1>1, <2>1, <3>2
            <4> QED BY <1>1, <1>2, <1>5, <4>1
        <3> QED BY <3>1, <3>2
    <2> QED BY <1>5, <2>1, <2>2, SeqEqual
<1> QED BY <1>4, <1>6, <1>7 DEF A, B, C

LEMMA MeaningIsValue ==
    ASSUME NEW p, p.vars \in Seq(VarSet), NEW P \in Seq(ScopeSet), NEW name
    PROVE  MeaningIn(p, P, name) \in Values
<1>1. CASE MeaningIn(p, P, name) = << >>
    BY <1>1 DEF Values
<1>2. CASE MeaningIn(p, P, name) # << >>
    <2>1. PICK i \in 1..Len(p.vars) : p.vars[i].name = MeaningIn(p, P, name)
        BY <1>2, MeaningIsDeclared
    <2>2. p.vars[i] \in VarSet
        BY ElementOfSeq
    <2>3. p.vars[i].name \in VarName
        BY <2>2 DEF VarSet
    <2> QED BY <2>1, <2>3 DEF Values
<1> QED BY <1>1, <1>2

LEMMA MeaningsType ==
    ASSUME NEW p, p.vars \in Seq(VarSet), NEW P \in Seq(ScopeSet)
    PROVE  /\ MeaningsIn(p, P) \in Seq(Block) /\ Len(MeaningsIn(p, P)) = Len(P) + 1 /\ Len(P) \in Nat
           /\ \A k \in 1..(Len(P) + 1), name \in Names :
                MeaningsIn(p, P)[k][name] = MeaningIn(p, Above(P, k), name)
           /\ \A k \in 1..(Len(P) + 1) : MeaningsIn(p, P)[k] \in Block
<1> DEFINE n == Len(P) + 1
           B(k) == [name \in Names |-> MeaningIn(p, Above(P, k), name)]
           M == [k \in 1..n |-> B(k)]
<1>1. n \in Nat /\ Len(P) \in Nat
    BY LenProperties
<1>2. ASSUME NEW k \in 1..n PROVE B(k) \in Block
    <2>1. Above(P, k) \in Seq(ScopeSet)
        BY AboveIs
    <2>2. \A name \in Names : MeaningIn(p, Above(P, k), name) \in Values
        BY <2>1, MeaningIsValue
    <2> QED BY <2>2 DEF Block
<1>3. MeaningsIn(p, P) = M
    BY DEF MeaningsIn
<1>4. \A k \in 1..n, name \in Names : M[k][name] = MeaningIn(p, Above(P, k), name)
    OBVIOUS
<1>5. \A k \in 1..n : M[k] = B(k)
    OBVIOUS
<1>6. M \in Seq(Block) /\ Len(M) = n
    <2> HIDE DEF n, B
    <2>1. M \in [1..n -> Block]
        BY <1>2
    <2>2. M \in Seq(Block)
        BY <1>1, <2>1
    <2>3. DOMAIN M = 1..n
        OBVIOUS
    <2> QED BY <1>1, <2>2, <2>3, LenProperties
<1>7. \A k \in 1..n : M[k] \in Block
    BY <1>2, <1>5
<1> HIDE DEF M
<1> QED BY <1>1, <1>3, <1>4, <1>6, <1>7

\* Blocks are the same if every name means the same in them.
LEMMA SameBlock ==
    ASSUME NEW b \in Block, NEW c \in Block, \A name \in Names : b[name] = c[name]
    PROVE  b = c
BY DEF Block

\* Names mean what they did where the variables are the same.
LEMMA SameVars ==
    ASSUME NEW p, NEW q, q.vars = p.vars, NEW P \in Seq(ScopeSet), NEW name
    PROVE  MeaningIn(q, P, name) = MeaningIn(p, P, name)
<1>1. \A scope : InScope(q, scope, name) = InScope(p, scope, name)
    BY DEF InScope
<1>2. \A scope : Known(q, scope, name) <=> Known(p, scope, name)
    BY <1>1 DEF Known
<1>3. \A scope : FoundIn(q, scope, name) = FoundIn(p, scope, name)
    BY <1>1 DEF FoundIn
<1> QED BY <1>2, <1>3, SameMeaning

\* In a scope that begins, names mean what they mean around it.
LEMMA BeginStep ==
    ASSUME NEW p, NEW q, q.vars = p.vars, p.vars \in Seq(VarSet),
           NEW P \in Seq(ScopeSet), NEW scope \in ScopeSet,
           \A i \in 1..Len(p.vars) : p.vars[i].scope # scope
    PROVE  MeaningsIn(q, Append(P, scope)) =
             Append(MeaningsIn(p, P), MeaningsIn(p, P)[Len(MeaningsIn(p, P))])
<1> DEFINE Q == Append(P, scope)
           n == Len(P)
           M == MeaningsIn(p, P)
           N == MeaningsIn(q, Q)
           A == Append(M, M[Len(M)])
<1>1. Q \in Seq(ScopeSet) /\ Len(Q) = n + 1 /\ n \in Nat
    BY AppendProperties, LenProperties
<1>2. /\ \A k \in 1..(n + 1) : Above(Q, k) = Above(P, k)
      /\ Above(Q, n + 2) = Q
    BY AboveOfAppend
<1> HIDE DEF Q
<1>3. /\ M \in Seq(Block) /\ Len(M) = n + 1
      /\ \A k \in 1..(n + 1), name \in Names : M[k][name] = MeaningIn(p, Above(P, k), name)
      /\ \A k \in 1..(n + 1) : M[k] \in Block
    BY MeaningsType
<1>4. /\ N \in Seq(Block) /\ Len(N) = (n + 1) + 1
      /\ \A k \in 1..((n + 1) + 1), name \in Names : N[k][name] = MeaningIn(q, Above(Q, k), name)
      /\ \A k \in 1..((n + 1) + 1) : N[k] \in Block
    <2>1. q.vars \in Seq(VarSet) /\ Len(Q) = n + 1
        BY <1>1
    <2> HIDE DEF n
    <2>2. /\ N \in Seq(Block) /\ Len(N) = Len(Q) + 1
          /\ \A k \in 1..(Len(Q) + 1), name \in Names : N[k][name] = MeaningIn(q, Above(Q, k), name)
          /\ \A k \in 1..(Len(Q) + 1) : N[k] \in Block
        BY <1>1, <2>1, MeaningsType
    <2> QED BY <2>1, <2>2
<1>5. Above(P, n + 1) = P
    <2>1. n + 1 \in 1..(n + 1)
        BY <1>1
    <2>2. /\ Above(P, n + 1) \in Seq(ScopeSet) /\ Len(Above(P, n + 1)) = (n + 1) - 1
          /\ \A i \in 1..((n + 1) - 1) : Above(P, n + 1)[i] = P[i]
        BY <2>1, AboveIs
    <2>3. Len(Above(P, n + 1)) = n /\ \A i \in 1..Len(Above(P, n + 1)) : Above(P, n + 1)[i] = P[i]
        BY <1>1, <2>2
    <2> QED BY <2>2, <2>3, SeqEqual
<1>6. \A name : MeaningIn(q, Q, name) = MeaningIn(p, P, name)
    <2> TAKE name
    <2>1. InScope(p, scope, name) = 0
        <3>1. /\ InScope(p, scope, name) \in 0..Len(p.vars)
              /\ InScope(p, scope, name) > 0 => Matches(p.vars[InScope(p, scope, name)], scope, name)
            BY InScopeIsFirst
        <3>2. Len(p.vars) \in Nat
            BY LenProperties
        <3> QED BY <3>1, <3>2 DEF Matches
    <2>2. ~Known(p, scope, name)
        BY <2>1 DEF Known
    <2>3. MeaningIn(p, Q, name) = MeaningIn(p, P, name)
        BY <2>2, MeaningOfAppend DEF Q
    <2>4. MeaningIn(q, Q, name) = MeaningIn(p, Q, name)
        BY <1>1, SameVars
    <2> QED BY <2>3, <2>4
<1>7. M[n + 1] \in Block /\ Len(M) = n + 1
    BY <1>1, <1>3
<1>8. /\ A \in Seq(Block) /\ Len(A) = (n + 1) + 1
      /\ \A k \in 1..(n + 1) : A[k] = M[k]
      /\ A[(n + 1) + 1] = M[n + 1]
    BY <1>3, <1>7, AppendProperties
<1> HIDE DEF n, Q, M, N, A
<1>9. ASSUME NEW k \in 1..((n + 1) + 1) PROVE N[k] = A[k]
    <2>1. CASE k = n + 2
        <3>1. \A name \in Names : N[k][name] = MeaningIn(q, Q, name)
            BY <1>1, <1>2, <1>4, <2>1
        <3>2. \A name \in Names : M[n + 1][name] = MeaningIn(p, P, name)
            BY <1>1, <1>3, <1>5
        <3>3. A[k] = M[n + 1] /\ A[k] \in Block
            BY <1>1, <1>7, <1>8, <2>1
        <3>4. N[k] \in Block
            BY <1>4
        <3>5. \A name \in Names : N[k][name] = A[k][name]
            BY <1>6, <3>1, <3>2, <3>3
        <3> QED BY <3>3, <3>4, <3>5, SameBlock
    <2>2. CASE k # n + 2
        <3>1. k \in 1..(n + 1)
            BY <1>1, <2>2
        <3>2. \A name \in Names : N[k][name] = MeaningIn(q, Above(P, k), name)
            BY <1>2, <1>4, <3>1
        <3>3. Above(P, k) \in Seq(ScopeSet)
            BY <3>1, AboveIs DEF n
        <3>4. \A name \in Names : N[k][name] = M[k][name]
            BY <1>3, <3>1, <3>2, <3>3, SameVars
        <3>5. N[k] \in Block /\ M[k] \in Block
            BY <1>3, <1>4, <3>1
        <3> QED BY <1>8, <3>1, <3>4, <3>5, SameBlock
    <2> QED BY <2>1, <2>2
<1>10. N = A
    BY <1>4, <1>8, <1>9, SeqEqual
<1> QED BY <1>10 DEF N, A, Q, M

\* When a scope ends, names mean again what they mean around it.
LEMMA EndStep ==
    ASSUME NEW p, NEW q, q.vars = p.vars, p.vars \in Seq(VarSet),
           NEW P \in Seq(ScopeSet), P # << >>
    PROVE  /\ Len(MeaningsIn(p, P)) > 1
           /\ MeaningsIn(q, Front(P)) = SubSeq(MeaningsIn(p, P), 1, Len(MeaningsIn(p, P)) - 1)
<1> DEFINE Q == Front(P)
           n == Len(P)
           M == MeaningsIn(p, P)
           N == MeaningsIn(q, Q)
           A == SubSeq(M, 1, Len(M) - 1)
<1>1. n \in Nat /\ n > 0 /\ n \in 1..(n + 1)
    BY LenProperties, EmptySeq
<1>2. Q = Above(P, n)
    BY DEF Front, Above
<1>3. Q \in Seq(ScopeSet) /\ Len(Q) = n - 1 /\ \A i \in 1..(n - 1) : Q[i] = P[i]
    BY <1>1, <1>2, AboveIs
<1>4. /\ M \in Seq(Block) /\ Len(M) = n + 1
      /\ \A k \in 1..(n + 1), name \in Names : M[k][name] = MeaningIn(p, Above(P, k), name)
      /\ \A k \in 1..(n + 1) : M[k] \in Block
    BY MeaningsType
<1>5. /\ N \in Seq(Block) /\ Len(N) = Len(Q) + 1
      /\ \A k \in 1..(Len(Q) + 1), name \in Names : N[k][name] = MeaningIn(q, Above(Q, k), name)
      /\ \A k \in 1..(Len(Q) + 1) : N[k] \in Block
    BY <1>3, MeaningsType
<1>6. /\ A \in Seq(Block) /\ Len(A) = n
      /\ \A k \in 1..n : A[k] = M[k]
    <2>1. 1 \in Int /\ n \in Int /\ Len(M) - 1 = n
        BY <1>1, <1>4
    <2>2. \A i \in 1..n : M[i] \in Block
        BY <1>1, <1>4
    <2>3. /\ SubSeq(M, 1, n) \in Seq(Block)
          /\ Len(SubSeq(M, 1, n)) = IF 1 <= n THEN n - 1 + 1 ELSE 0
          /\ \A i \in 1..(n - 1 + 1) : SubSeq(M, 1, n)[i] = M[1 + i - 1]
        BY <2>1, <2>2, SubSeqProperties
    <2> HIDE DEF M
    <2> QED BY <1>1, <2>1, <2>3
<1>7. ASSUME NEW k \in 1..n PROVE Above(Q, k) = Above(P, k)
    <2>1. k \in 1..(n + 1) /\ k \in 1..(Len(Q) + 1)
        BY <1>1, <1>3
    <2>2. /\ Above(P, k) \in Seq(ScopeSet) /\ Len(Above(P, k)) = k - 1
          /\ \A i \in 1..(k - 1) : Above(P, k)[i] = P[i]
        BY <2>1, AboveIs
    <2>3. /\ Above(Q, k) \in Seq(ScopeSet) /\ Len(Above(Q, k)) = k - 1
          /\ \A i \in 1..(k - 1) : Above(Q, k)[i] = Q[i]
        BY <1>3, <2>1, AboveIs
    <2>4. \A i \in 1..(k - 1) : Q[i] = P[i]
        BY <1>1, <1>3
    <2>5. \A i \in 1..Len(Above(Q, k)) : Above(Q, k)[i] = Above(P, k)[i]
        BY <2>2, <2>3, <2>4
    <2>6. Len(Above(Q, k)) = Len(Above(P, k))
        BY <2>2, <2>3
    <2> QED BY <2>2, <2>3, <2>5, <2>6, SeqEqual
<1>8. \A k \in 1..n : Above(P, k) \in Seq(ScopeSet)
    <2> TAKE k \in 1..n
    <2>1. k \in 1..(n + 1)
        BY <1>1
    <2> QED BY <2>1, AboveIs
<1> HIDE DEF n, Q, M, N, A
<1>9. Len(N) = n /\ Len(Q) + 1 = n
    BY <1>1, <1>3, <1>5
<1>10. ASSUME NEW k \in 1..n PROVE N[k] = A[k]
    <2>1. \A name \in Names : N[k][name] = MeaningIn(q, Above(P, k), name)
        BY <1>5, <1>7, <1>9
    <2>2. k \in 1..(n + 1)
        BY <1>1
    <2>3. \A name \in Names : N[k][name] = M[k][name]
        BY <1>4, <1>8, <2>1, <2>2, SameVars
    <2>4. N[k] \in Block /\ M[k] \in Block
        BY <1>4, <1>5, <1>9, <2>2
    <2> QED BY <1>6, <2>3, <2>4, SameBlock
<1>11. N = A
    BY <1>5, <1>6, <1>9, <1>10, SeqEqual
<1>12. Len(M) > 1
    BY <1>1, <1>4
<1> QED BY <1>11, <1>12 DEF N, A, Q, M

\* The variable v joins those of p.
Declares(p, v, q) == p.vars \in Seq(VarSet) /\ v \in VarSet /\ q.vars = Append(p.vars, v)

\* A declaration in another scope, or of another name, changes nothing, and of
\* a name that a scope has neither.
LEMMA Undisturbed ==
    ASSUME NEW p, NEW v, NEW q, Declares(p, v, q), NEW scope, NEW name,
           ~Matches(v, scope, name) \/ Known(p, scope, name)
    PROVE  /\ Known(q, scope, name) <=> Known(p, scope, name)
           /\ Known(p, scope, name) => FoundIn(q, scope, name) = FoundIn(p, scope, name)
<1> USE DEF Declares
<1>1. CASE Known(p, scope, name)
    BY <1>1, OldInScope
<1>2. CASE ~Known(p, scope, name)
    BY <1>2, StillUnknown
<1> QED BY <1>1, <1>2

LEMMA FirstDeclared ==
    ASSUME NEW p, NEW v, NEW q, Declares(p, v, q), NEW scope, NEW name,
           Matches(v, scope, name), ~Known(p, scope, name)
    PROVE  Known(q, scope, name) /\ FoundIn(q, scope, name) = v.name
BY NowKnown DEF Declares

\* No two scopes around the parser are the same, and no two variables.
Apart(p, P) ==
    /\ \A j, k \in 1..Len(P) : j < k => P[j] # P[k]
    /\ \A i, j \in 1..Len(p.vars) : i < j => p.vars[i].name # p.vars[j].name

\* What the scopes around the innermost make of the names, a declaration in it
\* leaves alone.
LEMMA AroundStays ==
    ASSUME NEW p, NEW v, NEW q, Declares(p, v, q), NEW P \in Seq(ScopeSet), Apart(p, P),
           Len(P) > 0, v.scope = P[Len(P)],
           NEW k \in 1..Len(P), NEW name
    PROVE  MeaningIn(q, Above(P, k), name) = MeaningIn(p, Above(P, k), name)
<1> DEFINE A == Above(P, k)
<1>1. Len(P) \in Nat
    BY LenProperties
<1>2. k \in 1..(Len(P) + 1)
    BY <1>1
<1>3. A \in Seq(ScopeSet) /\ Len(A) = k - 1 /\ \A i \in 1..(k - 1) : A[i] = P[i]
    BY <1>2, AboveIs
<1> HIDE DEF A
<1>4. ASSUME NEW i \in 1..Len(A)
      PROVE  /\ Known(q, A[i], name) <=> Known(p, A[i], name)
             /\ Known(p, A[i], name) => FoundIn(q, A[i], name) = FoundIn(p, A[i], name)
    <2>1. i \in 1..(k - 1) /\ i \in 1..Len(P) /\ i < Len(P) /\ Len(P) \in 1..Len(P)
        BY <1>1, <1>3
    <2>2. A[i] # P[Len(P)]
        BY <1>3, <2>1 DEF Apart
    <2>3. ~Matches(v, A[i], name)
        BY <2>2 DEF Matches
    <2> QED BY <2>3, Undisturbed
<1>5. MeaningIn(q, A, name) = MeaningIn(p, A, name)
    BY <1>3, <1>4, SameMeaning
<1> QED BY <1>5 DEF A

LEMMA PairsAreNot == \A var \in VarName : var # << >>
<1> SUFFICES ASSUME NEW a \in Names, NEW b \in Nat PROVE <<a, b>> # << >>
    BY DEF VarName
<1>1. Len(<<a, b>>) = 2 /\ Len(<< >>) = 0
    OBVIOUS
<1> QED BY <1>1

\* A name that the innermost scope has means something else around it.
LEMMA OwnMeaning ==
    ASSUME NEW p, NEW P \in Seq(ScopeSet), Apart(p, P), p.vars \in Seq(VarSet), Len(P) > 0, NEW name,
           Known(p, P[Len(P)], name)
    PROVE  MeaningIn(p, P, name) # MeaningIn(p, Above(P, Len(P)), name)
<1> DEFINE m == Len(P)
           A == Above(P, m)
           i == InScope(p, P[m], name)
           there == MeaningIn(p, A, name)
<1>1. m \in Nat /\ m \in 1..(m + 1) /\ m \in 1..m
    BY LenProperties
<1>2. A \in Seq(ScopeSet) /\ Len(A) = m - 1 /\ \A k \in 1..(m - 1) : A[k] = P[k]
    BY <1>1, AboveIs
<1>3. P = Append(A, P[m]) /\ P[m] \in ScopeSet
    BY AboveLast
<1>4. MeaningIn(p, P, name) = p.vars[i].name
    <2>1. MeaningIn(p, Append(A, P[m]), name) = FoundIn(p, P[m], name)
        BY <1>2, <1>3, MeaningOfAppend
    <2> QED BY <1>3, <2>1 DEF FoundIn
<1>5. i \in 1..Len(p.vars) /\ Matches(p.vars[i], P[m], name)
    <2>1. /\ i \in 0..Len(p.vars) /\ i > 0
          /\ Matches(p.vars[i], P[m], name)
        BY InScopeIsFirst DEF Known
    <2> QED BY <2>1, LenProperties
<1> HIDE DEF i, A, m, there
<1>6. p.vars[i].name \in VarName
    <2>1. p.vars[i] \in VarSet
        BY <1>5, ElementOfSeq
    <2> QED BY <2>1 DEF VarSet
<1>7. CASE there = << >>
    BY <1>4, <1>6, <1>7, PairsAreNot DEF there, A, m
<1>8. CASE there # << >>
    <2>1. PICK j \in 1..Len(p.vars), k \in 1..Len(A) :
            Matches(p.vars[j], A[k], name) /\ p.vars[j].name = there
        BY <1>2, <1>8, MeaningIsDeclared DEF there
    <2>2. k \in 1..m /\ k < m /\ A[k] = P[k]
        BY <1>1, <1>2
    <2>3. P[k] # P[m]
        BY <1>1, <2>2 DEF Apart, m
    <2>4. p.vars[j].scope # p.vars[i].scope
        BY <1>5, <2>1, <2>2, <2>3 DEF Matches
    <2>5. j # i /\ i \in Int /\ j \in Int
        BY <1>5, <2>4
    <2>6. p.vars[j].name # p.vars[i].name
        <3>1. CASE i < j
            BY <1>5, <3>1 DEF Apart
        <3>2. CASE j < i
            BY <1>5, <3>2 DEF Apart
        <3> QED BY <2>5, <3>1, <3>2
    <2> QED BY <1>4, <2>1, <2>6 DEF there, A, m
<1> QED BY <1>7, <1>8

\* A declaration gives the name its meaning in the innermost scope if it had
\* none there, and all names keep theirs otherwise.
LEMMA DeclareStep ==
    ASSUME NEW p, NEW v, NEW q, Declares(p, v, q), NEW P \in Seq(ScopeSet), Apart(p, P),
           Len(P) > 0, v.scope = P[Len(P)]
    PROVE  LET M == MeaningsIn(p, P)
               L == Len(M)
               n == v.name[1]
           IN  /\ L > 1 /\ n \in Names
               /\ MeaningsIn(q, P) = IF M[L][n] = M[L - 1][n]
                                     THEN [M EXCEPT ![L] = [M[L] EXCEPT ![n] = v.name]]
                                     ELSE M
<1> DEFINE M == MeaningsIn(p, P)
           N == MeaningsIn(q, P)
           L == Len(M)
           m == Len(P)
           n == v.name[1]
           scope == P[m]
<1>1. v.name \in VarName /\ n \in Names
    BY DEF Declares, VarSet, VarName
<1>2. /\ M \in Seq(Block) /\ Len(M) = m + 1 /\ m \in Nat
      /\ \A k \in 1..(m + 1), name \in Names : M[k][name] = MeaningIn(p, Above(P, k), name)
      /\ \A k \in 1..(m + 1) : M[k] \in Block
    BY MeaningsType DEF Declares
<1>3. /\ N \in Seq(Block) /\ Len(N) = m + 1
      /\ \A k \in 1..(m + 1), name \in Names : N[k][name] = MeaningIn(q, Above(P, k), name)
      /\ \A k \in 1..(m + 1) : N[k] \in Block
    <2>1. q.vars \in Seq(VarSet)
        BY AppendProperties DEF Declares
    <2> QED BY <2>1, MeaningsType
<1>4. Above(P, m + 1) = P /\ P = Append(Above(P, m), scope) /\ scope \in ScopeSet
    BY AboveLast
<1>5. m > 0 /\ m \in 1..(m + 1) /\ m + 1 \in 1..(m + 1) /\ L = m + 1 /\ L > 1
    BY <1>2
<1>6. Above(P, m) \in Seq(ScopeSet)
    BY <1>5, AboveIs
<1> HIDE DEF M, N, L, n
<1>7. ASSUME NEW k \in 1..m PROVE N[k] = M[k]
    <2>1. k \in 1..(m + 1)
        BY <1>5
    <2>2. \A name \in Names : N[k][name] = M[k][name]
        BY <1>2, <1>3, <2>1, AroundStays
    <2> QED BY <1>2, <1>3, <2>1, <2>2, SameBlock
<1>8. \A r, name : MeaningIn(r, P, name) =
        IF Known(r, scope, name) THEN FoundIn(r, scope, name) ELSE MeaningIn(r, Above(P, m), name)
    BY <1>4, <1>6, MeaningOfAppend
<1>9. \A name \in Names : /\ M[m + 1][name] = MeaningIn(p, P, name) /\ N[m + 1][name] = MeaningIn(q, P, name)
                          /\ M[m][name] = MeaningIn(p, Above(P, m), name)
                          /\ MeaningIn(q, Above(P, m), name) = MeaningIn(p, Above(P, m), name)
    <2> TAKE name \in Names
    <2>1. M[m + 1][name] = MeaningIn(p, P, name) /\ N[m + 1][name] = MeaningIn(q, P, name)
        BY <1>2, <1>3, <1>4, <1>5
    <2>2. M[m][name] = MeaningIn(p, Above(P, m), name)
        BY <1>2, <1>5
    <2>3. m \in 1..Len(P)
        BY <1>2, <1>5
    <2>4. MeaningIn(q, Above(P, m), name) = MeaningIn(p, Above(P, m), name)
        BY <2>3, AroundStays
    <2> QED BY <2>1, <2>2, <2>4
<1>10. ASSUME NEW name \in Names, ~Matches(v, scope, name) \/ Known(p, scope, name)
       PROVE  N[m + 1][name] = M[m + 1][name]
    <2>1. /\ Known(q, scope, name) <=> Known(p, scope, name)
          /\ Known(p, scope, name) => FoundIn(q, scope, name) = FoundIn(p, scope, name)
        BY <1>10, Undisturbed
    <2> QED BY <1>8, <1>9, <2>1
<1>11. \A name : Matches(v, scope, name) <=> name = n
    BY DEF Matches, n
<1>12. M[m + 1] \in Block /\ N[m + 1] \in Block
    BY <1>2, <1>3, <1>5
<1>13. CASE Known(p, scope, n)
    <2>1. M[m + 1][n] # M[m][n]
        BY <1>1, <1>9, <1>13, OwnMeaning DEF Declares
    <2>2. \A name \in Names : N[m + 1][name] = M[m + 1][name]
        BY <1>10, <1>11, <1>13
    <2>3. N[m + 1] = M[m + 1]
        BY <1>12, <2>2, SameBlock
    <2>4. \A k \in 1..(m + 1) : N[k] = M[k]
        <3> TAKE k \in 1..(m + 1)
        <3>1. k = m + 1 \/ k \in 1..m
            BY <1>2
        <3> QED BY <1>7, <2>3, <3>1
    <2>5. N = M
        BY <1>2, <1>3, <2>4, SeqEqual
    <2>6. L - 1 = m
        BY <1>2, <1>5
    <2>7. M[L][n] # M[L - 1][n]
        BY <1>5, <2>1, <2>6
    <2> QED BY <1>1, <1>5, <2>5, <2>7 DEF M, N, L, n
<1>14. CASE ~Known(p, scope, n)
    <2>1. M[m + 1][n] = M[m][n]
        BY <1>1, <1>8, <1>9, <1>14
    <2>2. N[m + 1][n] = v.name
        <3>1. Known(q, scope, n) /\ FoundIn(q, scope, n) = v.name
            BY <1>11, <1>14, FirstDeclared
        <3> QED BY <1>1, <1>8, <1>9, <3>1
    <2> DEFINE b == [M[m + 1] EXCEPT ![n] = v.name]
               E == [M EXCEPT ![m + 1] = b]
    <2>3. v.name \in Values
        BY <1>1 DEF Values
    <2>4. /\ b \in Block /\ b[n] = v.name
          /\ \A name \in Names \ {n} : b[name] = M[m + 1][name]
        BY <1>1, <1>12, <2>3 DEF Block
    <2>5. b = N[m + 1]
        <3>1. \A name \in Names \ {n} : N[m + 1][name] = M[m + 1][name]
            BY <1>10, <1>11
        <3>2. \A name \in Names : b[name] = N[m + 1][name]
            BY <2>2, <2>4, <3>1
        <3> HIDE DEF b
        <3> QED BY <1>12, <2>4, <3>2, SameBlock
    <2> HIDE DEF b
    <2>6. DOMAIN M = 1..(m + 1)
        BY <1>2, LenProperties
    <2>7. /\ E \in Seq(Block) /\ Len(E) = m + 1
          /\ E[m + 1] = b /\ \A k \in 1..m : E[k] = M[k]
        <3>1. M \in [1..(m + 1) -> Block]
            BY <1>2, LenProperties
        <3>2. E \in [1..(m + 1) -> Block]
            BY <2>4, <3>1
        <3>3. m + 1 \in Nat
            BY <1>2
        <3>4. E[m + 1] = b
            BY <1>5, <2>6
        <3>5. \A k \in 1..m : E[k] = M[k]
            <4> TAKE k \in 1..m
            <4>1. k \in 1..(m + 1) /\ k # m + 1
                BY <1>2
            <4> QED BY <2>6, <4>1
        <3>6. DOMAIN E = 1..(m + 1)
            BY <2>6
        <3> HIDE DEF E
        <3>7. E \in Seq(Block)
            BY <3>2, <3>3
        <3>8. Len(E) = m + 1
            BY <3>3, <3>6, <3>7, LenProperties
        <3> QED BY <3>4, <3>5, <3>7, <3>8
    <2> HIDE DEF E
    <2>8. \A k \in 1..(m + 1) : N[k] = E[k]
        <3> TAKE k \in 1..(m + 1)
        <3>1. k = m + 1 \/ k \in 1..m
            BY <1>2
        <3> QED BY <1>7, <2>5, <2>7, <3>1
    <2>9. N = E
        BY <1>3, <2>7, <2>8, SeqEqual
    <2>10. L - 1 = m /\ L = m + 1
        BY <1>2, <1>5
    <2>11. M[L][n] = M[L - 1][n] /\ N = [M EXCEPT ![L] = [M[L] EXCEPT ![n] = v.name]]
        BY <2>1, <2>9, <2>10 DEF E, b
    <2> QED BY <1>1, <1>5, <2>11 DEF M, N, L, n
<1> QED BY <1>13, <1>14

LEMMA MeaningsSame ==
    ASSUME NEW p, NEW q, q.vars = p.vars, NEW P \in Seq(ScopeSet)
    PROVE  MeaningsIn(q, P) = MeaningsIn(p, P)
<1>1. \A k \in 1..(Len(P) + 1) : Above(P, k) \in Seq(ScopeSet)
    BY AboveIs
<1>2. \A k \in 1..(Len(P) + 1), name \in Names :
        MeaningIn(q, Above(P, k), name) = MeaningIn(p, Above(P, k), name)
    BY <1>1, SameVars
<1> QED BY <1>2 DEF MeaningsIn

LEMMA BeginReads ==
    ASSUME IInv, NEW scope \in ScopeSet, scope.place = parser.at + 1,
           parser'.vars = parser.vars, parents' = Append(parents, scope)
    PROVE  Environ!Begin
<1>1. Types /\ InOrder
    BY DEF IInv
<1>2. parser.vars \in Seq(VarSet) /\ parents \in Seq(ScopeSet) /\ parser.at \in Nat
    BY <1>1, Parts
<1>3. \A i \in 1..Len(parser.vars) : parser.vars[i].scope # scope
    BY <1>1, <1>2, Parts DEF InOrder
<1>4. MeaningsIn(parser', parents') =
        Append(MeaningsIn(parser, parents), MeaningsIn(parser, parents)[Len(MeaningsIn(parser, parents))])
    BY <1>2, <1>3, BeginStep
<1>5. Meanings' = Append(Meanings, Meanings[Len(Meanings)])
    BY <1>4, MeaningsAre
<1>6. Newest' = Newest
    BY DEF Newest
<1> QED BY <1>5, <1>6 DEF Environ!Begin, Environ!Here

LEMMA EndReads ==
    ASSUME IInv, parents # << >>, parents' = Front(parents), parser'.vars = parser.vars
    PROVE  Environ!End
<1>1. Types
    BY DEF IInv
<1>2. parser.vars \in Seq(VarSet) /\ parents \in Seq(ScopeSet)
    BY <1>1, Parts
<1>3. /\ Len(MeaningsIn(parser, parents)) > 1
      /\ MeaningsIn(parser', parents') =
            SubSeq(MeaningsIn(parser, parents), 1, Len(MeaningsIn(parser, parents)) - 1)
    BY <1>2, EndStep
<1>4. Len(Meanings) > 1 /\ Meanings' = SubSeq(Meanings, 1, Len(Meanings) - 1)
    BY <1>3, MeaningsAre
<1>5. Newest' = Newest
    BY DEF Newest
<1> QED BY <1>4, <1>5 DEF Environ!End

LEMMA SameReads ==
    ASSUME Types, parents' = parents, parser'.vars = parser.vars
    PROVE  UNCHANGED <<Meanings, Newest>>
<1>1. parents \in Seq(ScopeSet)
    BY Parts
<1>2. Meanings' = Meanings
    BY <1>1, MeaningsSame, MeaningsAre
<1>3. Newest' = Newest
    BY DEF Newest
<1> QED BY <1>2, <1>3

LEMMA DeclareReads ==
    ASSUME IInv, \E k \in DOMAIN parents : parents[k].nt = "function", NEW name \in Names,
           parser' = declare(Read, parents, <<name, Read.at>>), parents' = parents
    PROVE  Environ!Declare
<1> DEFINE id == <<name, parser.at + 1>>
           v  == [name |-> id, scope |-> parents[Len(parents)]]
           M  == MeaningsIn(parser, parents)
           N  == MeaningsIn(parser', parents)
<1>1. Types /\ InOrder
    BY DEF IInv
<1>2. /\ parser \in ParserSet /\ parser.at \in Nat
      /\ parser.vars \in Seq(VarSet) /\ DOMAIN parser.vars = 1..Len(parser.vars) /\ Len(parser.vars) \in Nat
      /\ parents \in Seq(ScopeSet) /\ DOMAIN parents = 1..Len(parents) /\ Len(parents) \in Nat
    BY <1>1, Parts
<1>3. Len(parents) > 0 /\ parents[Len(parents)] \in ScopeSet
    BY <1>2, ElementOfSeq
<1>4. id \in VarName /\ id[1] = name /\ id[2] = parser.at + 1
    BY <1>2 DEF VarName
<1>5. v \in VarSet /\ v.name = id /\ v.scope = parents[Len(parents)]
    BY <1>3, <1>4 DEF VarSet
<1>6. parser'.vars = Append(parser.vars, v)
    BY <1>2 DEF declare, Read, ParserSet, Last
<1> HIDE DEF id, v
<1>7. Declares(parser, v, parser')
    BY <1>2, <1>5, <1>6 DEF Declares
<1>8. Apart(parser, parents)
    <2>1. ASSUME NEW j \in 1..Len(parents), NEW k \in 1..Len(parents), j < k PROVE parents[j] # parents[k]
        <3>1. /\ parents[j].place < parents[k].place
              /\ parents[j].place \in Nat /\ parents[k].place \in Nat
            BY <1>1, <1>2, <2>1, Parts DEF InOrder
        <3> QED BY <3>1
    <2>2. ASSUME NEW i \in 1..Len(parser.vars), NEW j \in 1..Len(parser.vars), i < j
          PROVE  parser.vars[i].name # parser.vars[j].name
        <3>1. /\ parser.vars[i].name[2] < parser.vars[j].name[2]
              /\ parser.vars[i].name[2] \in Nat /\ parser.vars[j].name[2] \in Nat
            BY <1>1, <1>2, <2>2, Parts DEF InOrder
        <3> QED BY <3>1
    <2> QED BY <2>1, <2>2 DEF Apart
<1>9. /\ Len(M) > 1
      /\ N = IF M[Len(M)][name] = M[Len(M) - 1][name]
             THEN [M EXCEPT ![Len(M)] = [M[Len(M)] EXCEPT ![name] = id]]
             ELSE M
    <2>1. v.name[1] = name /\ v.name = id
        BY <1>4, <1>5
    <2>2. /\ Len(M) > 1
          /\ N = IF M[Len(M)][v.name[1]] = M[Len(M) - 1][v.name[1]]
                 THEN [M EXCEPT ![Len(M)] = [M[Len(M)] EXCEPT ![v.name[1]] = v.name]]
                 ELSE M
        BY <1>2, <1>3, <1>5, <1>7, <1>8, DeclareStep
    <2> HIDE DEF M, N
    <2> QED BY <2>1, <2>2
<1>10. \A i \in 1..Len(parser.vars) : parser.vars[i].name # id
    <2> TAKE i \in 1..Len(parser.vars)
    <2>1. parser.vars[i].name[2] <= parser.at /\ parser.vars[i].name[2] \in Nat
        BY <1>1, <1>2, Parts DEF InOrder
    <2> QED BY <1>2, <1>4, <2>1
<1>11. id # << >>
    BY <1>4, PairsAreNot
<1>12. \A P \in Seq(ScopeSet) : \A n : MeaningIn(parser, P, n) # id
    <2> SUFFICES ASSUME NEW P \in Seq(ScopeSet), NEW n, MeaningIn(parser, P, n) = id PROVE FALSE
        OBVIOUS
    <2>1. \E i \in 1..Len(parser.vars) : parser.vars[i].name = MeaningIn(parser, P, n)
        BY <1>2, <1>11, MeaningIsDeclared
    <2> QED BY <1>10, <2>1
<1>13. \A block \in ToSet(M), n \in Names : block[n] # id
    <2> SUFFICES ASSUME NEW block \in ToSet(M), NEW n \in Names PROVE block[n] # id
        OBVIOUS
    <2>1. /\ M \in Seq(Block) /\ Len(M) = Len(parents) + 1
          /\ \A k \in 1..(Len(parents) + 1), m \in Names : M[k][m] = MeaningIn(parser, Above(parents, k), m)
        BY <1>2, MeaningsType
    <2>2. PICK k \in 1..(Len(parents) + 1) : block = M[k]
        BY <2>1, LenProperties DEF ToSet
    <2>3. Above(parents, k) \in Seq(ScopeSet)
        BY <1>2, AboveIs
    <2> QED BY <1>12, <2>1, <2>2, <2>3
<1>14. Newest' = id
    <2> DEFINE new == parser'.vars
    <2>1. new \in Seq(VarSet) /\ Len(new) = Len(parser.vars) + 1 /\ new[Len(parser.vars) + 1] = v
        <3>1. new = Append(parser.vars, v)
            BY <1>6
        <3> HIDE DEF new
        <3> QED BY <1>2, <1>5, <3>1, AppendProperties
    <2> HIDE DEF new
    <2>2. new # << >>
        BY <1>2, <2>1, EmptySeq
    <2>3. Last(new) = v
        BY <2>1 DEF Last
    <2> QED BY <1>5, <2>2, <2>3 DEF Newest, new
<1>15. Newest # id
    <2>1. CASE parser.vars = << >>
        BY <1>11, <2>1 DEF Newest
    <2>2. CASE parser.vars # << >>
        <3>1. Len(parser.vars) \in 1..Len(parser.vars)
            BY <1>2, <2>2, EmptySeq
        <3> QED BY <1>10, <2>2, <3>1 DEF Newest, Last
    <2> QED BY <2>1, <2>2
<1>16. Meanings = M /\ Meanings' = N
    BY MeaningsAre
<1> HIDE DEF M, N
<1>17. Newest' \notin {Newest, << >>} /\ Newest'[1] = name
    BY <1>4, <1>11, <1>14, <1>15
<1>18. \A block \in ToSet(Meanings), n \in Names : block[n] # Newest'
    BY <1>13, <1>14, <1>16
<1>19. Len(Meanings) > 1
    BY <1>9, <1>16
<1>20. Meanings' = IF Meanings[Len(Meanings)][name] = Meanings[Len(Meanings) - 1][name]
                   THEN [Meanings EXCEPT ![Len(Meanings)] = [Meanings[Len(Meanings)] EXCEPT ![name] = Newest']]
                   ELSE Meanings
    BY <1>9, <1>14, <1>16
<1>21. Environ!ToSet(Meanings) = ToSet(Meanings)
    BY DEF Environ!ToSet, ToSet
<1> QED BY <1>17, <1>18, <1>19, <1>20, <1>21 DEF Environ!Declare, Environ!Here, Environ!Around, Environ!Nothing

LEMMA InitReads == Init => Environ!Init
<1> SUFFICES ASSUME Init PROVE Environ!Init
    OBVIOUS
<1>1. parser.vars = << >> /\ parents = << >>
    BY DEF Init
<1>2. IInv
    BY InitKeeps
<1>3. << >> \in Seq(ScopeSet) /\ Len(<< >>) = 0 /\ << >> \in Seq(VarSet)
    OBVIOUS
<1>4. \A name : MeaningIn(parser, Above(parents, 1), name) = << >>
    <2> TAKE name
    <2>1. Above(parents, 1) \in Seq(ScopeSet) /\ Len(Above(parents, 1)) = 0
        <3>1. parents \in Seq(ScopeSet) /\ Len(parents) = 0
            BY <1>1, <1>3
        <3>2. 1 \in 1..(Len(parents) + 1)
            BY <3>1
        <3>3. Above(parents, 1) \in Seq(ScopeSet) /\ Len(Above(parents, 1)) = 1 - 1
            BY <3>1, <3>2, AboveIs
        <3> QED BY <3>3
    <2>2. LastKnown(parser, Above(parents, 1), name) \in 0..0
        BY <2>1, LastKnownIsNearest
    <2> QED BY <2>2 DEF MeaningIn
<1>5. Meanings = [k \in 1..1 |-> [name \in Names |-> << >>]]
    <2>1. Len(parents) + 1 = 1
        BY <1>1, <1>3
    <2>2. \A k \in 1..1 : k = 1
        OBVIOUS
    <2>3. \A k \in 1..1 : [name \in Names |-> MeaningIn(parser, Above(parents, k), name)] = [name \in Names |-> << >>]
        BY <1>4, <2>2
    <2> QED BY <2>1, <2>3, MeaningsAre DEF MeaningsIn
<1>6. Meanings = <<[name \in Names |-> << >>]>>
    BY <1>5
<1>7. Newest = << >>
    BY <1>1 DEF Newest
<1> QED BY <1>6, <1>7 DEF Environ!Init, Environ!Nothing

LEMMA StepReads == IInv /\ [Next]_vars => [Environ!Next]_<<Meanings, Newest>>
<1> SUFFICES ASSUME IInv, [Next]_vars PROVE [Environ!Next]_<<Meanings, Newest>>
    OBVIOUS
<1>1. Types /\ FunctionsKnown
    BY DEF IInv
<1>2. /\ parser \in ParserSet /\ parser.at \in Nat /\ Read.at = parser.at + 1
      /\ Read \in ParserSet /\ Read.vars = parser.vars
    BY <1>1, Parts, ReadFields
<1>3. \A nt \in {"function", "block"} : Scope(nt, Read) \in ScopeSet
                /\ Scope(nt, Read).place = parser.at + 1
    BY <1>2 DEF Scope, ScopeSet
<1>4. CASE parse_function
    <2> DEFINE func == Scope("function", Read)
    <2>1. func \in ScopeSet /\ func.place = parser.at + 1
        BY <1>3
    <2>2. parser' = begin_locals(Read, func) /\ parents' = Append(parents, func)
        BY <1>4 DEF parse_function
    <2> HIDE DEF func
    <2>3. parser'.vars = parser.vars
        BY <1>2, <2>1, <2>2, BeginFields
    <2> QED BY <2>1, <2>2, <2>3, BeginReads DEF Environ!Next
<1>5. CASE Parameter
    <2>1. PICK name \in Names : parser' = declare(Read, parents, <<name, Read.at>>)
        BY <1>5 DEF Parameter
    <2>2. header /\ UNCHANGED parents
        BY <1>5 DEF Parameter
    <2>3. parents # << >> /\ parents[Len(parents)].nt = "function"
        BY <1>1, <2>2 DEF FunctionsKnown
    <2>4. Len(parents) \in DOMAIN parents
        BY <1>1, <2>3, Parts, EmptySeq
    <2> QED BY <2>1, <2>2, <2>3, <2>4, DeclareReads DEF Environ!Next
<1>6. CASE Colon
    BY <1>1, <1>6, SameReads DEF Colon
<1>7. CASE parse_block
    <2> DEFINE block == Scope("block", Read)
    <2>1. block \in ScopeSet /\ block.place = parser.at + 1
        BY <1>3
    <2>2. parser' = Read /\ parents' = Append(parents, block)
        BY <1>7 DEF parse_block
    <2> HIDE DEF block
    <2>3. parser'.vars = parser.vars
        BY <1>2, <2>2
    <2> QED BY <2>1, <2>2, <2>3, BeginReads DEF Environ!Next
<1>8. CASE parse_var
    <2>1. PICK name \in Names : parser' = declare(Read, parents, <<name, Read.at>>)
        BY <1>8 DEF parse_var
    <2>2. UNCHANGED parents
        BY <1>8 DEF parse_var
    <2>3. \E k \in DOMAIN parents : parents[k].nt = "function"
        BY <1>8 DEF parse_var, ToSet
    <2> QED BY <2>1, <2>2, <2>3, DeclareReads DEF Environ!Next
<1>9. CASE parse_function_call
    <2>1. PICK name \in Functions, argc \in Arities : parser' = get_function(parser, name, argc)
        BY <1>9 DEF parse_function_call
    <2>2. UNCHANGED parents
        BY <1>9 DEF parse_function_call
    <2>3. parser'.vars = parser.vars
        <3>1. add_function(parser, name, argc, "external").vars = parser.vars
            BY <1>2, AddFields
        <3> QED BY <2>1, <3>1 DEF get_function
    <2> QED BY <1>1, <2>2, <2>3, SameReads
<1>10. CASE end_block
    <2>1. parents # << >> /\ parents' = Front(parents) /\ parser'.vars = parser.vars
        BY <1>10 DEF end_block, Ends
    <2> QED BY <2>1, EndReads DEF Environ!Next
<1>11. CASE end_function
    <2>1. PICK name \in Functions, argc \in Arities : parser' = add_function(parser, name, argc, "full_link")
        BY <1>11 DEF end_function
    <2>2. parents # << >> /\ parents' = Front(parents)
        BY <1>11 DEF end_function, Ends
    <2>3. parser'.vars = parser.vars
        BY <1>2, <2>1, AddFields
    <2> QED BY <2>2, <2>3, EndReads DEF Environ!Next
<1>12. CASE refuse_function
    <2>1. parents # << >> /\ parents' = Front(parents) /\ parser'.vars = parser.vars
        BY <1>12 DEF refuse_function, Ends
    <2> QED BY <2>1, EndReads DEF Environ!Next
<1>13. CASE UNCHANGED vars
    BY <1>1, <1>13, SameReads DEF vars
<1> QED BY <1>4, <1>5, <1>6, <1>7, <1>8, <1>9, <1>10, <1>11, <1>12, <1>13 DEF Next

\* Names mean to the parser what they mean to a reader of the language: the
\* walk of get_var (parser.cpp:80), over what parse_var, the parameters and the
\* scopes of statements have left, is Environment at every step.
THEOREM ImplementsReading == Spec => ImplementsEnvironment
<1>1. IInv /\ [Next]_vars => [Environ!Next]_<<Meanings, Newest>>
    BY StepReads
<1> QED BY InitReads, Invariance, <1>1, PTL DEF Spec, ImplementsEnvironment, Environ!Spec

=============================================================================
