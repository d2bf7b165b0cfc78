-------------------------- MODULE Emission_proofs --------------------------
(* That the compiler emits well-formed code, whatever it nests.              *)
EXTENDS Emission, SequenceTheorems, TLAPS

Codes == UNION {[D -> Instr] : D \in SUBSET Nat}

Roles == {"condition", "if", "else", "loop", "guard"}

\* What is emitted, and what each saved address was saved for.
States == [code : Codes, pc : Nat, saved : Seq(Nat), funcs : Seq(Codes)]

TypeOK ==
    /\ st \in States
    /\ open \in Seq(Roles) /\ Len(open) = Len(st.saved)
    /\ building \in BOOLEAN

-----------------------------------------------------------------------------
(* The inductive invariant, of a code, where it goes on, and the branches P  *)
(* of it that are still to be rewritten.                                     *)

\* Where there is an instruction, or will be the next one.
Addresses(code, pc) == DOMAIN code \cup {pc}

Laid(code, pc) ==
    /\ 0 \in DOMAIN code
    /\ \A a \in DOMAIN code :
        /\ (code[a].op = "met") <=> (a = 0)
        /\ code[a].op # "endmet"
        /\ a + Width(code[a].op) \in Addresses(code, pc)
        /\ a + Width(code[a].op) <= pc
        /\ \A b \in DOMAIN code : b > a => b >= a + Width(code[a].op)

Branching(code, pc, P) ==
    /\ P \subseteq DOMAIN code
    /\ \A a \in DOMAIN code : code[a].op \in JumpOps =>
            code[a].to \in IF a \in P THEN {0} ELSE Addresses(code, pc) \ {0}
    /\ \A a \in P : code[a].op \in JumpOps

\* Behind a br that is known to go back.
BehindKnownLoop(code, P, a) ==
    \E b \in DOMAIN code \ P : code[b].op = "br" /\ a = b + Width("br") /\ code[b].to <= b

Reached(code, A, P) ==
    \A a \in A \ {0} : FallsInto(code, a) \/ JumpsTo(code, a) \/ BehindKnownLoop(code, P, a)

Branches(saved, roles) == {saved[k] : k \in {l \in DOMAIN roles : roles[l] # "loop"}}

BranchesDiffer(saved, roles) ==
    \A k, l \in DOMAIN roles :
        k # l /\ roles[k] # "loop" /\ roles[l] # "loop" => saved[k] # saved[l]

LoopsStart(saved, roles, A) == \A k \in DOMAIN roles : roles[k] = "loop" => saved[k] \in A \ {0}

Finished(code) ==
    /\ WellFormedCode(code)
    /\ \A a \in DOMAIN code \ {0} : FallsInto(code, a) \/ JumpsTo(code, a) \/ BehindLoop(code, a)

InFunction(s, roles) ==
    /\ Laid(s.code, s.pc)
    /\ Branching(s.code, s.pc, Branches(s.saved, roles))
    /\ Reached(s.code, Addresses(s.code, s.pc), Branches(s.saved, roles))
    /\ BranchesDiffer(s.saved, roles)
    /\ LoopsStart(s.saved, roles, Addresses(s.code, s.pc))

IInv ==
    /\ TypeOK
    /\ IF building THEN InFunction(st, open) ELSE open = << >>
    /\ \A i \in DOMAIN st.funcs : Finished(st.funcs[i])

-----------------------------------------------------------------------------
(* Codes, before and after an instruction more or a branch rewritten          *)

LEMMA Widths ==
    /\ \A o : Width(o) \in Nat \ {0}
    /\ \A o \in JumpOps : Width(o) = 10
BY DEF Width, JumpOps, TestOps, BoolOps, ConstOps, LocalOps, SlotOps, ArgOps

Extended(code, pc, ins) ==
    [a \in DOMAIN code \cup {pc} |-> IF a = pc THEN ins ELSE code[a]]

Rewritten(code, Q, pc) ==
    [a \in DOMAIN code |-> IF a \in Q THEN Target(code[a], pc) ELSE code[a]]

LEMMA CodesType ==
    \A code \in Codes : DOMAIN code \subseteq Nat /\ \A a \in DOMAIN code : code[a] \in Instr
BY DEF Codes

LEMMA ExtendedType ==
    ASSUME NEW code \in Codes, NEW pc \in Nat, NEW ins \in Instr
    PROVE  Extended(code, pc, ins) \in Codes
<1> DEFINE D == DOMAIN code \cup {pc}
<1>1. D \subseteq Nat /\ \A a \in DOMAIN code : code[a] \in Instr
    BY CodesType
<1>2. Extended(code, pc, ins) \in [D -> Instr]
    BY <1>1 DEF Extended
<1> QED
    BY <1>1, <1>2 DEF Codes

\* A jump that is given another target is an instruction like it.
LEMMA TargetType ==
    ASSUME NEW ins \in Instr, ins.op \in JumpOps, NEW pc \in Nat
    PROVE  /\ Target(ins, pc) \in Instr
           /\ Target(ins, pc).op = ins.op
           /\ Target(ins, pc).to = pc
<1>1. ins \in [op : JumpOps, to : Nat]
    BY DEF Instr, JumpOps, TestOps, BoolOps, ConstOps, LocalOps, SlotOps, ArgOps, PlainOps, ArithOps,
           CompareOps, UnaryOps, UnhandledOps
<1>2. Target(ins, pc) \in [op : JumpOps, to : Nat]
    BY <1>1 DEF Target
<1>3. Target(ins, pc).op = ins.op /\ Target(ins, pc).to = pc
    BY <1>1 DEF Target
<1> QED
    BY <1>2, <1>3 DEF Instr

LEMMA ExtendedLaid ==
    ASSUME NEW code \in Codes, NEW pc \in Nat, Laid(code, pc),
           NEW ins \in Instr, ins.op \notin {"met", "endmet"}
    PROVE  Laid(Extended(code, pc, ins), pc + Width(ins.op))
<1> DEFINE ext  == Extended(code, pc, ins)
           next == pc + Width(ins.op)
<1>1. /\ DOMAIN ext = DOMAIN code \cup {pc}
      /\ ext[pc] = ins
      /\ \A a \in DOMAIN code : a \in Nat /\ a < pc /\ ext[a] = code[a]
    BY CodesType, Widths DEF Extended, Laid
<1>2. next \in Nat /\ next > pc
    BY Widths
<1>3. 0 \in DOMAIN ext /\ 0 # pc
    BY <1>1 DEF Laid
<1>4. ASSUME NEW a \in DOMAIN code
      PROVE  /\ (ext[a].op = "met") <=> (a = 0)
             /\ ext[a].op # "endmet"
             /\ a + Width(ext[a].op) \in Addresses(ext, next)
             /\ a + Width(ext[a].op) <= next
             /\ \A b \in DOMAIN ext : b > a => b >= a + Width(ext[a].op)
    <2>1. ext[a] = code[a] /\ a \in Nat /\ Width(code[a].op) \in Nat
        BY <1>1, Widths
    <2>2. a + Width(code[a].op) \in DOMAIN code \cup {pc} /\ a + Width(code[a].op) <= pc
        BY DEF Laid, Addresses
    <2>3. \A b \in DOMAIN code : b > a => b >= a + Width(code[a].op)
        BY DEF Laid
    <2>4. (code[a].op = "met" <=> a = 0) /\ code[a].op # "endmet"
        BY DEF Laid
    <2>5. \A b \in DOMAIN ext : b > a => b >= a + Width(ext[a].op)
        BY <1>1, <2>1, <2>2, <2>3
    <2> QED
        BY <1>1, <1>2, <2>1, <2>2, <2>4, <2>5 DEF Addresses
<1>5. /\ (ext[pc].op = "met") <=> (pc = 0)
      /\ ext[pc].op # "endmet"
      /\ pc + Width(ext[pc].op) \in Addresses(ext, next)
      /\ pc + Width(ext[pc].op) <= next
      /\ \A b \in DOMAIN ext : b > pc => b >= pc + Width(ext[pc].op)
    BY <1>1, <1>2, <1>3 DEF Addresses
<1> QED
    BY <1>1, <1>3, <1>4, <1>5 DEF Laid

\* R: the new instruction is a branch to be rewritten, or a jump to where one can go.
LEMMA ExtendedBranching ==
    ASSUME NEW code \in Codes, NEW pc \in Nat, Laid(code, pc),
           NEW P, Branching(code, pc, P),
           NEW ins \in Instr, NEW R, R = P \/ R = P \cup {pc},
           pc \in R => ins.op \in JumpOps,
           ins.op \in JumpOps => ins.to \in IF pc \in R THEN {0} ELSE Addresses(code, pc) \ {0}
    PROVE  Branching(Extended(code, pc, ins), pc + Width(ins.op), R)
<1> DEFINE ext  == Extended(code, pc, ins)
           next == pc + Width(ins.op)
<1>1. /\ DOMAIN ext = DOMAIN code \cup {pc}
      /\ ext[pc] = ins
      /\ \A a \in DOMAIN code : a # pc /\ ext[a] = code[a]
    BY CodesType, Widths DEF Extended, Laid
<1>2. Addresses(code, pc) \subseteq Addresses(ext, next)
    BY <1>1 DEF Addresses
<1>3. \A a \in DOMAIN code : a \in R <=> a \in P
    BY <1>1
<1>4. ASSUME NEW a \in DOMAIN ext, ext[a].op \in JumpOps
      PROVE  ext[a].to \in IF a \in R THEN {0} ELSE Addresses(ext, next) \ {0}
    <2>1. CASE a = pc
        BY <1>1, <1>2, <1>4, <2>1
    <2>2. CASE a # pc
        <3>1. a \in DOMAIN code /\ ext[a] = code[a]
            BY <1>1, <2>2
        <3> QED
            BY <1>2, <1>3, <1>4, <3>1 DEF Branching
    <2> QED
        BY <2>1, <2>2
<1>5. R \subseteq DOMAIN ext /\ \A a \in R : ext[a].op \in JumpOps
    BY <1>1 DEF Branching
<1> QED
    BY <1>4, <1>5 DEF Branching

LEMMA ExtendedReached ==
    ASSUME NEW code \in Codes, NEW pc \in Nat, Laid(code, pc), NEW P, NEW A, Reached(code, A, P),
           NEW ins \in Instr, NEW R, R = P \/ R = P \cup {pc}
    PROVE  Reached(Extended(code, pc, ins), A, R)
<1> DEFINE ext == Extended(code, pc, ins)
<1>1. /\ DOMAIN ext = DOMAIN code \cup {pc}
      /\ \A a \in DOMAIN code : a # pc /\ ext[a] = code[a]
    BY CodesType, Widths DEF Extended, Laid
<1>2. ASSUME NEW a \in A \ {0}
      PROVE  FallsInto(ext, a) \/ JumpsTo(ext, a) \/ BehindKnownLoop(ext, R, a)
    <2>1. CASE FallsInto(code, a)
        BY <1>1, <2>1 DEF FallsInto
    <2>2. CASE JumpsTo(code, a)
        BY <1>1, <2>2 DEF JumpsTo
    <2>3. CASE BehindKnownLoop(code, P, a)
        <3>1. PICK b \in DOMAIN code \ P : code[b].op = "br" /\ a = b + Width("br") /\ code[b].to <= b
            BY <2>3 DEF BehindKnownLoop
        <3>2. b \in DOMAIN ext \ R /\ ext[b] = code[b]
            BY <1>1, <3>1
        <3> QED
            BY <3>1, <3>2 DEF BehindKnownLoop
    <2> QED
        BY <2>1, <2>2, <2>3 DEF Reached
<1> QED
    BY <1>2 DEF Reached

\* The next instruction is fallen into, unless it is behind a br.
LEMMA ExtendedFallsInto ==
    ASSUME NEW code \in Codes, NEW pc \in Nat, NEW ins \in Instr, ins.op # "br"
    PROVE  FallsInto(Extended(code, pc, ins), pc + Width(ins.op))
<1>1. pc \in DOMAIN Extended(code, pc, ins) /\ Extended(code, pc, ins)[pc] = ins
    BY DEF Extended
<1> QED
    BY <1>1 DEF FallsInto

-----------------------------------------------------------------------------

LEMMA RewrittenFacts ==
    ASSUME NEW code \in Codes, NEW pc \in Nat, NEW P, Branching(code, pc, P), NEW Q \in SUBSET P
    PROVE  LET new == Rewritten(code, Q, pc)
           IN  /\ new \in Codes
               /\ DOMAIN new = DOMAIN code
               /\ \A a \in DOMAIN code : new[a].op = code[a].op
               /\ \A a \in DOMAIN code \ Q : new[a] = code[a]
               /\ \A a \in Q : new[a].op \in JumpOps /\ new[a].to = pc
<1> DEFINE new == Rewritten(code, Q, pc)
<1>1. DOMAIN new = DOMAIN code /\ Q \subseteq DOMAIN code
    BY DEF Rewritten, Branching
<1>2. \A a \in DOMAIN code \ Q : new[a] = code[a]
    BY DEF Rewritten
<1>3. \A a \in Q : code[a] \in Instr /\ code[a].op \in JumpOps /\ new[a] = Target(code[a], pc)
    BY <1>1, CodesType DEF Rewritten, Branching
<1>4. \A a \in Q : new[a] \in Instr /\ new[a].op = code[a].op /\ new[a].to = pc
    BY <1>3, TargetType
<1>5. \A a \in DOMAIN code : new[a].op = code[a].op /\ new[a] \in Instr
    BY <1>2, <1>4, CodesType
<1>6. new \in [DOMAIN code -> Instr]
    BY <1>1, <1>5 DEF Rewritten
<1>7. new \in Codes
    BY <1>6, CodesType DEF Codes
<1> QED
    BY <1>1, <1>2, <1>3, <1>4, <1>5, <1>7

LEMMA RewrittenLaid ==
    ASSUME NEW code \in Codes, NEW pc \in Nat, NEW P, Branching(code, pc, P), NEW Q \in SUBSET P,
           Laid(code, pc)
    PROVE  Laid(Rewritten(code, Q, pc), pc)
<1> DEFINE new == Rewritten(code, Q, pc)
<1>1. DOMAIN new = DOMAIN code /\ \A a \in DOMAIN code : new[a].op = code[a].op
    BY RewrittenFacts
<1> QED
    BY <1>1 DEF Laid, Addresses

LEMMA RewrittenBranching ==
    ASSUME NEW code \in Codes, NEW pc \in Nat, NEW P, Branching(code, pc, P), NEW Q \in SUBSET P,
           pc # 0
    PROVE  Branching(Rewritten(code, Q, pc), pc, P \ Q)
<1> DEFINE new == Rewritten(code, Q, pc)
<1>1. /\ DOMAIN new = DOMAIN code
      /\ \A a \in DOMAIN code : new[a].op = code[a].op
      /\ \A a \in DOMAIN code \ Q : new[a] = code[a]
      /\ \A a \in Q : new[a].op \in JumpOps /\ new[a].to = pc
    BY RewrittenFacts
<1>2. ASSUME NEW a \in DOMAIN new, new[a].op \in JumpOps
      PROVE  new[a].to \in IF a \in P \ Q THEN {0} ELSE Addresses(new, pc) \ {0}
    <2>1. CASE a \in Q
        BY <1>1, <2>1 DEF Addresses
    <2>2. CASE a \notin Q
        BY <1>1, <1>2, <2>2 DEF Addresses, Branching
    <2> QED
        BY <2>1, <2>2
<1> QED
    BY <1>1, <1>2 DEF Branching

\* A branch of P goes to 0, where nothing is looked for.
LEMMA RewrittenReached ==
    ASSUME NEW code \in Codes, NEW pc \in Nat, NEW P, Branching(code, pc, P), NEW Q \in SUBSET P,
           NEW A, Reached(code, A, P)
    PROVE  /\ Reached(Rewritten(code, Q, pc), A, P \ Q)
           /\ Q # {} => JumpsTo(Rewritten(code, Q, pc), pc)
<1> DEFINE new == Rewritten(code, Q, pc)
<1>1. /\ DOMAIN new = DOMAIN code
      /\ \A a \in DOMAIN code : new[a].op = code[a].op
      /\ \A a \in DOMAIN code \ Q : new[a] = code[a]
      /\ \A a \in Q : new[a].op \in JumpOps /\ new[a].to = pc
    BY RewrittenFacts
<1>0. Q \subseteq DOMAIN code
    BY DEF Branching
<1>2. ASSUME NEW a \in A \ {0}
      PROVE  FallsInto(new, a) \/ JumpsTo(new, a) \/ BehindKnownLoop(new, P \ Q, a)
    <2>1. CASE FallsInto(code, a)
        BY <1>1, <2>1 DEF FallsInto
    <2>2. CASE JumpsTo(code, a)
        <3>1. PICK b \in DOMAIN code : code[b].op \in JumpOps /\ code[b].to = a
            BY <2>2 DEF JumpsTo
        <3>2. b \notin Q
            BY <3>1 DEF Branching
        <3> QED
            BY <1>1, <3>1, <3>2 DEF JumpsTo
    <2>3. CASE BehindKnownLoop(code, P, a)
        BY <1>1, <2>3 DEF BehindKnownLoop
    <2> QED
        BY <2>1, <2>2, <2>3 DEF Reached
<1>3. Q # {} => JumpsTo(new, pc)
    BY <1>0, <1>1 DEF JumpsTo
<1> QED
    BY <1>2, <1>3 DEF Reached

-----------------------------------------------------------------------------
(* What the emitter's operators do to what is emitted                        *)

LEMMA Pushed ==
    ASSUME NEW S, NEW s \in Seq(S), NEW x \in S
    PROVE  /\ <<x>> \o s \in Seq(S)
           /\ Len(<<x>> \o s) = Len(s) + 1
           /\ (<<x>> \o s)[1] = x
           /\ \A k \in 2..(Len(s) + 1) : (<<x>> \o s)[k] = s[k - 1]
<1>1. <<x>> \in Seq(S) /\ Len(<<x>>) = 1 /\ <<x>>[1] = x
    OBVIOUS
<1> QED
    BY <1>1, ConcatProperties, LenProperties

LEMMA Dropped ==
    ASSUME NEW S, NEW s \in Seq(S), NEW n \in 0..Len(s)
    PROVE  /\ SubSeq(s, n + 1, Len(s)) \in Seq(S)
           /\ Len(SubSeq(s, n + 1, Len(s))) = Len(s) - n
           /\ \A k \in 1..(Len(s) - n) : SubSeq(s, n + 1, Len(s))[k] = s[n + k]
    OBVIOUS

LEMMA EmitFields ==
    ASSUME NEW s \in States, NEW ins \in Instr
    PROVE  /\ emit(s, ins) \in States
           /\ emit(s, ins).code = Extended(s.code, s.pc, ins)
           /\ emit(s, ins).pc = s.pc + Width(ins.op)
           /\ emit(s, ins).saved = s.saved
           /\ emit(s, ins).funcs = s.funcs
<1>1. s.code \in Codes /\ s.pc \in Nat
    BY DEF States
<1>2. Extended(s.code, s.pc, ins) \in Codes /\ s.pc + Width(ins.op) \in Nat
    BY <1>1, ExtendedType, Widths
<1>3. emit(s, ins) = [s EXCEPT !.code = Extended(s.code, s.pc, ins), !.pc = s.pc + Width(ins.op)]
    BY DEF emit, Extended, States
<1> QED
    BY <1>2, <1>3 DEF States

LEMMA BranchFields ==
    ASSUME NEW s \in States, NEW op \in JumpOps
    PROVE  LET ins == [op |-> op, to |-> 0]
           IN  /\ ins \in Instr /\ ins.op = op /\ ins.to = 0
               /\ branch(s, op) \in States
               /\ branch(s, op).code = Extended(s.code, s.pc, ins)
               /\ branch(s, op).pc = s.pc + 10
               /\ branch(s, op).saved = <<s.pc>> \o s.saved
               /\ branch(s, op).funcs = s.funcs
<1> DEFINE ins == [op |-> op, to |-> 0]
<1>1. ins \in Instr /\ ins.op = op /\ ins.to = 0
    BY DEF Instr
<1>2. <<s.pc>> \o s.saved \in Seq(Nat)
    BY Pushed DEF States
<1>3. save(s) = [s EXCEPT !.saved = <<s.pc>> \o s.saved]
    BY DEF save, States
<1>4. /\ save(s) \in States
      /\ save(s).code = s.code /\ save(s).pc = s.pc /\ save(s).funcs = s.funcs
      /\ save(s).saved = <<s.pc>> \o s.saved
    BY <1>2, <1>3 DEF States
<1>5. branch(s, op) = emit(save(s), ins)
    BY DEF branch
<1>6. Width(op) = 10
    BY Widths
<1> HIDE DEF ins
<1>7. /\ branch(s, op) \in States
      /\ branch(s, op).code = Extended(s.code, s.pc, ins)
      /\ branch(s, op).pc = s.pc + 10
      /\ branch(s, op).saved = <<s.pc>> \o s.saved
      /\ branch(s, op).funcs = s.funcs
    BY <1>1, <1>4, <1>5, <1>6, EmitFields
<1> QED
    BY <1>1, <1>7 DEF ins

SavedIn(s, i, j) == {s.saved[k] : k \in i..j}

Others(s, i, j) == SubSeq(s.saved, 1, i - 1) \o SubSeq(s.saved, j + 1, Len(s.saved))

LEMMA RewriteFields ==
    ASSUME NEW s \in States, NEW i, NEW j, Rewritten(s.code, SavedIn(s, i, j), s.pc) \in Codes,
           Others(s, i, j) \in Seq(Nat)
    PROVE  /\ rewrite(s, i, j) \in States
           /\ rewrite(s, i, j).code = Rewritten(s.code, SavedIn(s, i, j), s.pc)
           /\ rewrite(s, i, j).pc = s.pc
           /\ rewrite(s, i, j).saved = Others(s, i, j)
           /\ rewrite(s, i, j).funcs = s.funcs
<1> DEFINE Q == SavedIn(s, i, j)
<1>1. rewrite(s, i, j) = [s EXCEPT !.code = Rewritten(s.code, Q, s.pc), !.saved = Others(s, i, j)]
    BY DEF rewrite, Rewritten, States, SavedIn, Others
<1> HIDE DEF Q
<1> QED
    BY <1>1 DEF States, Q

-----------------------------------------------------------------------------
(* What was saved, and for what                                              *)

Prepends(t, x, s) == t = <<x>> \o s

LEMMA SavedPushed ==
    ASSUME NEW saved \in Seq(Nat), NEW roles \in Seq(Roles), Len(roles) = Len(saved),
           NEW A,
           BranchesDiffer(saved, roles), LoopsStart(saved, roles, A),
           NEW x \in Nat, NEW role \in Roles,
           IF role = "loop" THEN x \in A \ {0} ELSE x \notin Branches(saved, roles),
           NEW more, NEW for, Prepends(more, x, saved), Prepends(for, role, roles)
    PROVE  /\ more \in Seq(Nat) /\ for \in Seq(Roles) /\ Len(for) = Len(more)
           /\ Branches(more, for) = IF role = "loop" THEN Branches(saved, roles)
                                                     ELSE Branches(saved, roles) \cup {x}
           /\ BranchesDiffer(more, for)
           /\ LoopsStart(more, for, A)
<1> DEFINE n == Len(saved)
<1>1. /\ more \in Seq(Nat) /\ Len(more) = n + 1 /\ more[1] = x
      /\ \A k \in 2..(n + 1) : more[k] = saved[k - 1]
    BY Pushed DEF Prepends
<1>2. /\ for \in Seq(Roles) /\ Len(for) = n + 1 /\ for[1] = role
      /\ \A k \in 2..(n + 1) : for[k] = roles[k - 1]
    BY Pushed DEF Prepends
<1>3. n \in Nat /\ DOMAIN for = 1..(n + 1) /\ DOMAIN roles = 1..n
    BY <1>2, LenProperties
<1> HIDE DEF n
<1>4. \A k \in 1..n : k + 1 \in 2..(n + 1) /\ (k + 1) - 1 = k
    BY <1>3
<1>5. \A k \in 1..(n + 1) : k = 1 \/ (k \in 2..(n + 1) /\ k - 1 \in 1..n)
    BY <1>3
<1>6. \A k \in 1..n : more[k + 1] = saved[k] /\ for[k + 1] = roles[k]
    BY <1>1, <1>2, <1>4
<1>7. Branches(more, for) = IF role = "loop" THEN Branches(saved, roles)
                                             ELSE Branches(saved, roles) \cup {x}
    <2>1. ASSUME NEW a \in Branches(more, for)
          PROVE  a \in Branches(saved, roles) \/ (role # "loop" /\ a = x)
        <3>1. PICK k \in 1..(n + 1) : for[k] # "loop" /\ a = more[k]
            BY <1>3 DEF Branches
        <3>2. CASE k = 1
            BY <1>1, <1>2, <3>1, <3>2
        <3>3. CASE k \in 2..(n + 1) /\ k - 1 \in 1..n
            BY <1>1, <1>2, <1>3, <3>1, <3>3 DEF Branches
        <3> QED
            BY <1>5, <3>1, <3>2, <3>3
    <2>2. ASSUME NEW a \in Branches(saved, roles)
          PROVE  a \in Branches(more, for)
        <3>1. PICK k \in 1..n : roles[k] # "loop" /\ a = saved[k]
            BY <1>3 DEF Branches
        <3>2. k + 1 \in DOMAIN for /\ for[k + 1] # "loop" /\ more[k + 1] = a
            BY <1>3, <1>4, <1>6, <3>1
        <3> QED
            BY <3>2 DEF Branches
    <2>3. role # "loop" => x \in Branches(more, for)
        <3>1. 1 \in DOMAIN for
            BY <1>3
        <3> QED
            BY <1>1, <1>2, <3>1 DEF Branches
    <2> QED
        BY <2>1, <2>2, <2>3
<1>8. ASSUME NEW k \in 1..(n + 1), NEW l \in 1..(n + 1), k # l, for[k] # "loop", for[l] # "loop"
      PROVE  more[k] # more[l]
    <2>1. ASSUME NEW m \in 2..(n + 1), for[m] # "loop"
          PROVE  /\ m - 1 \in 1..n /\ roles[m - 1] # "loop"
                 /\ more[m] = saved[m - 1] /\ more[m] \in Branches(saved, roles)
        <3>1. m - 1 \in 1..n
            BY <1>3
        <3> QED
            BY <1>1, <1>2, <1>3, <2>1, <3>1 DEF Branches
    <2>2. CASE k = 1
        <3>1. l \in 2..(n + 1)
            BY <1>3, <1>8, <2>2
        <3> QED
            BY <1>1, <1>2, <1>8, <2>1, <2>2, <3>1
    <2>3. CASE l = 1
        <3>1. k \in 2..(n + 1)
            BY <1>3, <1>8, <2>3
        <3> QED
            BY <1>1, <1>2, <1>8, <2>1, <2>3, <3>1
    <2>4. CASE k # 1 /\ l # 1
        <3>1. k \in 2..(n + 1) /\ l \in 2..(n + 1)
            BY <1>3, <2>4
        <3>2. k - 1 # l - 1
            BY <1>3, <1>8
        <3>3. more[k] = saved[k - 1] /\ more[l] = saved[l - 1]
            BY <1>8, <2>1, <3>1
        <3>4. saved[k - 1] # saved[l - 1]
            BY <1>3, <1>8, <2>1, <3>1, <3>2 DEF BranchesDiffer
        <3> QED
            BY <3>3, <3>4
    <2> QED
        BY <2>2, <2>3, <2>4
<1>9. ASSUME NEW k \in 1..(n + 1), for[k] = "loop"
      PROVE  more[k] \in A \ {0}
    <2>1. CASE k = 1
        BY <1>1, <1>2, <1>9, <2>1
    <2>2. CASE k \in 2..(n + 1) /\ k - 1 \in 1..n
        BY <1>1, <1>2, <1>3, <1>9, <2>2 DEF LoopsStart
    <2> QED
        BY <1>5, <2>1, <2>2
<1>10. BranchesDiffer(more, for)
    BY <1>3, <1>8 DEF BranchesDiffer
<1>12. LoopsStart(more, for, A)
    BY <1>3, <1>9 DEF LoopsStart
<1>11. Len(for) = Len(more)
    BY <1>1, <1>2
<1> QED
    BY <1>1, <1>2, <1>7, <1>10, <1>11, <1>12

Drops(t, n, s) == t = SubSeq(s, n + 1, Len(s))

\* The newest n are taken away.
LEMMA SavedDropped ==
    ASSUME NEW saved \in Seq(Nat), NEW roles \in Seq(Roles), Len(roles) = Len(saved),
           NEW n \in 0..Len(saved), NEW A,
           BranchesDiffer(saved, roles), LoopsStart(saved, roles, A),
           NEW less, NEW for, Drops(less, n, saved), Drops(for, n, roles)
    PROVE  /\ less \in Seq(Nat) /\ for \in Seq(Roles) /\ Len(for) = Len(less)
           /\ Branches(less, for)
                = Branches(saved, roles) \ {saved[k] : k \in {l \in 1..n : roles[l] # "loop"}}
           /\ BranchesDiffer(less, for)
           /\ LoopsStart(less, for, A)
<1> DEFINE N    == Len(saved)
           gone == {saved[k] : k \in {l \in 1..n : roles[l] # "loop"}}
<1>1. /\ less \in Seq(Nat) /\ Len(less) = N - n
      /\ \A k \in 1..(N - n) : less[k] = saved[n + k]
    BY Dropped DEF Drops
<1>2. /\ for \in Seq(Roles) /\ Len(for) = N - n
      /\ \A k \in 1..(N - n) : for[k] = roles[n + k]
    BY Dropped DEF Drops
<1>3. N \in Nat /\ n \in Nat /\ n <= N /\ DOMAIN for = 1..(N - n) /\ DOMAIN roles = 1..N
    BY <1>2, LenProperties
<1> HIDE DEF N
<1>4. \A k \in 1..(N - n) : n + k \in 1..N /\ n + k \notin 1..n
    BY <1>3
<1>5. \A k \in 1..N : k \in 1..n \/ (k - n \in 1..(N - n) /\ n + (k - n) = k)
    BY <1>3
<1>6. Branches(less, for) = Branches(saved, roles) \ gone
    <2>1. ASSUME NEW a \in Branches(less, for)
          PROVE  a \in Branches(saved, roles) \ gone
        <3>1. PICK k \in 1..(N - n) : for[k] # "loop" /\ a = less[k]
            BY <1>3 DEF Branches
        <3>2. n + k \in 1..N /\ n + k \notin 1..n /\ roles[n + k] # "loop" /\ a = saved[n + k]
            BY <1>1, <1>2, <1>4, <3>1
        <3>3. a \in Branches(saved, roles)
            BY <1>3, <3>2 DEF Branches
        <3>4. ASSUME NEW l \in 1..n, roles[l] # "loop"
              PROVE  a # saved[l]
            <4>1. l \in DOMAIN roles /\ n + k \in DOMAIN roles /\ l # n + k
                BY <1>3, <3>2
            <4> QED
                BY <3>2, <3>4, <4>1 DEF BranchesDiffer
        <3> QED
            BY <3>3, <3>4
    <2>2. ASSUME NEW a \in Branches(saved, roles), a \notin gone
          PROVE  a \in Branches(less, for)
        <3>1. PICK k \in 1..N : roles[k] # "loop" /\ a = saved[k]
            BY <1>3 DEF Branches
        <3>2. k \notin 1..n
            BY <2>2, <3>1
        <3>3. k - n \in 1..(N - n) /\ less[k - n] = saved[k] /\ for[k - n] = roles[k]
            BY <1>1, <1>2, <1>5, <3>2
        <3> QED
            BY <1>3, <3>1, <3>3 DEF Branches
    <2> QED
        BY <2>1, <2>2
<1>7. ASSUME NEW k \in 1..(N - n), NEW l \in 1..(N - n), k # l, for[k] # "loop", for[l] # "loop"
      PROVE  less[k] # less[l]
    <2>1. n + k \in DOMAIN roles /\ n + l \in DOMAIN roles /\ n + k # n + l
        BY <1>3, <1>4, <1>7
    <2>2. roles[n + k] # "loop" /\ roles[n + l] # "loop"
        BY <1>2, <1>7
    <2>3. saved[n + k] # saved[n + l]
        BY <2>1, <2>2 DEF BranchesDiffer
    <2> QED
        BY <1>1, <2>3
<1>8. ASSUME NEW k \in 1..(N - n), for[k] = "loop"
      PROVE  less[k] \in A \ {0}
    <2>1. n + k \in DOMAIN roles /\ roles[n + k] = "loop" /\ less[k] = saved[n + k]
        BY <1>1, <1>2, <1>3, <1>4, <1>8
    <2> QED
        BY <2>1 DEF LoopsStart
<1>9. BranchesDiffer(less, for)
    BY <1>3, <1>7 DEF BranchesDiffer
<1>11. LoopsStart(less, for, A)
    BY <1>3, <1>8 DEF LoopsStart
<1>10. Len(for) = Len(less)
    BY <1>1, <1>2
<1> QED
    BY <1>1, <1>2, <1>6, <1>9, <1>10, <1>11

-----------------------------------------------------------------------------
(* Each step inside a function                                               *)

LEMMA InFunctionFacts ==
    ASSUME NEW s \in States, NEW roles \in Seq(Roles), Len(roles) = Len(s.saved), InFunction(s, roles)
    PROVE  /\ s.code \in Codes /\ s.pc \in Nat /\ s.saved \in Seq(Nat)
           /\ s.pc # 0 /\ s.pc \notin DOMAIN s.code
           /\ \A a \in Addresses(s.code, s.pc) : a \in Nat /\ a <= s.pc
           /\ s.pc \notin Branches(s.saved, roles)
<1>1. s.code \in Codes /\ s.pc \in Nat /\ s.saved \in Seq(Nat)
    BY DEF States
<1>2. \A a \in DOMAIN s.code : a \in Nat /\ a < s.pc
    BY <1>1, CodesType, Widths DEF InFunction, Laid
<1>3. 0 \in DOMAIN s.code /\ Branches(s.saved, roles) \subseteq DOMAIN s.code
    BY DEF InFunction, Laid, Branching
<1> QED
    BY <1>1, <1>2, <1>3 DEF Addresses

\* An instruction that is no branch, or a br back.
LEMMA EmitKeeps ==
    ASSUME NEW s \in States, NEW roles \in Seq(Roles), Len(roles) = Len(s.saved), InFunction(s, roles),
           NEW ins \in Instr, ins.op \notin (JumpOps \ {"br"}) \cup {"met", "endmet"},
           ins.op = "br" => ins.to \in Addresses(s.code, s.pc) \ {0}
    PROVE  InFunction(emit(s, ins), roles)
<1> DEFINE t == emit(s, ins)
           P == Branches(s.saved, roles)
<1>1. /\ t.code = Extended(s.code, s.pc, ins) /\ t.pc = s.pc + Width(ins.op)
      /\ t.saved = s.saved
    BY EmitFields
<1>2. /\ s.code \in Codes /\ s.pc \in Nat /\ s.pc \notin P
      /\ Laid(s.code, s.pc) /\ Branching(s.code, s.pc, P) /\ Reached(s.code, Addresses(s.code, s.pc), P)
    BY InFunctionFacts DEF InFunction
<1> HIDE DEF t, P
<1>3. Laid(t.code, t.pc) /\ Branching(t.code, t.pc, P)
    BY <1>1, <1>2, ExtendedLaid, ExtendedBranching
<1>4. Reached(t.code, Addresses(s.code, s.pc), P)
    BY <1>1, <1>2, ExtendedReached
<1>5. Addresses(t.code, t.pc) = Addresses(s.code, s.pc) \cup {t.pc}
    BY <1>1 DEF Addresses, Extended
<1>6. FallsInto(t.code, t.pc) \/ BehindKnownLoop(t.code, P, t.pc)
    <2>1. CASE ins.op # "br"
        BY <1>1, <1>2, <2>1, ExtendedFallsInto
    <2>2. CASE ins.op = "br"
        <3>1. s.pc \in DOMAIN t.code \ P /\ t.code[s.pc] = ins
            BY <1>1, <1>2 DEF Extended
        <3>2. ins.to <= s.pc
            BY <2>2, InFunctionFacts
        <3> QED
            BY <1>1, <2>2, <3>1, <3>2 DEF BehindKnownLoop
    <2> QED
        BY <2>1, <2>2
<1>7. Reached(t.code, Addresses(t.code, t.pc), P)
    BY <1>4, <1>5, <1>6 DEF Reached
<1>8. LoopsStart(t.saved, roles, Addresses(t.code, t.pc)) /\ BranchesDiffer(t.saved, roles)
    BY <1>1, <1>5 DEF InFunction, LoopsStart
<1> QED
    BY <1>1, <1>3, <1>7, <1>8 DEF InFunction, t, P

LEMMA BranchKeeps ==
    ASSUME NEW s \in States, NEW roles \in Seq(Roles), Len(roles) = Len(s.saved), InFunction(s, roles),
           NEW op \in BoolOps, NEW role \in Roles \ {"loop"}
    PROVE  /\ branch(s, op) \in States
           /\ <<role>> \o roles \in Seq(Roles)
           /\ Len(<<role>> \o roles) = Len(branch(s, op).saved)
           /\ InFunction(branch(s, op), <<role>> \o roles)
<1> DEFINE t   == branch(s, op)
           ins == [op |-> op, to |-> 0]
           P   == Branches(s.saved, roles)
           for == <<role>> \o roles
           R   == P \cup {s.pc}
<1>1. op \in JumpOps /\ op \notin {"met", "endmet", "br"}
    BY DEF BoolOps, JumpOps
<1>2. /\ ins \in Instr /\ ins.op = op /\ ins.to = 0
      /\ t \in States /\ t.code = Extended(s.code, s.pc, ins) /\ t.pc = s.pc + 10
      /\ t.saved = <<s.pc>> \o s.saved
    BY <1>1, BranchFields
<1>3. /\ s.code \in Codes /\ s.pc \in Nat /\ s.saved \in Seq(Nat) /\ s.pc \notin P
      /\ Laid(s.code, s.pc) /\ Branching(s.code, s.pc, P) /\ Reached(s.code, Addresses(s.code, s.pc), P)
      /\ BranchesDiffer(s.saved, roles) /\ LoopsStart(s.saved, roles, Addresses(s.code, s.pc))
    BY InFunctionFacts DEF InFunction
<1>4. Width(ins.op) = 10
    BY <1>1, <1>2, Widths
<1> HIDE DEF t, ins, P
<1>5. Laid(t.code, t.pc) /\ Branching(t.code, t.pc, R)
    BY <1>1, <1>2, <1>3, <1>4, ExtendedLaid, ExtendedBranching
<1>6. Reached(t.code, Addresses(s.code, s.pc), R) /\ FallsInto(t.code, t.pc)
    <2>1. Reached(t.code, Addresses(s.code, s.pc), R)
        BY <1>2, <1>3, ExtendedReached
    <2>2. FallsInto(Extended(s.code, s.pc, ins), s.pc + Width(ins.op))
        BY <1>1, <1>2, <1>3, ExtendedFallsInto
    <2> QED
        BY <1>2, <1>4, <2>1, <2>2
<1>7. Addresses(t.code, t.pc) = Addresses(s.code, s.pc) \cup {t.pc}
    BY <1>2 DEF Addresses, Extended
<1>8. Reached(t.code, Addresses(t.code, t.pc), R)
    BY <1>6, <1>7 DEF Reached
<1>9. /\ for \in Seq(Roles) /\ Len(for) = Len(t.saved)
      /\ Branches(t.saved, for) = R
      /\ BranchesDiffer(t.saved, for)
      /\ LoopsStart(t.saved, for, Addresses(t.code, t.pc))
    <2> DEFINE A == Addresses(t.code, t.pc)
    <2>1. LoopsStart(s.saved, roles, A)
        BY <1>3, <1>7 DEF LoopsStart
    <2>2. role \in Roles /\ role # "loop" /\ s.pc \notin Branches(s.saved, roles)
        BY <1>3 DEF P
    <2> HIDE DEF A
    <2>3. /\ for \in Seq(Roles) /\ Len(for) = Len(t.saved)
          /\ Branches(t.saved, for) = Branches(s.saved, roles) \cup {s.pc}
          /\ BranchesDiffer(t.saved, for)
          /\ LoopsStart(t.saved, for, A)
        <3>1. Prepends(t.saved, s.pc, s.saved) /\ Prepends(for, role, roles)
            BY <1>2 DEF Prepends
        <3> HIDE DEF for
        <3> QED
            BY <1>3, <2>1, <2>2, <3>1, SavedPushed
    <2> QED
        BY <2>3 DEF P, A
<1> QED
    BY <1>2, <1>5, <1>8, <1>9 DEF InFunction, t

LEMMA SaveKeeps ==
    ASSUME NEW s \in States, NEW roles \in Seq(Roles), Len(roles) = Len(s.saved), InFunction(s, roles)
    PROVE  /\ save(s) \in States
           /\ <<"loop">> \o roles \in Seq(Roles)
           /\ Len(<<"loop">> \o roles) = Len(save(s).saved)
           /\ InFunction(save(s), <<"loop">> \o roles)
<1> DEFINE t   == save(s)
           P   == Branches(s.saved, roles)
           for == <<"loop">> \o roles
           A   == Addresses(s.code, s.pc)
<1>1. <<s.pc>> \o s.saved \in Seq(Nat)
    BY InFunctionFacts, Pushed
<1>2. t = [s EXCEPT !.saved = <<s.pc>> \o s.saved]
    BY DEF save, States
<1>3. /\ t \in States /\ t.code = s.code /\ t.pc = s.pc /\ t.saved = <<s.pc>> \o s.saved
    BY <1>1, <1>2 DEF States
<1>4. /\ s.pc \in Nat /\ s.saved \in Seq(Nat) /\ s.pc \in A \ {0}
      /\ BranchesDiffer(s.saved, roles) /\ LoopsStart(s.saved, roles, A)
    BY InFunctionFacts DEF InFunction, Addresses
<1> HIDE DEF t, A
<1>5. /\ for \in Seq(Roles) /\ Len(for) = Len(t.saved)
      /\ Branches(t.saved, for) = P
      /\ BranchesDiffer(t.saved, for)
      /\ LoopsStart(t.saved, for, A)
    <2> DEFINE role == "loop"
    <2>1. role \in Roles /\ role = "loop"
        BY DEF Roles
    <2>2. Prepends(t.saved, s.pc, s.saved) /\ Prepends(for, role, roles)
        BY <1>3 DEF Prepends
    <2>3. for \in Seq(Roles) /\ Len(for) = Len(t.saved)
        BY <1>3, <1>4, Pushed DEF Roles
    <2>5. IF role = "loop" THEN s.pc \in A \ {0} ELSE s.pc \notin Branches(s.saved, roles)
        BY <1>4, <2>1
    <2>6. /\ s.pc \in Nat /\ s.saved \in Seq(Nat) /\ Len(roles) = Len(s.saved)
          /\ BranchesDiffer(s.saved, roles) /\ LoopsStart(s.saved, roles, A)
        BY <1>4
    <2> HIDE DEF for, role, P
    <2>7. Branches(t.saved, for) = Branches(s.saved, roles)
        BY <2>1, <2>2, <2>5, <2>6, SavedPushed
    <2>8. BranchesDiffer(t.saved, for)
        BY <2>1, <2>2, <2>5, <2>6, SavedPushed
    <2>9. LoopsStart(t.saved, for, A)
        BY <2>1, <2>2, <2>5, <2>6, SavedPushed
    <2> QED
        BY <2>3, <2>7, <2>8, <2>9 DEF P
<1> QED
    BY <1>3, <1>5 DEF InFunction, t, A

LEMMA FromFirst ==
    ASSUME NEW saved \in Seq(Nat)
    PROVE  \A n \in 0..Len(saved) :
                SubSeq(saved, 1, 1 - 1) \o SubSeq(saved, n + 1, Len(saved)) = SubSeq(saved, n + 1, Len(saved))
<1> TAKE n \in 0..Len(saved)
<1>1. SubSeq(saved, 1, 1 - 1) = << >>
    OBVIOUS
<1>2. SubSeq(saved, n + 1, Len(saved)) \in Seq(Nat)
    BY Dropped
<1> QED
    BY <1>1, <1>2, ConcatEmptySeq

\* The newest n branches go here.
LEMMA RewriteKeeps ==
    ASSUME NEW s \in States, NEW roles \in Seq(Roles), Len(roles) = Len(s.saved), InFunction(s, roles),
           NEW n \in 0..Len(roles), \A k \in 1..n : roles[k] # "loop"
    PROVE  LET t   == rewrite(s, 1, n)
               for == SubSeq(roles, n + 1, Len(roles))
           IN  /\ t \in States /\ for \in Seq(Roles) /\ Len(for) = Len(t.saved)
               /\ InFunction(t, for)
               /\ t.saved = SubSeq(s.saved, n + 1, Len(s.saved))
               /\ t.funcs = s.funcs
<1> DEFINE t    == rewrite(s, 1, n)
           for  == SubSeq(roles, n + 1, Len(roles))
           less == SubSeq(s.saved, n + 1, Len(s.saved))
           P    == Branches(s.saved, roles)
           Q    == SavedIn(s, 1, n)
           A    == Addresses(s.code, s.pc)
<1>1. /\ s.code \in Codes /\ s.pc \in Nat /\ s.pc # 0 /\ s.saved \in Seq(Nat)
      /\ Laid(s.code, s.pc) /\ Branching(s.code, s.pc, P) /\ Reached(s.code, A, P)
      /\ BranchesDiffer(s.saved, roles) /\ LoopsStart(s.saved, roles, A)
    BY InFunctionFacts DEF InFunction
<1>2. DOMAIN roles = 1..Len(roles) /\ Len(roles) \in Nat /\ n \in Nat /\ n <= Len(roles)
    BY LenProperties
<1>3. Q \subseteq P
    BY <1>2 DEF Branches, SavedIn
<1>4. Rewritten(s.code, Q, s.pc) \in Codes
    <2> HIDE DEF Q, P
    <2> QED
        BY <1>1, <1>3, RewrittenFacts
<1>5. less = Others(s, 1, n) /\ less \in Seq(Nat)
    BY <1>1, <1>2, FromFirst, Dropped DEF Others
<1>6. t \in States /\ t.code = Rewritten(s.code, Q, s.pc) /\ t.pc = s.pc /\ t.saved = less /\ t.funcs = s.funcs
    <2> HIDE DEF less
    <2> QED
        BY <1>4, <1>5, RewriteFields DEF t
<1>7. Q = {s.saved[k] : k \in {l \in 1..n : roles[l] # "loop"}}
    BY DEF SavedIn
<1>8. Drops(less, n, s.saved) /\ Drops(for, n, roles)
    BY DEF Drops
<1>9. for \in Seq(Roles) /\ Len(for) = Len(less)
    BY <1>1, Dropped
<1> HIDE DEF t, for, less, P, Q, A
<1>10. Laid(t.code, t.pc) /\ Branching(t.code, t.pc, P \ Q) /\ Reached(t.code, A, P \ Q)
    <2>1. Laid(t.code, t.pc)
        BY <1>1, <1>3, <1>6, RewrittenLaid
    <2>2. Branching(t.code, t.pc, P \ Q)
        BY <1>1, <1>3, <1>6, RewrittenBranching
    <2>3. Reached(t.code, A, P \ Q)
        BY <1>1, <1>3, <1>6, RewrittenReached
    <2> QED
        BY <2>1, <2>2, <2>3
<1>11. Addresses(t.code, t.pc) = A
    BY <1>6 DEF Addresses, Rewritten, A
<1>12. n \in 0..Len(s.saved)
    BY <1>2
<1>13. Branches(t.saved, for) = P \ Q
    BY <1>1, <1>6, <1>7, <1>8, <1>12, SavedDropped DEF P
<1>14. BranchesDiffer(t.saved, for) /\ LoopsStart(t.saved, for, A)
    BY <1>1, <1>6, <1>8, <1>12, SavedDropped
<1>15. InFunction(t, for)
    BY <1>10, <1>11, <1>13, <1>14 DEF InFunction
<1> QED
    BY <1>6, <1>9, <1>15 DEF t, for, less

LEMMA TailIsRest ==
    ASSUME NEW S, NEW s \in Seq(S), s # << >>
    PROVE  Tail(s) = SubSeq(s, 1 + 1, Len(s)) /\ 1 \in 0..Len(s) /\ Len(s) \in Nat \ {0}
<1>1. Len(s) \in Nat \ {0}
    BY LenProperties, EmptySeq
<1> QED
    BY <1>1, TailIsSubSeq

\* A loop's start is forgotten.
LEMMA ForgetKeeps ==
    ASSUME NEW s \in States, NEW roles \in Seq(Roles), Len(roles) = Len(s.saved), InFunction(s, roles),
           roles # << >>, roles[1] = "loop"
    PROVE  LET t == [s EXCEPT !.saved = Tail(@)]
           IN  /\ t \in States /\ Tail(roles) \in Seq(Roles) /\ Len(Tail(roles)) = Len(t.saved)
               /\ InFunction(t, Tail(roles))
               /\ t.funcs = s.funcs
<1> DEFINE t    == [s EXCEPT !.saved = Tail(@)]
           less == Tail(s.saved)
           for  == Tail(roles)
           P    == Branches(s.saved, roles)
           A    == Addresses(s.code, s.pc)
<1>1. /\ s.saved \in Seq(Nat)
      /\ Laid(s.code, s.pc) /\ Branching(s.code, s.pc, P) /\ Reached(s.code, A, P)
      /\ BranchesDiffer(s.saved, roles) /\ LoopsStart(s.saved, roles, A)
    BY InFunctionFacts DEF InFunction
<1>2. s.saved # << >>
    BY <1>1, LenProperties, EmptySeq
<1>3. /\ less = SubSeq(s.saved, 1 + 1, Len(s.saved)) /\ 1 \in 0..Len(s.saved)
      /\ for = SubSeq(roles, 1 + 1, Len(roles))
    BY <1>1, <1>2, TailIsRest
<1>4. Drops(less, 1, s.saved) /\ Drops(for, 1, roles)
    BY <1>3 DEF Drops
<1>5. less \in Seq(Nat) /\ for \in Seq(Roles) /\ Len(for) = Len(less)
    BY <1>1, <1>3, Dropped
<1>6. /\ t \in States /\ t.saved = less /\ t.code = s.code /\ t.pc = s.pc /\ t.funcs = s.funcs
    BY <1>5 DEF States
<1>7. {s.saved[k] : k \in {l \in 1..1 : roles[l] # "loop"}} = {}
    OBVIOUS
<1> HIDE DEF t, less, for, A
<1>8. Branches(less, for) = P
    <2>1. Branches(less, for)
            = Branches(s.saved, roles) \ {s.saved[k] : k \in {l \in 1..1 : roles[l] # "loop"}}
        BY <1>1, <1>3, <1>4, SavedDropped
    <2> QED
        BY <1>7, <2>1
<1>9. BranchesDiffer(less, for) /\ LoopsStart(less, for, A)
    BY <1>1, <1>3, <1>4, SavedDropped
<1>10. InFunction(t, for)
    BY <1>1, <1>6, <1>8, <1>9 DEF InFunction, A
<1> QED
    BY <1>5, <1>6, <1>10 DEF t, less, for

\* The second of three, behind the br that was put before it.
LEMMA OthersOfElse ==
    ASSUME NEW saved \in Seq(Nat), saved # << >>, NEW x \in Nat, NEW t, t.saved = <<x>> \o saved
    PROVE  /\ Others(t, 2, 2) = <<x>> \o Tail(saved)
           /\ SavedIn(t, 2, 2) = {saved[1]}
           /\ Tail(saved) \in Seq(Nat)
<1> DEFINE more == <<x>> \o saved
<1>1. /\ more \in Seq(Nat) /\ Len(more) = Len(saved) + 1 /\ more[1] = x
      /\ \A k \in 2..(Len(saved) + 1) : more[k] = saved[k - 1]
    BY Pushed
<1>2. Len(saved) \in Nat \ {0} /\ Tail(saved) \in Seq(Nat)
    BY EmptySeq, LenProperties, HeadTailProperties
<1>3. Tail(saved) = SubSeq(saved, 2, Len(saved))
    BY <1>2, TailIsSubSeq
<1> HIDE DEF more
<1>4. SubSeq(more, 1, 1) = <<x>>
    <2> DEFINE u == SubSeq(more, 1, 1)
               v == <<x>>
    <2>1. u \in Seq(Nat) /\ Len(u) = 1 /\ u[1] = more[1]
        BY <1>1, <1>2
    <2>2. v \in Seq(Nat) /\ Len(v) = 1 /\ v[1] = x
        OBVIOUS
    <2> HIDE DEF u, v
    <2>3. u = v
        BY <1>1, <2>1, <2>2, SeqEqual
    <2> QED
        BY <2>3 DEF u, v
<1>5. SubSeq(more, 3, Len(more)) = SubSeq(saved, 2, Len(saved))
    <2>1. 2 \in 0..Len(more) /\ 1 \in 0..Len(saved)
        BY <1>1, <1>2
    <2>2. /\ SubSeq(more, 2 + 1, Len(more)) \in Seq(Nat)
          /\ Len(SubSeq(more, 2 + 1, Len(more))) = Len(more) - 2
          /\ \A k \in 1..(Len(more) - 2) : SubSeq(more, 2 + 1, Len(more))[k] = more[2 + k]
        BY <1>1, <2>1, Dropped
    <2>3. /\ SubSeq(saved, 1 + 1, Len(saved)) \in Seq(Nat)
          /\ Len(SubSeq(saved, 1 + 1, Len(saved))) = Len(saved) - 1
          /\ \A k \in 1..(Len(saved) - 1) : SubSeq(saved, 1 + 1, Len(saved))[k] = saved[1 + k]
        BY <2>1, Dropped
    <2>4. \A k \in 1..(Len(saved) - 1) : more[2 + k] = saved[1 + k]
        BY <1>1, <1>2
    <2> DEFINE u == SubSeq(more, 2 + 1, Len(more))
               v == SubSeq(saved, 1 + 1, Len(saved))
    <2> HIDE DEF u, v
    <2>7. Len(more) - 2 = Len(saved) - 1 /\ Len(saved) - 1 \in Nat
        BY <1>1, <1>2
    <2>8. u \in Seq(Nat) /\ Len(u) = Len(saved) - 1 /\ \A k \in 1..(Len(saved) - 1) : u[k] = more[2 + k]
        BY <2>2, <2>7 DEF u
    <2>9. v \in Seq(Nat) /\ Len(v) = Len(saved) - 1 /\ \A k \in 1..(Len(saved) - 1) : v[k] = saved[1 + k]
        BY <2>3 DEF v
    <2>5. \A k \in 1..(Len(saved) - 1) : u[k] = v[k]
        BY <2>4, <2>8, <2>9
    <2>6. u = v
        BY <2>5, <2>8, <2>9, SeqEqual
    <2> QED
        BY <2>6 DEF u, v
<1>6. Others(t, 2, 2) = <<x>> \o Tail(saved)
    BY <1>3, <1>4, <1>5 DEF Others, more
<1>7. more[2] = saved[1]
    BY <1>1, <1>2
<1>8. SavedIn(t, 2, 2) = {saved[1]}
    BY <1>7 DEF SavedIn, more
<1> QED
    BY <1>2, <1>6, <1>8

LEMMA ElseKeeps ==
    ASSUME NEW s \in States, NEW roles \in Seq(Roles), Len(roles) = Len(s.saved), InFunction(s, roles),
           roles # << >>, roles[1] # "loop"
    PROVE  LET t   == start_else(s)
               for == <<"else">> \o Tail(roles)
           IN  /\ t \in States /\ for \in Seq(Roles) /\ Len(for) = Len(t.saved)
               /\ InFunction(t, for)
               /\ t.funcs = s.funcs
<1> DEFINE m    == branch(s, "br")
           t    == start_else(s)
           ins  == [op |-> "br", to |-> 0]
           for  == <<"else">> \o Tail(roles)
           P    == Branches(s.saved, roles)
           R    == P \cup {s.pc}
           x    == s.saved[1]
           A    == Addresses(s.code, s.pc)
           B    == Addresses(m.code, m.pc)
<1>1. /\ s.code \in Codes /\ s.pc \in Nat /\ s.pc # 0 /\ s.saved \in Seq(Nat) /\ s.pc \notin P
      /\ Laid(s.code, s.pc) /\ Branching(s.code, s.pc, P) /\ Reached(s.code, A, P)
      /\ BranchesDiffer(s.saved, roles) /\ LoopsStart(s.saved, roles, A)
    BY InFunctionFacts DEF InFunction
<1>2. s.saved # << >> /\ 1 \in DOMAIN roles /\ Len(roles) \in Nat \ {0}
    BY <1>1, LenProperties, EmptySeq
<1>3. "br" \in JumpOps
    BY DEF JumpOps
<1>4. /\ ins \in Instr /\ ins.op = "br" /\ ins.to = 0
      /\ m \in States /\ m.code = Extended(s.code, s.pc, ins) /\ m.pc = s.pc + 10
      /\ m.saved = <<s.pc>> \o s.saved /\ m.funcs = s.funcs
    BY <1>3, BranchFields
<1>5. Width(ins.op) = 10
    BY <1>3, <1>4, Widths
<1>6. x \in P /\ x \in Nat
    BY <1>1, <1>2 DEF Branches
<1>7. /\ Others(m, 2, 2) = <<s.pc>> \o Tail(s.saved)
      /\ SavedIn(m, 2, 2) = {x}
      /\ Tail(s.saved) \in Seq(Nat)
    BY <1>1, <1>2, <1>4, OthersOfElse
<1>8. Others(m, 2, 2) \in Seq(Nat)
    <2>1. <<s.pc>> \o Tail(s.saved) \in Seq(Nat)
        BY <1>1, <1>7, Pushed
    <2> QED
        BY <1>7, <2>1
<1> HIDE DEF m, ins, P, x, A, B
<1>9. m.code \in Codes /\ m.pc \in Nat /\ m.pc # 0
    BY <1>1, <1>4 DEF States
<1>10. Laid(m.code, m.pc) /\ Branching(m.code, m.pc, R) /\ Reached(m.code, A, R)
    <2>1. Laid(m.code, m.pc)
        BY <1>1, <1>4, <1>5, ExtendedLaid
    <2>2. Branching(m.code, m.pc, R)
        BY <1>1, <1>3, <1>4, <1>5, ExtendedBranching
    <2>3. R = P \/ R = P \cup {s.pc}
        OBVIOUS
    <2> HIDE DEF R
    <2>5. /\ s.code \in Codes /\ s.pc \in Nat /\ Laid(s.code, s.pc) /\ Reached(s.code, A, P)
          /\ ins \in Instr
        BY <1>1, <1>4
    <2>6. Reached(Extended(s.code, s.pc, ins), A, R)
        BY <2>3, <2>5, ExtendedReached
    <2>4. Reached(m.code, A, R)
        BY <1>4, <2>6
    <2> QED
        BY <2>1, <2>2, <2>4
<1> DEFINE Q == {x}
<1>11. Q \subseteq R /\ Q # {}
    BY <1>6
<1> HIDE DEF R, Q
<1>12. Rewritten(m.code, Q, m.pc) \in Codes
    BY <1>9, <1>10, <1>11, RewrittenFacts
<1>13. t \in States /\ t.code = Rewritten(m.code, Q, m.pc) /\ t.pc = m.pc /\ t.saved = <<s.pc>> \o Tail(s.saved)
       /\ t.funcs = s.funcs
    <2>1. Q = SavedIn(m, 2, 2)
        BY <1>7 DEF Q
    <2>2. t = rewrite(m, 2, 2)
        BY DEF start_else, m
    <2> HIDE DEF t
    <2>3. Rewritten(m.code, SavedIn(m, 2, 2), m.pc) \in Codes
        BY <1>12, <2>1
    <2>4. /\ t \in States /\ t.code = Rewritten(m.code, SavedIn(m, 2, 2), m.pc) /\ t.pc = m.pc
          /\ t.saved = Others(m, 2, 2) /\ t.funcs = m.funcs
        BY <1>4, <1>8, <2>2, <2>3, RewriteFields
    <2> QED
        BY <1>4, <1>7, <2>1, <2>4
<1> HIDE DEF t
<1>14. Laid(t.code, t.pc) /\ Branching(t.code, t.pc, R \ Q)
    <2>1. Laid(t.code, t.pc)
        BY <1>9, <1>10, <1>11, <1>13, RewrittenLaid
    <2>2. Branching(t.code, t.pc, R \ Q)
        BY <1>9, <1>10, <1>11, <1>13, RewrittenBranching
    <2> QED
        BY <2>1, <2>2
<1>15. Addresses(t.code, t.pc) = A \cup {t.pc} /\ A \subseteq B /\ Addresses(t.code, t.pc) = B
    BY <1>4, <1>13 DEF Addresses, Rewritten, Extended, A, B
<1>16. Reached(t.code, A, R \ Q) /\ JumpsTo(t.code, t.pc)
    <2>1. Reached(t.code, A, R \ Q)
        BY <1>9, <1>10, <1>11, <1>13, RewrittenReached
    <2>2. Q # {} => JumpsTo(t.code, t.pc)
        BY <1>9, <1>10, <1>11, <1>13, RewrittenReached
    <2> QED
        BY <1>11, <2>1, <2>2
<1>17. Reached(t.code, Addresses(t.code, t.pc), R \ Q)
    BY <1>15, <1>16 DEF Reached
<1> DEFINE less == Tail(s.saved)
           rest == Tail(roles)
<1>18. /\ less \in Seq(Nat) /\ rest \in Seq(Roles) /\ Len(rest) = Len(less)
       /\ Branches(less, rest) = P \ {x}
       /\ BranchesDiffer(less, rest) /\ LoopsStart(less, rest, B)
    <2>1. /\ less = SubSeq(s.saved, 1 + 1, Len(s.saved)) /\ 1 \in 0..Len(s.saved)
          /\ rest = SubSeq(roles, 1 + 1, Len(roles))
        BY <1>1, <1>2, TailIsRest
    <2>2. Drops(less, 1, s.saved) /\ Drops(rest, 1, roles)
        BY <2>1 DEF Drops
    <2>3. less \in Seq(Nat) /\ rest \in Seq(Roles) /\ Len(rest) = Len(less)
        BY <1>1, <2>1, Dropped
    <2>4. LoopsStart(s.saved, roles, B)
        BY <1>1, <1>15 DEF LoopsStart
    <2>5. {s.saved[k] : k \in {l \in 1..1 : roles[l] # "loop"}} = {x}
        BY DEF x
    <2> HIDE DEF less, rest
    <2>6. Branches(less, rest)
            = Branches(s.saved, roles) \ {s.saved[k] : k \in {l \in 1..1 : roles[l] # "loop"}}
        BY <1>1, <2>1, <2>2, <2>4, SavedDropped
    <2>7. BranchesDiffer(less, rest) /\ LoopsStart(less, rest, B)
        BY <1>1, <2>1, <2>2, <2>4, SavedDropped
    <2> QED
        BY <2>3, <2>5, <2>6, <2>7 DEF P
<1>19. Branches(t.saved, for) = R \ Q /\ BranchesDiffer(t.saved, for) /\ LoopsStart(t.saved, for, B)
       /\ for \in Seq(Roles) /\ Len(for) = Len(t.saved)
    <2> DEFINE role == "else"
    <2>1. role \in Roles /\ role # "loop"
        BY DEF Roles
    <2>2. Prepends(t.saved, s.pc, less) /\ Prepends(for, role, rest)
        BY <1>13 DEF Prepends
    <2>3. for \in Seq(Roles) /\ Len(for) = Len(t.saved)
        BY <1>1, <1>13, <1>18, <2>1, Pushed
    <2>4. s.pc \notin Branches(less, rest)
        BY <1>1, <1>18
    <2>5. R \ Q = (P \ {x}) \cup {s.pc}
        BY <1>1, <1>6 DEF R, Q
    <2> HIDE DEF role, less, rest, for
    <2>6. Branches(t.saved, for) = Branches(less, rest) \cup {s.pc}
        BY <1>1, <1>18, <2>1, <2>2, <2>4, SavedPushed
    <2>7. BranchesDiffer(t.saved, for)
        BY <1>1, <1>18, <2>1, <2>2, <2>4, SavedPushed
    <2>8. LoopsStart(t.saved, for, B)
        BY <1>1, <1>18, <2>1, <2>2, <2>4, SavedPushed
    <2> QED
        BY <1>18, <2>3, <2>5, <2>6, <2>7, <2>8
<1>20. InFunction(t, for)
    BY <1>14, <1>15, <1>17, <1>19 DEF InFunction
<1> QED
    BY <1>13, <1>19, <1>20 DEF t

LEMMA TailOfRest ==
    ASSUME NEW S, NEW s \in Seq(S), NEW n \in 0..(Len(s) - 1)
    PROVE  /\ n \in 0..Len(s)
           /\ SubSeq(s, n + 1, Len(s)) # << >>
           /\ SubSeq(s, n + 1, Len(s))[1] = s[n + 1]
           /\ Tail(SubSeq(s, n + 1, Len(s))) = SubSeq(s, n + 2, Len(s))
<1> DEFINE N    == Len(s)
           rest == SubSeq(s, n + 1, N)
           less == SubSeq(s, (n + 1) + 1, N)
<1>1. N \in Nat /\ n \in 0..N /\ n + 1 \in 0..N /\ N - n \in Nat /\ N - n >= 1
    BY LenProperties
<1>2. /\ rest \in Seq(S) /\ Len(rest) = N - n
      /\ \A k \in 1..(N - n) : rest[k] = s[n + k]
    BY <1>1, Dropped
<1>3. /\ less \in Seq(S) /\ Len(less) = N - (n + 1)
      /\ \A k \in 1..(N - (n + 1)) : less[k] = s[(n + 1) + k]
    BY <1>1, Dropped
<1>4. rest # << >>
    <2> HIDE DEF rest
    <2>1. Len(rest) # 0 /\ Len(<< >>) = 0
        BY <1>1, <1>2, EmptySeq
    <2> QED
        BY <2>1
<1>5. less = SubSeq(s, n + 2, N)
    BY <1>1
<1> HIDE DEF N, rest, less
<1>6. /\ Tail(rest) \in Seq(S) /\ Len(Tail(rest)) = Len(rest) - 1
      /\ \A k \in 1..Len(Tail(rest)) : Tail(rest)[k] = rest[k + 1]
    BY <1>2, <1>4, HeadTailProperties
<1>7. Len(Tail(rest)) = Len(less)
    BY <1>1, <1>2, <1>3, <1>6
<1>8. \A k \in 1..Len(Tail(rest)) : Tail(rest)[k] = less[k]
    <2> TAKE k \in 1..Len(Tail(rest))
    <2>1. /\ k \in 1..(N - (n + 1)) /\ k + 1 \in 1..(N - n)
          /\ n + (k + 1) = (n + 1) + k
        BY <1>1, <1>2, <1>6
    <2> QED
        BY <1>2, <1>3, <1>6, <2>1
<1>9. Tail(rest) = less
    BY <1>3, <1>6, <1>7, <1>8, SeqEqual
<1>10. rest[1] = s[n + 1]
    BY <1>1, <1>2
<1> QED
    BY <1>1, <1>4, <1>5, <1>9, <1>10 DEF N, rest

\* Back to where the loop was saved, whose n guards end behind that br.
LEMMA LoopEndKeeps ==
    ASSUME NEW s \in States, NEW roles \in Seq(Roles), Len(roles) = Len(s.saved), InFunction(s, roles),
           NEW n \in 0..(Len(roles) - 1), roles[n + 1] = "loop", \A k \in 1..n : roles[k] = "guard"
    PROVE  LET t   == emit_loop_end(s, n)
               for == SubSeq(roles, n + 2, Len(roles))
           IN  /\ t \in States /\ for \in Seq(Roles) /\ Len(for) = Len(t.saved)
               /\ InFunction(t, for)
               /\ t.funcs = s.funcs
<1> DEFINE ins    == [op |-> "br", to |-> s.saved[n + 1]]
           e      == emit(s, ins)
           looped == rewrite(e, 1, n)
           rest   == SubSeq(roles, n + 1, Len(roles))
           t      == [looped EXCEPT !.saved = Tail(@)]
           A      == Addresses(s.code, s.pc)
<1>1. n \in Nat /\ n + 1 \in DOMAIN roles /\ n \in 0..Len(roles)
    BY LenProperties
<1>2. s.saved[n + 1] \in A \ {0}
    BY <1>1 DEF InFunction, LoopsStart
<1>3. s.saved[n + 1] \in Nat
    BY <1>2, InFunctionFacts
<1>4. "br" \in JumpOps
    BY DEF JumpOps
<1>5. ins \in Instr /\ ins.op = "br" /\ ins.to \in A \ {0}
    BY <1>2, <1>3, <1>4 DEF Instr
<1> HIDE DEF ins, A
<1>6. e \in States /\ e.saved = s.saved /\ e.funcs = s.funcs
    BY <1>5, EmitFields
<1>7. InFunction(e, roles)
    BY <1>5, EmitKeeps DEF A
<1> HIDE DEF e
<1>8. \A k \in 1..n : roles[k] # "loop"
    OBVIOUS
<1>9. /\ looped \in States /\ rest \in Seq(Roles) /\ Len(rest) = Len(looped.saved)
      /\ InFunction(looped, rest) /\ looped.funcs = e.funcs
    BY <1>1, <1>6, <1>7, <1>8, RewriteKeeps
<1>10. /\ rest # << >> /\ rest[1] = "loop"
       /\ Tail(rest) = SubSeq(roles, n + 2, Len(roles))
    BY TailOfRest
<1> HIDE DEF looped, rest
<1>11. /\ t \in States /\ Tail(rest) \in Seq(Roles) /\ Len(Tail(rest)) = Len(t.saved)
       /\ InFunction(t, Tail(rest)) /\ t.funcs = looped.funcs
    BY <1>9, <1>10, ForgetKeeps
<1>12. t = emit_loop_end(s, n)
    BY DEF t, looped, e, ins, emit_loop_end
<1> QED
    BY <1>6, <1>9, <1>10, <1>11, <1>12

-----------------------------------------------------------------------------
(* The start of a function, and its end                                      *)

LEMMA Remainder ==
    ASSUME NEW n \in Nat
    PROVE  n % Values16 \in UInt16
<1>1. \A m \in Nat \ {0} : n % m \in 0..(m - 1)
    OBVIOUS
<1>2. Values16 \in Nat \ {0}
    BY DEF Values16
<1> QED
    BY <1>1, <1>2 DEF UInt16

LEMMA NoCode == << >> \in Codes /\ DOMAIN << >> = {}
<1>1. << >> \in Seq(Instr) /\ Len(<< >>) = 0
    BY EmptySeq
<1>2. << >> \in [1..0 -> Instr] /\ DOMAIN << >> = 1..0
    BY <1>1, LenProperties
<1>3. 1..0 = {}
    OBVIOUS
<1> QED
    BY <1>2, <1>3 DEF Codes

LEMMA BeginKeeps ==
    ASSUME NEW s \in States, s.saved = << >>, NEW argc \in Nat
    PROVE  LET t == begin_function(s, argc)
           IN  t \in States /\ t.saved = << >> /\ t.funcs = s.funcs /\ InFunction(t, << >>)
<1> DEFINE m   == [s EXCEPT !.code = << >>, !.pc = 0]
           ins == [op |-> "met", argc |-> argc % Values16]
           t   == begin_function(s, argc)
           no  == << >>
<1>1. << >> \in Codes /\ DOMAIN << >> = {}
    BY NoCode
<1>2. m \in States /\ m.code = << >> /\ m.pc = 0 /\ m.saved = << >> /\ m.funcs = s.funcs
    BY <1>1 DEF States
<1>3. ins \in Instr /\ ins.op = "met"
    <2>1. argc % Values16 \in UInt16
        BY Remainder
    <2>2. ins \in [op : {"met"}, argc : UInt16] /\ ins.op = "met"
        BY <2>1
    <2> QED
        BY <2>2 DEF Instr
<1>4. t = emit(m, ins)
    BY DEF begin_function
<1>5. Width("met") \in Nat \ {0}
    BY Widths
<1> HIDE DEF m, ins, t
<1>6. /\ t \in States /\ t.code = Extended(m.code, m.pc, ins) /\ t.pc = m.pc + Width(ins.op)
      /\ t.saved = m.saved /\ t.funcs = m.funcs
    BY <1>2, <1>3, <1>4, EmitFields
<1>7. t.code = Extended(<< >>, 0, ins) /\ t.pc = Width("met") /\ t.pc \in Nat \ {0}
    BY <1>2, <1>3, <1>5, <1>6
<1>8. DOMAIN t.code = {0} /\ t.code[0] = ins
    BY <1>1, <1>7 DEF Extended
<1>9. Laid(t.code, t.pc)
    BY <1>3, <1>5, <1>7, <1>8 DEF Laid, Addresses
<1>10. DOMAIN no = {}
    BY <1>1
<1> HIDE DEF no
<1>11. Branches(t.saved, no) = {} /\ BranchesDiffer(t.saved, no) /\ LoopsStart(t.saved, no, Addresses(t.code, t.pc))
    BY <1>10 DEF Branches, BranchesDiffer, LoopsStart
<1>12. "met" \notin JumpOps
    BY DEF JumpOps, TestOps, BoolOps
<1>13. Branching(t.code, t.pc, {})
    BY <1>3, <1>8, <1>12 DEF Branching
<1>14. FallsInto(t.code, t.pc)
    BY <1>3, <1>7, <1>8 DEF FallsInto
<1>15. Reached(t.code, Addresses(t.code, t.pc), {})
    BY <1>8, <1>14 DEF Reached, Addresses
<1>16. InFunction(t, no)
    BY <1>9, <1>11, <1>13, <1>15 DEF InFunction
<1> QED
    BY <1>2, <1>6, <1>16 DEF t, no

LEMMA EndFinishes ==
    ASSUME NEW s \in States, s.saved = << >>, InFunction(s, << >>)
    PROVE  LET t == end_function(s)
           IN  /\ t \in States /\ t.saved = << >>
               /\ \E code \in Codes : Finished(code) /\ t.funcs = Append(s.funcs, code)
<1> DEFINE ins  == [op |-> "endmet"]
           e    == emit(s, ins)
           t    == end_function(s)
           no   == << >>
           code == e.code
<1>1. ins \in Instr /\ ins.op = "endmet" /\ "endmet" \notin JumpOps
    BY DEF Instr, PlainOps, JumpOps, TestOps, BoolOps
<1>2. DOMAIN no = {} /\ no \in Seq(Roles) /\ Len(no) = Len(s.saved)
    BY NoCode, EmptySeq
<1>3. InFunction(s, no)
    OBVIOUS
<1> HIDE DEF ins, no
<1>4. Branches(s.saved, no) = {}
    BY <1>2 DEF Branches
<1>5. /\ s.code \in Codes /\ s.pc \in Nat /\ s.pc # 0
      /\ \A a \in DOMAIN s.code : a \in Nat /\ a < s.pc
      /\ Laid(s.code, s.pc) /\ Branching(s.code, s.pc, {}) /\ Reached(s.code, Addresses(s.code, s.pc), {})
    <2>1. /\ s.code \in Codes /\ s.pc \in Nat /\ s.pc # 0 /\ s.pc \notin DOMAIN s.code
          /\ \A a \in Addresses(s.code, s.pc) : a \in Nat /\ a <= s.pc
        BY <1>2, <1>3, InFunctionFacts
    <2>2. \A a \in DOMAIN s.code : a \in Nat /\ a < s.pc
        BY <2>1 DEF Addresses
    <2>3. Laid(s.code, s.pc) /\ Branching(s.code, s.pc, {}) /\ Reached(s.code, Addresses(s.code, s.pc), {})
        BY <1>3, <1>4 DEF InFunction
    <2> QED
        BY <2>1, <2>2, <2>3
<1>6. /\ e \in States /\ code = Extended(s.code, s.pc, ins) /\ e.saved = s.saved /\ e.funcs = s.funcs
    BY <1>1, EmitFields
<1>7. t = [e EXCEPT !.funcs = Append(@, code)]
    BY DEF end_function, ins
<1> HIDE DEF e, t
<1>8. code \in Codes
    BY <1>6 DEF States
<1>9. Append(e.funcs, code) \in Seq(Codes)
    <2>1. e.funcs \in Seq(Codes)
        BY <1>6 DEF States
    <2> QED
        BY <1>8, <2>1
<1>10. t \in States /\ t.saved = << >> /\ t.funcs = Append(s.funcs, code)
    BY <1>6, <1>7, <1>9 DEF States
<1>11. /\ DOMAIN code = Addresses(s.code, s.pc)
       /\ code[s.pc] = ins
       /\ \A a \in DOMAIN s.code : code[a] = s.code[a]
    BY <1>5, <1>6 DEF Extended, Addresses
<1> HIDE DEF code
<1>12. /\ DOMAIN code \subseteq Nat /\ 0 \in DOMAIN code
       /\ \A a \in DOMAIN code : code[a] \in Instr
    BY <1>5, <1>8, <1>11, CodesType DEF Laid, Addresses
<1>13. ASSUME NEW a \in DOMAIN code
       PROVE  /\ (code[a].op = "met") <=> (a = 0)
              /\ code[a].op \in JumpOps => code[a].to \in DOMAIN code \ {0}
              /\ code[a].op \notin {"br", "endmet"} => a + Width(code[a].op) \in DOMAIN code
              /\ \A b \in DOMAIN code : b > a => b >= a + Width(code[a].op)
    <2>1. CASE a = s.pc
        <3>1. \A b \in DOMAIN code : ~ (b > a)
            BY <1>5, <1>11, <2>1 DEF Addresses
        <3> QED
            BY <1>1, <1>5, <1>11, <2>1, <3>1
    <2>2. CASE a \in DOMAIN s.code
        <3>1. code[a] = s.code[a]
            BY <1>11, <2>2
        <3>2. (s.code[a].op = "met" <=> a = 0) /\ a + Width(s.code[a].op) \in DOMAIN code
            BY <1>5, <1>11, <2>2 DEF Laid
        <3>3. \A b \in DOMAIN code : b > a => b >= a + Width(s.code[a].op)
            BY <1>5, <1>11, <2>2 DEF Laid, Addresses
        <3>4. s.code[a].op \in JumpOps => s.code[a].to \in DOMAIN code \ {0}
            BY <1>5, <1>11, <2>2 DEF Branching
        <3> QED
            BY <3>1, <3>2, <3>3, <3>4
    <2> QED
        BY <1>11, <2>1, <2>2 DEF Addresses
<1>14. WellFormedCode(code)
    BY <1>12, <1>13 DEF WellFormedCode
<1>15. Reached(code, DOMAIN code, {})
    <2> DEFINE A == Addresses(s.code, s.pc)
               none == {}
    <2>2. none = none \/ none = none \cup {s.pc}
        OBVIOUS
    <2>3. Reached(s.code, A, none)
        BY <1>5
    <2> HIDE DEF A, none
    <2>4. Reached(Extended(s.code, s.pc, ins), A, none)
        BY <1>1, <1>5, <2>2, <2>3, ExtendedReached
    <2> QED
        BY <1>6, <1>11, <2>4 DEF A, none, code
<1>16. ASSUME NEW a \in DOMAIN code \ {0}
       PROVE  FallsInto(code, a) \/ JumpsTo(code, a) \/ BehindLoop(code, a)
    BY <1>15 DEF Reached, BehindKnownLoop, BehindLoop
<1>17. Finished(code)
    BY <1>14, <1>16 DEF Finished
<1> QED
    BY <1>8, <1>10, <1>17 DEF t

-----------------------------------------------------------------------------
(* The invariant                                                             *)

\* What a step inside a function has to show.
Keeps(s, roles) ==
    /\ s \in States /\ roles \in Seq(Roles) /\ Len(roles) = Len(s.saved)
    /\ InFunction(s, roles)
    /\ s.funcs = st.funcs

LEMMA KeepsIInv ==
    ASSUME IInv, building, building' = TRUE, Keeps(st', open')
    PROVE  IInv'
BY DEF IInv, TypeOK, Keeps

LEMMA InitIInv == Init => IInv
<1> SUFFICES ASSUME Init PROVE IInv
    OBVIOUS
<1>1. << >> \in Codes
    BY NoCode
<1>2. st \in States
    BY <1>1 DEF Init, NothingEmitted, States
<1>3. DOMAIN st.funcs = {}
    BY NoCode DEF Init, NothingEmitted
<1>4. open \in Seq(Roles) /\ Len(open) = Len(st.saved)
    BY EmptySeq DEF Init, NothingEmitted
<1> QED
    BY <1>2, <1>3, <1>4 DEF Init, IInv, TypeOK

LEMMA FunctionStarts == IInv /\ build_function => IInv'
<1> SUFFICES ASSUME IInv, build_function PROVE IInv'
    OBVIOUS
<1>1. PICK argc \in Arguments : st' = begin_function(st, argc)
    BY DEF build_function
<1>2. argc \in Nat
    BY EmissionAssumption
<1>3. st \in States /\ open = << >> /\ st.saved \in Seq(Nat) /\ Len(st.saved) = Len(open)
    BY DEF IInv, TypeOK, build_function, States
<1>4. st.saved = << >>
    BY <1>3, EmptySeq
<1>5. st' \in States /\ st'.saved = << >> /\ st'.funcs = st.funcs /\ InFunction(st', << >>)
    BY <1>1, <1>2, <1>3, <1>4, BeginKeeps
<1>6. open' = << >> /\ building' = TRUE
    BY <1>3 DEF build_function
<1>7. TypeOK'
    BY <1>5, <1>6, EmptySeq DEF TypeOK
<1> QED
    BY <1>5, <1>6, <1>7 DEF IInv

LEMMA FunctionEnds == IInv /\ ends_function => IInv'
<1> SUFFICES ASSUME IInv, ends_function PROVE IInv'
    OBVIOUS
<1>1. /\ st \in States /\ open = << >> /\ st.saved \in Seq(Nat) /\ Len(st.saved) = Len(open)
      /\ InFunction(st, << >>)
    BY DEF IInv, TypeOK, ends_function, States
<1>2. st.saved = << >>
    BY <1>1, EmptySeq
<1>3. /\ st' \in States /\ st'.saved = << >>
      /\ \E code \in Codes : Finished(code) /\ st'.funcs = Append(st.funcs, code)
    BY <1>1, <1>2, EndFinishes DEF ends_function
<1>4. open' = << >> /\ building' = FALSE
    BY <1>1 DEF ends_function
<1>5. TypeOK'
    BY <1>3, <1>4, EmptySeq DEF TypeOK
<1>6. \A i \in DOMAIN st'.funcs : Finished(st'.funcs[i])
    <2>1. PICK code \in Codes : Finished(code) /\ st'.funcs = Append(st.funcs, code)
        BY <1>3
    <2>2. st.funcs \in Seq(Codes)
        BY <1>1 DEF States
    <2>3. \A i \in 1..Len(st.funcs) : Finished(st.funcs[i])
        BY <2>2, LenProperties DEF IInv
    <2>4. /\ DOMAIN st'.funcs = 1..(Len(st.funcs) + 1)
          /\ \A i \in 1..(Len(st.funcs) + 1) :
                st'.funcs[i] = IF i = Len(st.funcs) + 1 THEN code ELSE st.funcs[i]
        BY <2>1, <2>2, AppendProperties
    <2> QED
        BY <2>1, <2>2, <2>3, <2>4, LenProperties
<1> QED
    BY <1>4, <1>5, <1>6 DEF IInv

LEMMA InsideFacts ==
    ASSUME IInv, building \/ open # << >>
    PROVE  /\ st \in States /\ open \in Seq(Roles) /\ Len(open) = Len(st.saved)
           /\ InFunction(st, open) /\ building
BY DEF IInv, TypeOK

LEMMA Emitted == IInv /\ Emits => IInv'
<1> SUFFICES ASSUME IInv, Emits PROVE IInv'
    OBVIOUS
<1>1. PICK ins \in Straight : st' = emit(st, ins)
    BY DEF Emits
<1>2. building /\ open' = open /\ building' = building
    BY DEF Emits
<1>3. st \in States /\ open \in Seq(Roles) /\ Len(open) = Len(st.saved) /\ InFunction(st, open)
    BY <1>2, InsideFacts
<1>4. ins \in Instr /\ ins.op \notin JumpOps \cup {"met", "endmet"} /\ ins.op # "br"
    <2>1. "br" \in JumpOps
        BY DEF JumpOps
    <2> QED
        BY <2>1, EmissionAssumption
<1>5. st' \in States /\ st'.saved = st.saved /\ st'.funcs = st.funcs
    BY <1>1, <1>3, <1>4, EmitFields
<1>6. InFunction(st', open)
    BY <1>1, <1>3, <1>4, EmitKeeps
<1>7. Keeps(st', open')
    BY <1>2, <1>3, <1>5, <1>6 DEF Keeps
<1> QED
    BY <1>2, <1>7, KeepsIInv

\* A branch that waits: of a condition, of an if, of a loop.
LEMMA BranchBegins ==
    ASSUME IInv, NEW op \in BoolOps, NEW role \in Roles \ {"loop"}, Begins(role, branch(st, op))
    PROVE  IInv'
<1>1. building /\ building' = building /\ st' = branch(st, op) /\ open' = <<role>> \o open
    BY DEF Begins
<1>2. st \in States /\ open \in Seq(Roles) /\ Len(open) = Len(st.saved) /\ InFunction(st, open)
    BY <1>1, InsideFacts
<1>3. st'.funcs = st.funcs
    <2>1. op \in JumpOps
        BY DEF JumpOps
    <2> QED
        BY <1>1, <1>2, <2>1, BranchFields
<1>4. st' \in States /\ open' \in Seq(Roles) /\ Len(open') = Len(st'.saved) /\ InFunction(st', open')
    BY <1>1, <1>2, BranchKeeps
<1>5. Keeps(st', open')
    BY <1>3, <1>4 DEF Keeps
<1> QED
    BY <1>1, <1>5, KeepsIInv

LEMMA LoopBegins == IInv /\ build_loop => IInv'
<1> SUFFICES ASSUME IInv, build_loop PROVE IInv'
    OBVIOUS
<1>1. building /\ building' = building /\ st' = save(st) /\ open' = <<"loop">> \o open
    BY DEF build_loop, Begins
<1>2. st \in States /\ open \in Seq(Roles) /\ Len(open) = Len(st.saved) /\ InFunction(st, open)
    BY <1>1, InsideFacts
<1>3. st'.funcs = st.funcs
    BY <1>1, <1>2 DEF save, States
<1>4. st' \in States /\ open' \in Seq(Roles) /\ Len(open') = Len(st'.saved) /\ InFunction(st', open')
    BY <1>1, <1>2, SaveKeeps
<1>5. Keeps(st', open')
    BY <1>3, <1>4 DEF Keeps
<1> QED
    BY <1>1, <1>5, KeepsIInv

\* What is innermost is the first of open.
LEMMA InnermostFirst ==
    ASSUME IInv, NEW roles, Innermost(roles)
    PROVE  open # << >> /\ open[1] \in roles /\ 1 \in 0..Len(open)
<1>1. open \in Seq(Roles) /\ open # << >>
    BY DEF IInv, TypeOK, Innermost
<1>2. Len(open) \in Nat \ {0}
    BY <1>1, EmptySeq
<1> QED
    BY <1>1, <1>2 DEF Innermost

LEMMA BranchEnds == IInv /\ Ends => IInv'
<1> SUFFICES ASSUME IInv, Ends PROVE IInv'
    OBVIOUS
<1>1. st' = rewrite(st, 1, 1) /\ open' = Tail(open) /\ building' = building
    BY DEF Ends
<1>2. open # << >> /\ open[1] \in {"condition", "if", "else"} /\ 1 \in 0..Len(open)
    BY InnermostFirst DEF Ends
<1>3. /\ st \in States /\ open \in Seq(Roles) /\ Len(open) = Len(st.saved) /\ InFunction(st, open)
      /\ building
    BY <1>2, InsideFacts
<1>4. \A k \in 1..1 : open[k] # "loop"
    BY <1>2
<1>5. Tail(open) = SubSeq(open, 1 + 1, Len(open))
    BY <1>2, <1>3, TailIsRest
<1>6. /\ st' \in States /\ open' \in Seq(Roles) /\ Len(open') = Len(st'.saved) /\ InFunction(st', open')
      /\ st'.funcs = st.funcs
    BY <1>1, <1>2, <1>3, <1>4, <1>5, RewriteKeeps
<1>7. Keeps(st', open')
    BY <1>6 DEF Keeps
<1> QED
    BY <1>1, <1>3, <1>7, KeepsIInv

LEMMA ElseBegins == IInv /\ build_else => IInv'
<1> SUFFICES ASSUME IInv, build_else PROVE IInv'
    OBVIOUS
<1>1. st' = start_else(st) /\ open' = <<"else">> \o Tail(open) /\ building' = building
    BY DEF build_else
<1>2. open # << >> /\ open[1] # "loop"
    BY InnermostFirst DEF build_else
<1>3. /\ st \in States /\ open \in Seq(Roles) /\ Len(open) = Len(st.saved) /\ InFunction(st, open)
      /\ building
    BY <1>2, InsideFacts
<1>4. /\ st' \in States /\ open' \in Seq(Roles) /\ Len(open') = Len(st'.saved) /\ InFunction(st', open')
      /\ st'.funcs = st.funcs
    BY <1>1, <1>2, <1>3, ElseKeeps
<1>5. Keeps(st', open')
    BY <1>4 DEF Keeps
<1> QED
    BY <1>1, <1>3, <1>5, KeepsIInv

LEMMA LoopEnds == IInv /\ end_loop => IInv'
<1> SUFFICES ASSUME IInv, end_loop PROVE IInv'
    OBVIOUS
<1>1. PICK n \in 0..(Len(open) - 1) :
        /\ open[n + 1] = "loop" /\ \A k \in 1..n : open[k] = "guard"
        /\ st' = emit_loop_end(st, n)
        /\ open' = SubSeq(open, n + 2, Len(open))
        /\ UNCHANGED building
    BY DEF end_loop
<1>2. open # << >>
    BY <1>1, EmptySeq
<1>3. /\ st \in States /\ open \in Seq(Roles) /\ Len(open) = Len(st.saved) /\ InFunction(st, open)
      /\ building
    BY <1>2, InsideFacts
<1>4. /\ st' \in States /\ open' \in Seq(Roles) /\ Len(open') = Len(st'.saved) /\ InFunction(st', open')
      /\ st'.funcs = st.funcs
    BY <1>1, <1>3, LoopEndKeeps
<1>5. Keeps(st', open')
    BY <1>4 DEF Keeps
<1> QED
    BY <1>1, <1>3, <1>5, KeepsIInv

\* The invariant behind the theorems: inside a function the code so far is laid
\* without a gap, its branches go to instructions of it or wait with target 0,
\* each under an address of its own in saved, and each instruction is reached.
THEOREM EmissionInvariant == Spec => []IInv
<1>1. Init => IInv
    BY InitIInv
<1>2. IInv /\ [Next]_vars => IInv'
    <2> SUFFICES ASSUME IInv, [Next]_vars PROVE IInv'
        OBVIOUS
    <2>1. CASE build_function
        BY <2>1, FunctionStarts
    <2>2. CASE Emits
        BY <2>2, Emitted
    <2>3. CASE build_condition
        <3>1. PICK op \in BoolOps : Begins("condition", branch(st, op))
            BY <2>3 DEF build_condition
        <3>2. "condition" \in Roles \ {"loop"}
            BY DEF Roles
        <3> QED
            BY <3>1, <3>2, BranchBegins
    <2>4. CASE build_if
        <3>1. "if" \in Roles \ {"loop"} /\ "brf" \in BoolOps
            BY DEF Roles, BoolOps
        <3> QED
            BY <2>4, <3>1, BranchBegins DEF build_if
    <2>5. CASE Ends
        BY <2>5, BranchEnds
    <2>6. CASE build_else
        BY <2>6, ElseBegins
    <2>7. CASE build_loop
        BY <2>7, LoopBegins
    <2>8. CASE build_guard
        <3>1. "guard" \in Roles \ {"loop"} /\ "brf" \in BoolOps
            BY DEF Roles, BoolOps
        <3> QED
            BY <2>8, <3>1, BranchBegins DEF build_guard
    <2>9. CASE end_loop
        BY <2>9, LoopEnds
    <2>10. CASE ends_function
        BY <2>10, FunctionEnds
    <2>11. CASE UNCHANGED vars
        <3>1. st' = st /\ open' = open /\ building' = building
            BY <2>11 DEF vars
        <3> QED
            BY <3>1 DEF IInv, TypeOK
    <2> QED
        BY <2>1, <2>2, <2>3, <2>4, <2>5, <2>6, <2>7, <2>8, <2>9, <2>10, <2>11 DEF Next
<1> QED
    BY <1>1, <1>2, PTL DEF Spec

\* Whatever is nested in whatever, of whatever size: no gap, met only first, and
\* every branch to an instruction behind it (ir_compiler.cpp:671 writes all of
\* them a second time, in place).
THEOREM EmittedWellFormed == Spec => []CodeIsWellFormed
<1>1. IInv => CodeIsWellFormed
    BY DEF IInv, CodeIsWellFormed, Finished
<1> QED
    BY <1>1, EmissionInvariant, PTL

\* And no instruction that execution cannot come to, but behind an endless loop.
THEOREM EmittedReached == Spec => []NothingHidden
<1>1. IInv => NothingHidden
    BY DEF IInv, NothingHidden, Finished
<1> QED
    BY <1>1, EmissionInvariant, PTL

=============================================================================
