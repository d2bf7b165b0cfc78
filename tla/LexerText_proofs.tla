-------------------------- MODULE LexerText_proofs --------------------------
(* Theorems about the lexer and the source as one text: reading by the line,  *)
(* with a token kept ahead, gives the parser the whole text.                 *)
EXTENDS Lexer_proofs, NaturalsInduction, WellFoundedInduction

\* Induction over the naturals, for a set of them.
LEMMA UpFromZero ==
    ASSUME NEW S, 0 \in S, \A n \in Nat : n \in S => n + 1 \in S
    PROVE  \A n \in Nat : n \in S
<1> SUFFICES ASSUME Nat \ S # {} PROVE FALSE
    OBVIOUS
<1>1. PICK x \in Nat \ S : \A y \in Nat \ S : ~(<<y, x>> \in OpToRel(<, Nat))
    <2>1. Nat \ S \subseteq Nat
        OBVIOUS
    <2> QED BY <2>1, NatLessThanWellFounded, WFMin
<1>2. x # 0
    OBVIOUS
<1>3. x - 1 \in Nat /\ x - 1 < x /\ (x - 1) + 1 = x
    BY <1>2
<1>4. <<x - 1, x>> \in OpToRel(<, Nat)
    BY <1>3 DEF OpToRel
<1>5. x - 1 \in S
    BY <1>1, <1>3, <1>4
<1> QED BY <1>3, <1>5

-----------------------------------------------------------------------------
(* The text                                                                  *)

Nothing == [tokens |-> << >>, stack |-> <<0>>, ignored |-> FALSE]

\* What a line adds to the text.
With(w, l, i) ==
    [tokens  |-> w.tokens \o Lexed(l, i, w.stack, w.ignored),
     stack   |-> Level(l, w.stack, w.ignored),
     ignored |-> Ignores(l, w.ignored)]

After(w, i) == IF Blank(source[i]) /\ i < Len(source) THEN w ELSE With(w, source[i], i)

IsWhole(f, n) == f = [i \in 0..n |-> IF i = 0 THEN Nothing ELSE After(f[i - 1], i)]

\* A function that goes through the lines exists, however many there are.
LEMMA WholeExists ==
    ASSUME NEW n \in Nat
    PROVE  \E f : IsWhole(f, n)
<1> DEFINE S == {m \in Nat : \E f : IsWhole(f, m)}
<1>1. 0 \in S
    <2> DEFINE f == [i \in 0..0 |-> Nothing]
    <2>1. f = [i \in 0..0 |-> IF i = 0 THEN Nothing ELSE After(f[i - 1], i)]
        OBVIOUS
    <2> HIDE DEF f
    <2>2. IsWhole(f, 0)
        BY <2>1 DEF IsWhole
    <2> QED BY <2>2
<1>2. ASSUME NEW m \in Nat, m \in S PROVE m + 1 \in S
    <2>1. PICK f : IsWhole(f, m)
        BY <1>2
    <2> DEFINE g == [i \in 0..(m + 1) |-> IF i = m + 1 THEN After(f[m], m + 1) ELSE f[i]]
               h == [i \in 0..(m + 1) |-> IF i = 0 THEN Nothing ELSE After(g[i - 1], i)]
    <2>2. \A i \in 0..m : f[i] = IF i = 0 THEN Nothing ELSE After(f[i - 1], i)
        BY <2>1 DEF IsWhole
    <2>3. ASSUME NEW i \in 0..(m + 1) PROVE g[i] = h[i]
        <3>1. CASE i = 0
            BY <2>2, <3>1
        <3>2. CASE i \in 1..m
            <4>1. i \in 0..m /\ i # 0 /\ i # m + 1 /\ i - 1 \in 0..(m + 1) /\ i - 1 # m + 1
                BY <3>2
            <4>2. g[i] = f[i] /\ g[i - 1] = f[i - 1]
                BY <4>1
            <4>3. h[i] = After(g[i - 1], i)
                BY <4>1
            <4> QED BY <2>2, <4>1, <4>2, <4>3
        <3>3. CASE i = m + 1
            <4>1. m \in 0..(m + 1) /\ m # m + 1 /\ (m + 1) - 1 = m /\ m + 1 # 0
                OBVIOUS
            <4>2. g[m] = f[m]
                BY <4>1
            <4> QED BY <3>3, <4>1, <4>2
        <3> QED BY <3>1, <3>2, <3>3
    <2>4. g = h
        BY <2>3
    <2>5. IsWhole(g, m + 1)
        BY <2>4 DEF IsWhole
    <2> HIDE DEF g, h
    <2> QED BY <2>5
<1> HIDE DEF S
<1>3. n \in S
    BY <1>1, <1>2, UpFromZero
<1> QED BY <1>3 DEF S

LEMMA WholeDefined ==
    ASSUME Len(source) \in Nat
    PROVE  IsWhole(whole, Len(source))
<1>1. PICK f : f = [i \in 0..Len(source) |-> IF i = 0 THEN Nothing ELSE After(f[i - 1], i)]
    BY WholeExists DEF IsWhole
<1>2. whole = [i \in 0..Len(source) |-> IF i = 0 THEN Nothing ELSE After(whole[i - 1], i)]
    BY <1>1 DEF whole, After, With, Nothing
<1> QED BY <1>2 DEF IsWhole

LEMMA WholeUnfolds ==
    ASSUME Len(source) \in Nat
    PROVE  /\ whole[0] = Nothing
           /\ \A i \in 1..Len(source) : whole[i] = After(whole[i - 1], i)
<1>1. whole = [i \in 0..Len(source) |-> IF i = 0 THEN Nothing ELSE After(whole[i - 1], i)]
    BY WholeDefined DEF IsWhole
<1>2. 0 \in 0..Len(source) /\ \A i \in 1..Len(source) : i \in 0..Len(source) /\ i # 0
    OBVIOUS
<1> QED BY <1>1, <1>2

-----------------------------------------------------------------------------
(* What a line adds                                                          *)

LEMMA LaidRow ==
    ASSUME NEW l \in Lines, NEW row \in Nat, NEW stack, Sorted(stack), NEW ignored
    PROVE  \A k \in 1..Len(Laid(l, row, stack, ignored)) :
               Laid(l, row, stack, ignored)[k].row = row /\ Laid(l, row, stack, ignored)[k].place = 0
<1> DEFINE d == Len(stack) - Kept(stack, l.indent)
           u == [k \in 1..d |-> Token("dedent", row, 0)]
<1>1. l.indent \in Nat
    BY DEF Lines
<1>2. CASE ignored
    BY <1>2 DEF Laid
<1>3. CASE ~ignored /\ l.indent > Top(stack)
    BY <1>3 DEF Laid, Layout, Token
<1>4. CASE ~ignored /\ ~(l.indent > Top(stack))
    <2>1. Laid(l, row, stack, ignored) = u
        BY <1>4 DEF Laid, Layout
    <2>2. u \in Seq(Tokens)
        BY <1>1, <1>4, <2>1, LayoutType DEF Laid
    <2>3. DOMAIN u = 1..Len(u)
        BY <2>2, LenProperties
    <2>4. \A k \in DOMAIN u : u[k].row = row /\ u[k].place = 0
        BY DEF Token
    <2> HIDE DEF u
    <2> QED BY <2>1, <2>3, <2>4
<1> QED BY <1>2, <1>3, <1>4

LEMMA WordedRow ==
    ASSUME NEW l \in Lines, NEW row \in Nat
    PROVE  \A k \in 1..Len(Worded(l, row)) :
               /\ Worded(l, row)[k].row = row /\ Worded(l, row)[k].place = k
               /\ Worded(l, row)[k].type \in Words
<1>1. l.words \in Seq(Words) /\ DOMAIN l.words = 1..Len(l.words)
    BY LenProperties DEF Lines
<1>2. Len(Worded(l, row)) = Len(l.words)
    BY WordedType
<1> QED BY <1>1, <1>2, ElementOfSeq DEF Worded, Token

\* The tokens of a line are of its row.
LEMMA LexedRow ==
    ASSUME NEW l \in Lines, NEW row \in Nat, NEW stack, Sorted(stack), NEW ignored \in BOOLEAN
    PROVE  \A k \in 1..Len(Lexed(l, row, stack, ignored)) :
               /\ Lexed(l, row, stack, ignored)[k].row = row
               /\ Lexed(l, row, stack, ignored)[k].type # "eof"
<1>1. CASE NoCharacters(l)
    BY <1>1 DEF Lexed
<1>2. CASE ~NoCharacters(l)
    <2> DEFINE u == Laid(l, row, stack, ignored)
               w == Worded(l, row)
               t == u \o w
    <2>1. Lexed(l, row, stack, ignored) = t
        BY <1>2 DEF Lexed, Laid
    <2>2. u \in Seq(Tokens) /\ w \in Seq(Tokens)
        BY LaidKinds, WordedType
    <2>3. /\ \A k \in 1..Len(u) : u[k].row = row /\ u[k].type \in {"indent", "dedent"}
          /\ \A k \in 1..Len(w) : w[k].row = row /\ w[k].type \in Words
        BY LaidKinds, LaidRow, WordedRow
    <2> HIDE DEF u, w
    <2>4. Len(u) \in Nat /\ Len(w) \in Nat
        BY <2>2, LenProperties
    <2>5. /\ Len(t) = Len(u) + Len(w)
          /\ \A k \in 1..Len(u) : t[k] = u[k]
          /\ \A k \in 1..Len(w) : t[Len(u) + k] = w[k]
        BY <2>2, ConcatProperties
    <2> HIDE DEF t
    <2>6. ASSUME NEW k \in 1..Len(t) PROVE t[k].row = row /\ t[k].type # "eof"
        <3>1. CASE k \in 1..Len(u)
            BY <2>3, <2>5, <3>1
        <3>2. CASE k \notin 1..Len(u)
            <4>1. k - Len(u) \in 1..Len(w) /\ Len(u) + (k - Len(u)) = k
                BY <2>4, <2>5, <3>2
            <4>2. t[k] = w[k - Len(u)]
                BY <2>5, <4>1
            <4> QED BY <2>3, <4>1, <4>2 DEF Words
        <3> QED BY <3>1, <3>2
    <2> QED BY <2>1, <2>6
<1> QED BY <1>1, <1>2

\* t goes on from s, with tokens of rows after r.
Continues(t, s, r) ==
    /\ Len(s) <= Len(t)
    /\ \A k \in 1..Len(t) : IF k <= Len(s) THEN t[k] = s[k] ELSE t[k].row > r

\* What the lines up to i make.
TextOf(w, i) ==
    /\ w.tokens \in Seq(Tokens)
    /\ Sorted(w.stack)
    /\ w.ignored \in BOOLEAN
    /\ Balanced(w.tokens, w.stack)
    /\ Quiet(w.tokens, w.ignored)
    /\ \A k \in 1..Len(w.tokens) : w.tokens[k].type # "eof" /\ w.tokens[k].row \in 1..i

LEMMA WithFields ==
    ASSUME NEW w, NEW l, NEW i
    PROVE  /\ With(w, l, i).tokens = w.tokens \o Lexed(l, i, w.stack, w.ignored)
           /\ With(w, l, i).stack = Level(l, w.stack, w.ignored)
           /\ With(w, l, i).ignored = Ignores(l, w.ignored)
           /\ [tokens  |-> With(w, l, i).tokens,
               stack   |-> With(w, l, i).stack,
               ignored |-> With(w, l, i).ignored] = With(w, l, i)
BY DEF With

LEMMA WithText ==
    ASSUME NEW i \in Nat \ {0}, NEW w, TextOf(w, i - 1), NEW l \in Lines
    PROVE  TextOf(With(w, l, i), i) /\ Continues(With(w, l, i).tokens, w.tokens, i - 1)
<1> DEFINE lexed == Lexed(l, i, w.stack, w.ignored)
           t == w.tokens \o lexed
           v == With(w, l, i)
<1>1. /\ w.tokens \in Seq(Tokens) /\ Sorted(w.stack) /\ w.ignored \in BOOLEAN
      /\ Balanced(w.tokens, w.stack) /\ Quiet(w.tokens, w.ignored)
      /\ \A k \in 1..Len(w.tokens) : w.tokens[k].type # "eof" /\ w.tokens[k].row \in 1..(i - 1)
    BY DEF TextOf
<1>2. v.tokens = t /\ v.stack = Level(l, w.stack, w.ignored) /\ v.ignored = Ignores(l, w.ignored)
    BY DEF With
<1>3. lexed \in Seq(Tokens) /\ \A k \in 1..Len(lexed) : lexed[k].row = i /\ lexed[k].type # "eof"
    BY <1>1, LexedType, LexedRow
<1>4. Balanced(v.tokens, v.stack) /\ Quiet(v.tokens, v.ignored)
    BY <1>1, <1>2, LexedKeeps
<1>5. Sorted(v.stack) /\ v.ignored \in BOOLEAN
    BY <1>1, <1>2, LevelSorted DEF Ignores
<1> HIDE DEF lexed, v
<1>6. Len(w.tokens) \in Nat /\ Len(lexed) \in Nat
    BY <1>1, <1>3, LenProperties
<1>7. /\ t \in Seq(Tokens)
      /\ Len(t) = Len(w.tokens) + Len(lexed)
      /\ \A k \in 1..Len(w.tokens) : t[k] = w.tokens[k]
      /\ \A k \in 1..Len(lexed) : t[Len(w.tokens) + k] = lexed[k]
    BY <1>1, <1>3, ConcatProperties
<1> HIDE DEF t
<1>8. ASSUME NEW k \in 1..Len(t), k > Len(w.tokens) PROVE t[k].row = i /\ t[k].type # "eof"
    <2>1. k - Len(w.tokens) \in 1..Len(lexed) /\ Len(w.tokens) + (k - Len(w.tokens)) = k
        BY <1>6, <1>7, <1>8
    <2>2. t[k] = lexed[k - Len(w.tokens)]
        BY <1>7, <2>1
    <2> QED BY <1>3, <2>1, <2>2
<1>9. \A k \in 1..Len(t) : t[k].type # "eof" /\ t[k].row \in 1..i
    <2> TAKE k \in 1..Len(t)
    <2>1. CASE k > Len(w.tokens)
        BY <1>8, <2>1
    <2>2. CASE ~(k > Len(w.tokens))
        <3>1. k \in 1..Len(w.tokens) /\ t[k] = w.tokens[k]
            BY <1>6, <1>7, <2>2
        <3> QED BY <1>1, <3>1
    <2> QED BY <2>1, <2>2
<1>10. Continues(t, w.tokens, i - 1)
    <2>1. \A k \in 1..Len(t) : IF k <= Len(w.tokens) THEN t[k] = w.tokens[k] ELSE t[k].row > i - 1
        <3> TAKE k \in 1..Len(t)
        <3>1. k <= Len(w.tokens) => k \in 1..Len(w.tokens)
            BY <1>6
        <3>2. k > Len(w.tokens) => t[k].row = i
            BY <1>8
        <3> QED BY <1>6, <1>7, <3>1, <3>2
    <2> QED BY <1>6, <1>7, <2>1 DEF Continues
<1>11. TextOf(v, i)
    BY <1>2, <1>4, <1>5, <1>7, <1>9 DEF TextOf
<1> QED BY <1>2, <1>10, <1>11 DEF v

LEMMA ContinuesItself ==
    ASSUME NEW s \in Seq(Tokens), NEW r PROVE Continues(s, s, r)
BY LenProperties DEF Continues

LEMMA ContinuesOn ==
    ASSUME NEW s \in Seq(Tokens), NEW t \in Seq(Tokens), NEW u \in Seq(Tokens),
           NEW r \in Nat, NEW q \in Nat, r <= q,
           \A k \in 1..Len(u) : u[k].row \in Nat, Continues(t, s, r), Continues(u, t, q)
    PROVE  Continues(u, s, r)
<1>1. Len(s) \in Nat /\ Len(t) \in Nat /\ Len(u) \in Nat
    BY LenProperties
<1>2. ASSUME NEW k \in 1..Len(u) PROVE IF k <= Len(s) THEN u[k] = s[k] ELSE u[k].row > r
    <2>1. CASE k <= Len(t)
        <3>1. k \in 1..Len(t) /\ u[k] = t[k]
            BY <1>1, <2>1 DEF Continues
        <3> QED BY <3>1 DEF Continues
    <2>2. CASE ~(k <= Len(t))
        <3>1. u[k].row > q /\ u[k].row \in Nat
            BY <1>1, <2>2 DEF Continues
        <3>2. u[k].row > r
            BY <3>1
        <3>3. ~(k <= Len(s))
            BY <1>1, <2>2 DEF Continues
        <3> QED BY <3>2, <3>3
    <2> QED BY <2>1, <2>2
<1> QED BY <1>1, <1>2 DEF Continues

-----------------------------------------------------------------------------
(* The text by its lines                                                     *)

\* What is known of a source.
LEMMA SourceKnown ==
    ASSUME source \in Sources
    PROVE  /\ Len(source) \in Nat \ {0} /\ DOMAIN source = 1..Len(source)
           /\ \A i \in 1..Len(source) : source[i] \in Lines
<1>1. source \in Seq(Lines) /\ source # << >>
    BY LexerAssumption
<1> QED BY <1>1, LenProperties, EmptySeq, ElementOfSeq

LEMMA NothingText == TextOf(Nothing, 0)
<1>1. ASSUME NEW type PROVE CountIn(<< >>, 0, type) = 0
    <2>1. {k \in 1..0 : << >>[k].type = type} = {}
        OBVIOUS
    <2> QED BY <2>1, FS_EmptySet DEF CountIn
<1>2. DepthIn(<< >>, 0) = 0
    BY <1>1 DEF DepthIn
<1>3. Balanced(<< >>, <<0>>)
    BY <1>2 DEF Balanced
<1>4. Quiet(<< >>, FALSE)
    BY DEF Quiet, OpenIn
<1>5. Sorted(<<0>>)
    BY DEF Sorted
<1>6. << >> \in Seq(Tokens) /\ \A k \in 1..Len(<< >>) : FALSE
    OBVIOUS
<1>7. Nothing.tokens = << >> /\ Nothing.stack = <<0>> /\ Nothing.ignored = FALSE
    BY DEF Nothing
<1> HIDE DEF Nothing
<1> QED BY <1>3, <1>4, <1>5, <1>6, <1>7 DEF TextOf

LEMMA AfterText ==
    ASSUME NEW i \in Nat \ {0}, NEW w, TextOf(w, i - 1), source[i] \in Lines
    PROVE  TextOf(After(w, i), i) /\ Continues(After(w, i).tokens, w.tokens, i - 1)
<1>1. CASE Blank(source[i]) /\ i < Len(source)
    <2>1. After(w, i) = w
        BY <1>1 DEF After
    <2>2. \A k \in 1..Len(w.tokens) : w.tokens[k].row \in 1..i
        BY DEF TextOf
    <2>3. TextOf(w, i)
        BY <2>2 DEF TextOf
    <2> QED BY <2>1, <2>3, ContinuesItself DEF TextOf
<1>2. CASE ~(Blank(source[i]) /\ i < Len(source))
    BY <1>2, WithText DEF After
<1> QED BY <1>1, <1>2

\* The lines up to i, for each i.
LEMMA WholeText ==
    ASSUME source \in Sources
    PROVE  \A i \in 0..Len(source) : TextOf(whole[i], i)
<1>0. Len(source) \in Nat /\ \A i \in 1..Len(source) : source[i] \in Lines
    BY SourceKnown
<1>1. whole[0] = Nothing /\ \A i \in 1..Len(source) : whole[i] = After(whole[i - 1], i)
    BY <1>0, WholeUnfolds
<1> DEFINE S == {i \in Nat : i <= Len(source) => TextOf(whole[i], i)}
<1>2. 0 \in S
    BY <1>1, NothingText
<1>3. ASSUME NEW i \in Nat, i \in S PROVE i + 1 \in S
    <2> SUFFICES ASSUME i + 1 <= Len(source) PROVE TextOf(whole[i + 1], i + 1)
        OBVIOUS
    <2>1. i + 1 \in 1..Len(source) /\ i + 1 \in Nat \ {0} /\ (i + 1) - 1 = i
        BY <1>0
    <2>2. TextOf(whole[i], i)
        BY <1>0, <1>3
    <2>3. TextOf(After(whole[i], i + 1), i + 1)
        BY <1>0, <2>1, <2>2, AfterText
    <2> QED BY <1>1, <2>1, <2>3
<1> HIDE DEF S
<1>4. \A i \in Nat : i \in S
    BY <1>2, <1>3, UpFromZero
<1> QED BY <1>0, <1>4 DEF S

\* The text of more lines continues that of fewer.
LEMMA WholeContinues ==
    ASSUME source \in Sources, NEW i \in 0..Len(source)
    PROVE  \A j \in i..Len(source) : Continues(whole[j].tokens, whole[i].tokens, i)
<1>0. Len(source) \in Nat /\ \A j \in 1..Len(source) : source[j] \in Lines
    BY SourceKnown
<1>1. \A j \in 1..Len(source) : whole[j] = After(whole[j - 1], j)
    BY <1>0, WholeUnfolds
<1>2. \A j \in 0..Len(source) : TextOf(whole[j], j)
    BY WholeText
<1> DEFINE S == {d \in Nat : i + d <= Len(source) => Continues(whole[i + d].tokens, whole[i].tokens, i)}
<1>3. 0 \in S
    <2>1. i + 0 = i /\ whole[i].tokens \in Seq(Tokens)
        BY <1>2 DEF TextOf
    <2> QED BY <2>1, ContinuesItself
<1>4. ASSUME NEW d \in Nat, d \in S PROVE d + 1 \in S
    <2> SUFFICES ASSUME i + (d + 1) <= Len(source)
                 PROVE  Continues(whole[i + (d + 1)].tokens, whole[i].tokens, i)
        OBVIOUS
    <2> DEFINE j == i + (d + 1)
    <2>1. j \in 1..Len(source) /\ j - 1 = i + d /\ i \in Nat /\ j - 1 \in Nat /\ i <= j - 1 /\ j - 1 \in 0..Len(source)
          /\ j \in 0..Len(source) /\ j \in Nat \ {0}
        BY <1>0
    <2>2. Continues(whole[j - 1].tokens, whole[i].tokens, i)
        BY <1>0, <1>4, <2>1
    <2> HIDE DEF j
    <2>3. TextOf(whole[j], j) /\ TextOf(whole[j - 1], j - 1) /\ TextOf(whole[i], i)
        BY <1>2, <2>1
    <2>4. Continues(whole[j].tokens, whole[j - 1].tokens, j - 1)
        BY <1>0, <1>1, <2>1, <2>3, AfterText
    <2>5. \A k \in 1..Len(whole[j].tokens) : whole[j].tokens[k].row \in Nat
        <3>1. \A k \in 1..Len(whole[j].tokens) : whole[j].tokens[k].row \in 1..j
            BY <2>3 DEF TextOf
        <3> QED BY <2>1, <3>1
    <2>6. whole[i].tokens \in Seq(Tokens) /\ whole[j - 1].tokens \in Seq(Tokens) /\ whole[j].tokens \in Seq(Tokens)
        BY <2>3 DEF TextOf
    <2>7. Continues(whole[j].tokens, whole[i].tokens, i)
        BY <2>1, <2>2, <2>4, <2>5, <2>6, ContinuesOn
    <2> QED BY <2>7 DEF j
<1> HIDE DEF S
<1>5. \A d \in Nat : d \in S
    BY <1>3, <1>4, UpFromZero
<1>6. ASSUME NEW j \in i..Len(source) PROVE Continues(whole[j].tokens, whole[i].tokens, i)
    <2>1. j - i \in Nat /\ i + (j - i) = j /\ j <= Len(source)
        BY <1>0
    <2>2. j - i \in S
        BY <1>5, <2>1
    <2> QED BY <2>1, <2>2 DEF S
<1> QED BY <1>6

\* Lines of spaces add nothing.
LEMMA WholeOverBlanks ==
    ASSUME source \in Sources, NEW r \in 0..Len(source), NEW i \in r..Len(source),
           \A j \in (r + 1)..i : Blank(source[j]) /\ j < Len(source)
    PROVE  whole[i] = whole[r]
<1>0. Len(source) \in Nat
    BY SourceKnown
<1>1. \A j \in 1..Len(source) : whole[j] = After(whole[j - 1], j)
    BY <1>0, WholeUnfolds
<1> DEFINE S == {d \in Nat : r + d <= i => whole[r + d] = whole[r]}
<1>2. 0 \in S
    BY <1>0
<1>3. ASSUME NEW d \in Nat, d \in S PROVE d + 1 \in S
    <2> SUFFICES ASSUME r + (d + 1) <= i PROVE whole[r + (d + 1)] = whole[r]
        OBVIOUS
    <2>1. r + (d + 1) \in (r + 1)..i /\ r + (d + 1) \in 1..Len(source) /\ (r + (d + 1)) - 1 = r + d /\ r + d <= i
        BY <1>0
    <2>2. whole[r + d] = whole[r]
        BY <1>3, <2>1
    <2>3. whole[r + (d + 1)] = After(whole[r + d], r + (d + 1))
        BY <1>1, <2>1
    <2>4. After(whole[r + d], r + (d + 1)) = whole[r + d]
        BY <2>1 DEF After
    <2> QED BY <2>2, <2>3, <2>4
<1> HIDE DEF S
<1>4. i - r \in S
    <2>1. i - r \in Nat
        BY <1>0
    <2> QED BY <1>2, <1>3, <2>1, UpFromZero
<1>5. r + (i - r) = i /\ i - r \in Nat
    BY <1>0
<1> QED BY <1>4, <1>5 DEF S

-----------------------------------------------------------------------------
(* The list is the text                                                      *)

LEMMA SourceOf == ASSUME TypeOK PROVE source \in Sources
BY DEF TypeOK

LEMMA WholeSame ==
    ASSUME source' = source
    PROVE  whole' = whole /\ Text' = Text
<1>1. whole' = whole
    BY SMT DEF whole
<1> QED BY <1>1 DEF Text

LEMMA TextKnown ==
    ASSUME source \in Sources
    PROVE  /\ Text \in Seq(Tokens)
           /\ Len(Text) = Len(whole[Len(source)].tokens) + 1
           /\ \A k \in 1..(Len(Text) - 1) : Text[k] = whole[Len(source)].tokens[k] /\ Text[k].type # "eof"
           /\ \A k \in 1..(Len(Text) - 1) : Text[k].row \in 1..Len(source)
           /\ Text[Len(Text)] = Token("eof", Len(source) + 1, 0)
<1> DEFINE s == whole[Len(source)].tokens
           e == Token("eof", Len(source) + 1, 0)
<1>0. Len(source) \in Nat /\ Len(source) \in 0..Len(source)
    BY SourceKnown
<1>1. s \in Seq(Tokens) /\ \A k \in 1..Len(s) : s[k].type # "eof" /\ s[k].row \in 1..Len(source)
    BY <1>0, WholeText DEF TextOf
<1>2. e \in Tokens /\ <<e>> \in Seq(Tokens) /\ Len(<<e>>) = 1 /\ <<e>>[1] = e
    BY <1>0 DEF Token, Tokens
<1>3. Text = s \o <<e>>
    BY DEF Text
<1> HIDE DEF s, e
<1>4. Len(s) \in Nat
    BY <1>1, LenProperties
<1>5. /\ s \o <<e>> \in Seq(Tokens)
      /\ Len(s \o <<e>>) = Len(s) + 1
      /\ \A k \in 1..Len(s) : (s \o <<e>>)[k] = s[k]
      /\ (s \o <<e>>)[Len(s) + 1] = e
    <2>1. 1 \in 1..Len(<<e>>)
        BY <1>2
    <2> QED BY <1>1, <1>2, <2>1, ConcatProperties
<1>6. Len(Text) = Len(s) + 1 /\ Len(Text) - 1 = Len(s)
    BY <1>3, <1>4, <1>5
<1> QED BY <1>1, <1>3, <1>5, <1>6 DEF s, e

\* The line taken while there are lines left.
LEMMA TakenText ==
    ASSUME TypeOK, ListIsText, read < Len(source), NEW i \in 0..Len(source), Takes(i), Reads
    PROVE  /\ i \in (read + 1)..Len(source)
           /\ Row(i) = i
           /\ \A j \in (read + 1)..(i - 1) : Blank(source[j])
           /\ i = Len(source) \/ ~Blank(source[i])
           /\ whole[i - 1] = whole[read]
           /\ whole[i] = With(whole[read], source[i], i)
<1>0. Len(source) \in Nat \ {0} /\ source \in Sources /\ read \in Nat
    BY SourceKnown, SourceOf DEF TypeOK
<1>1. Stops(i) /\ \A j \in (read + 1)..(i - 1) : ~Stops(j)
    BY DEF Takes, StopsFirst
<1>2. i \in (read + 1)..Len(source)
    BY <1>0, <1>1 DEF Stops
<1>3. ASSUME NEW j \in (read + 1)..(i - 1) PROVE Blank(source[j]) /\ j < Len(source)
    BY <1>0, <1>1, <1>2 DEF Stops
<1>4. Row(i) = i
    BY <1>0, <1>2 DEF Row, ListIsText
<1>5. whole[i - 1] = whole[read]
    <2>1. read \in 0..Len(source) /\ i - 1 \in read..Len(source)
        BY <1>0, <1>2
    <2> QED BY <1>0, <1>3, <2>1, WholeOverBlanks
<1>6. i = Len(source) \/ ~Blank(source[i])
    BY <1>1 DEF Stops
<1>7. whole[i] = After(whole[i - 1], i)
    BY <1>0, <1>2, WholeUnfolds
<1>8. whole[i] = With(whole[read], source[i], i)
    BY <1>0, <1>2, <1>5, <1>6, <1>7 DEF After
<1> QED BY <1>2, <1>3, <1>4, <1>5, <1>6, <1>8

LEMMA InitText == Init => ListIsText
<1> SUFFICES ASSUME Init PROVE ListIsText
    OBVIOUS
<1>1. source \in Sources /\ Len(source) \in Nat \ {0}
    BY SourceKnown DEF Init
<1>2. whole[0] = Nothing
    BY <1>1, WholeUnfolds
<1>3. read = 0 /\ line = 0 /\ token_list = << >> /\ indent_stack = <<0>> /\ ignoring = FALSE
    BY DEF Init
<1>4. [tokens |-> token_list, stack |-> indent_stack, ignored |-> ignoring] = Nothing
    BY <1>3 DEF Nothing
<1> QED BY <1>1, <1>2, <1>3, <1>4 DEF ListIsText

\* While there are lines left, reading takes the list from the text of those
\* read to the text of one more.
LEMMA ReadsText ==
    ASSUME TypeOK, ListIsText, read < Len(source), NEW i \in 0..Len(source), Takes(i), Reads
    PROVE  /\ i < Len(source) => Ahead(i) = whole[i].tokens
           /\ i = Len(source) => Ahead(i) = Text
           /\ Level(source[i], indent_stack, ignoring) = whole[i].stack
           /\ Ignores(source[i], ignoring) = whole[i].ignored
<1> DEFINE w == whole[read]
           l == source[i]
           lexed == Lexed(l, i, w.stack, w.ignored)
<1>0. source \in Sources /\ i \in 1..Len(source) /\ Len(source) \in Nat
    <2>1. source \in Sources /\ Len(source) \in Nat /\ read \in Nat
        BY SourceOf, SourceKnown DEF TypeOK
    <2>2. i \in (read + 1)..Len(source)
        BY TakenText
    <2> QED BY <2>1, <2>2
<1>1. Row(i) = i /\ whole[i] = With(w, l, i)
    BY TakenText
<1>2. token_list = w.tokens /\ indent_stack = w.stack /\ ignoring = w.ignored
    <2>1. [tokens |-> token_list, stack |-> indent_stack, ignored |-> ignoring] = w
        BY DEF ListIsText
    <2> HIDE DEF w
    <2> QED BY <2>1
<1>3. /\ Ahead(i) = w.tokens \o lexed \o Eof(i)
      /\ Level(source[i], indent_stack, ignoring) = Level(l, w.stack, w.ignored)
      /\ Ignores(source[i], ignoring) = Ignores(l, w.ignored)
    BY <1>1, <1>2 DEF Ahead
<1>4. whole[i].tokens = w.tokens \o lexed /\ whole[i].stack = Level(l, w.stack, w.ignored)
      /\ whole[i].ignored = Ignores(l, w.ignored)
    <2> DEFINE v == With(w, l, i)
               u == whole[i]
    <2>1. v.tokens = w.tokens \o lexed /\ v.stack = Level(l, w.stack, w.ignored)
          /\ v.ignored = Ignores(l, w.ignored)
        BY WithFields
    <2>2. u = v
        BY <1>1
    <2> HIDE DEF u, v
    <2>3. u.tokens = w.tokens \o lexed /\ u.stack = Level(l, w.stack, w.ignored)
          /\ u.ignored = Ignores(l, w.ignored)
        BY <2>1, <2>2
    <2> QED BY <2>3 DEF u
<1> HIDE DEF w, l, lexed
<1>5. CASE i < Len(source)
    <2>1. Eof(i) = << >>
        BY <1>0, <1>5 DEF Eof
    <2>2. whole[i].tokens \in Seq(Tokens)
        BY <1>0, WholeText DEF TextOf
    <2>3. whole[i].tokens \o << >> = whole[i].tokens
        BY <2>2, ConcatEmptySeq
    <2> QED BY <1>0, <1>3, <1>4, <1>5, <2>1, <2>3
<1>6. CASE i = Len(source)
    <2>1. Eof(i) = <<Token("eof", Len(source) + 1, 0)>>
        BY <1>1, <1>6 DEF Eof
    <2>2. Ahead(i) = Text
        BY <1>3, <1>4, <1>6, <2>1 DEF Text
    <2> QED BY <1>3, <1>4, <1>6, <2>2
<1> QED BY <1>0, <1>5, <1>6

LEMMA AdvanceText ==
    ASSUME TypeOK, ListIsText, NEW i \in 0..Len(source), Takes(i), Advance(i), UNCHANGED source
    PROVE  ListIsText'
<1>0. /\ source \in Sources /\ Len(source) \in Nat \ {0} /\ read \in 0..Len(source) /\ line \in Nat
      /\ token_list \in Seq(Tokens)
    BY SourceOf, SourceKnown DEF TypeOK
<1>1. whole' = whole /\ Text' = Text
    BY WholeSame
<1>2. CASE ~Reads
    <2>1. i = read
        BY <1>2 DEF Takes
    <2>2. UNCHANGED <<read, token_list, line, indent_stack, ignoring>>
        BY <1>2, <2>1 DEF Advance, Ahead
    <2> QED BY <1>1, <2>2 DEF ListIsText
<1>3. CASE Reads /\ read < Len(source)
    <2>1. read' = i /\ i \in 1..Len(source)
        BY <1>0, <1>3, TakenText DEF Advance
    <2>2. /\ i < Len(source) => token_list' = whole[i].tokens
          /\ i = Len(source) => token_list' = Text
          /\ indent_stack' = whole[i].stack /\ ignoring' = whole[i].ignored /\ line' = i
        <3>1. /\ token_list' = Ahead(i) /\ line' = Row(i) /\ Row(i) = i
              /\ indent_stack' = Level(source[i], indent_stack, ignoring)
              /\ ignoring' = Ignores(source[i], ignoring)
            BY <1>3, TakenText DEF Advance, LexLine
        <3> QED BY <1>3, <3>1, ReadsText
    <2>3. CASE i < Len(source)
        <3>1. whole[i] = With(whole[read], source[i], i)
            BY <1>3, TakenText
        <3>2. [tokens |-> whole[i].tokens, stack |-> whole[i].stack, ignored |-> whole[i].ignored] = whole[i]
            <4> DEFINE v == With(whole[read], source[i], i)
                       u == whole[i]
            <4>1. [tokens |-> v.tokens, stack |-> v.stack, ignored |-> v.ignored] = v
                BY WithFields
            <4>2. u = v
                BY <3>1
            <4> HIDE DEF u, v
            <4>3. [tokens |-> u.tokens, stack |-> u.stack, ignored |-> u.ignored] = u
                BY <4>1, <4>2
            <4> QED BY <4>3 DEF u
        <3> QED BY <1>0, <1>1, <2>1, <2>2, <2>3, <3>2 DEF ListIsText
    <2>4. CASE i = Len(source)
        <3>1. Text \in Seq(Tokens)
            BY <1>0, TextKnown
        <3>2. Len(Text) \in Nat /\ DOMAIN Text = 1..Len(Text)
            BY <3>1, LenProperties
        <3> QED BY <1>0, <1>1, <2>1, <2>2, <2>4, <3>2 DEF ListIsText
    <2> QED BY <1>0, <2>1, <2>3, <2>4
<1>4. CASE Reads /\ read = Len(source)
    <2>1. i = Len(source) /\ read' = Len(source) /\ Row(i) = line + 1 /\ line' = line + 1
        BY <1>0, <1>4 DEF Takes, StopsFirst, Stops, Advance, Row
    <2> DEFINE row == line + 1
               lexed == Lexed(source[i], row, indent_stack, ignoring)
               more == token_list \o lexed
               e == Token("eof", row + 1, 0)
    <2>2. token_list' = more \o <<e>>
        BY <1>4, <2>1 DEF Advance, Ahead, Eof
    <2>3. source[i] \in Lines /\ row \in Nat /\ Sorted(indent_stack) /\ ignoring \in BOOLEAN /\ row > Len(source)
        <3>1. source[i] \in Lines
            BY <1>0, <2>1, SourceKnown
        <3>2. Sorted(indent_stack) /\ ignoring \in BOOLEAN
            BY TypeSorted DEF TypeOK
        <3>3. line >= Len(source)
            BY <1>0, <1>4 DEF ListIsText
        <3> QED BY <1>0, <3>1, <3>2, <3>3
    <2>4. lexed \in Seq(Tokens) /\ \A k \in 1..Len(lexed) : lexed[k].row = row
        BY <2>3, LexedType, LexedRow
    <2>5. e \in Tokens /\ e.row = row + 1 /\ <<e>> \in Seq(Tokens) /\ Len(<<e>>) = 1 /\ <<e>>[1] = e
        BY <2>3 DEF Token, Tokens
    <2> HIDE DEF row, lexed, e
    <2>6. Len(token_list) \in Nat /\ Len(lexed) \in Nat
        BY <1>0, <2>4, LenProperties
    <2>7. /\ more \in Seq(Tokens) /\ Len(more) = Len(token_list) + Len(lexed)
          /\ \A k \in 1..Len(token_list) : more[k] = token_list[k]
          /\ \A k \in 1..Len(lexed) : more[Len(token_list) + k] = lexed[k]
        BY <1>0, <2>4, ConcatProperties
    <2> HIDE DEF more
    <2>8. /\ more \o <<e>> \in Seq(Tokens)
          /\ Len(more \o <<e>>) = Len(more) + 1
          /\ \A k \in 1..Len(more) : (more \o <<e>>)[k] = more[k]
          /\ (more \o <<e>>)[Len(more) + 1] = e
        <3>1. 1 \in 1..Len(<<e>>)
            BY <2>5
        <3> QED BY <2>5, <2>7, <3>1, ConcatProperties
    <2>9. /\ Len(Text) <= Len(token_list)
          /\ \A k \in 1..Len(token_list) :
                IF k <= Len(Text) THEN token_list[k] = Text[k] ELSE token_list[k].row > Len(source)
        BY <1>0, <1>4, LenProperties DEF ListIsText
    <2>10. Len(Text) \in Nat
        BY <1>0, TextKnown, LenProperties
    <2> DEFINE list == token_list'
    <2>11. /\ list \in Seq(Tokens) /\ Len(list) = Len(token_list) + Len(lexed) + 1 /\ DOMAIN list = 1..Len(list)
           /\ \A k \in 1..Len(token_list) : list[k] = token_list[k]
        BY <2>2, <2>6, <2>7, <2>8, LenProperties
    <2>12. ASSUME NEW k \in 1..Len(list), k > Len(token_list) PROVE list[k].row > Len(source)
        <3>1. CASE k = Len(more) + 1
            <4>1. list[k] = e
                BY <2>2, <2>8, <3>1
            <4> QED BY <2>3, <2>5, <4>1, <1>0
        <3>2. CASE k # Len(more) + 1
            <4>1. k - Len(token_list) \in 1..Len(lexed) /\ Len(token_list) + (k - Len(token_list)) = k
                  /\ k \in 1..Len(more)
                <5>1. Len(more) = Len(token_list) + Len(lexed) /\ k \in 1..(Len(more) + 1) /\ k > Len(token_list)
                    BY <2>6, <2>7, <2>11, <2>12
                <5> HIDE DEF list
                <5> QED BY <2>6, <3>2, <5>1
            <4>2. list[k] = lexed[k - Len(token_list)]
                BY <2>2, <2>7, <2>8, <4>1
            <4> QED BY <2>3, <2>4, <4>1, <4>2
        <3> QED BY <3>1, <3>2
    <2>13. \A k \in 1..Len(list) : IF k <= Len(Text) THEN list[k] = Text[k] ELSE list[k].row > Len(source)
        <3> TAKE k \in 1..Len(list)
        <3>1. CASE k > Len(token_list)
            BY <2>6, <2>9, <2>10, <2>12, <3>1
        <3>2. CASE ~(k > Len(token_list))
            <4>1. k \in 1..Len(token_list) /\ list[k] = token_list[k]
                BY <2>6, <2>11, <3>2
            <4> QED BY <2>9, <4>1
        <3> QED BY <3>1, <3>2
    <2>14. Len(Text) <= Len(list)
        BY <2>6, <2>9, <2>10, <2>11
    <2>15. line' >= Len(source)
        BY <1>0, <2>1, <2>3 DEF row
    <2> QED BY <1>1, <2>1, <2>11, <2>13, <2>14, <2>15 DEF ListIsText
<1> QED BY <1>0, <1>2, <1>3, <1>4

\* A step reads, or leaves what was read as it is.
LEMMA StepReads ==
    ASSUME [Step]_vars
    PROVE  /\ UNCHANGED source
           /\ \/ \E i \in 0..Len(source) : Takes(i) /\ Advance(i)
              \/ UNCHANGED stream
BY DEF Step, Next, NextFails, Peek, PeekFails, Fails, Current, Back, Jump, vars

LEMMA StepText == TypeOK /\ ListIsText /\ [Step]_vars => ListIsText'
<1> SUFFICES ASSUME TypeOK, ListIsText, [Step]_vars PROVE ListIsText'
    OBVIOUS
<1>1. CASE \E i \in 0..Len(source) : Takes(i) /\ Advance(i)
    BY <1>1, StepReads, AdvanceText
<1>2. CASE UNCHANGED stream
    <2>1. UNCHANGED source
        BY StepReads
    <2>2. whole' = whole /\ Text' = Text
        BY <2>1, WholeSame
    <2> QED BY <1>2, <2>1, <2>2 DEF ListIsText, stream
<1> QED BY <1>1, <1>2, StepReads

\* Whatever the parser calls, and whatever the source, the list is the text of
\* the lines read, and then the whole text with nothing of the source after it.
THEOREM ListText == Spec => []ListIsText
<1>1. Init /\ [][Step]_vars /\ []TypeOK => []ListIsText
    BY InitText, StepText, PTL
<1> QED BY <1>1, LexerTypes, PTL DEF Spec

-----------------------------------------------------------------------------
(* A token is kept ahead                                                     *)

\* Since a line that had no tokens, or the start, no line has had two: the next
\* one has to have a token.
Indebted(r) ==
    \E i \in 0..r : (i = 0 \/ Tokenless(i)) /\ \A k \in (i + 1)..r : Count(k) <= 1

\* The parser has not been past the last token, nor at it, unless there is a
\* debt or the last is the end of the source.
OneAhead ==
    Reliable =>
        /\ Alive
        /\ IF read < Len(source)
           THEN furthest <= Len(token_list) - (IF Indebted(read) THEN 1 ELSE 2)
           ELSE furthest <= Len(Text) - 1

LEMMA CountKnown ==
    ASSUME source \in Sources, NEW i \in 1..Len(source)
    PROVE  Count(i) \in Nat
<1>0. Len(source) \in Nat /\ i - 1 \in 0..Len(source) /\ i \in (i - 1)..Len(source) /\ i \in 0..Len(source)
    BY SourceKnown
<1>1. Continues(whole[i].tokens, whole[i - 1].tokens, i - 1)
    BY <1>0, WholeContinues
<1>2. Len(whole[i].tokens) \in Nat /\ Len(whole[i - 1].tokens) \in Nat
    BY <1>0, WholeText, LenProperties DEF TextOf
<1> QED BY <1>1, <1>2 DEF Continues, Count

\* A line that is read pays its debt, or makes one.
LEMMA DebtOfLine ==
    ASSUME TypeOK, ListIsText, Reliable, read < Len(source),
           NEW i \in 0..Len(source), Takes(i), Reads, i < Len(source)
    PROVE  /\ Len(Ahead(i)) = Len(token_list) + Count(i)
           /\ Count(i) = 0 => ~Indebted(read) /\ Indebted(i)
           /\ Count(i) = 1 /\ Indebted(read) => Indebted(i)
<1>0. source \in Sources /\ Len(source) \in Nat /\ read \in Nat /\ DOMAIN source = 1..Len(source)
    BY SourceOf, SourceKnown DEF TypeOK
<1>1. /\ i \in (read + 1)..Len(source)
      /\ \A j \in (read + 1)..(i - 1) : Blank(source[j])
      /\ ~Blank(source[i])
      /\ whole[i - 1] = whole[read]
    <2>1. /\ i \in (read + 1)..Len(source)
          /\ \A j \in (read + 1)..(i - 1) : Blank(source[j])
          /\ i = Len(source) \/ ~Blank(source[i])
          /\ whole[i - 1] = whole[read]
        BY TakenText
    <2>2. Len(source) \in Nat
        BY <1>0
    <2>3. i # Len(source)
        BY <2>2
    <2> QED BY <2>1, <2>3
<1>2. Ahead(i) = whole[i].tokens
    BY ReadsText
<1>3. token_list = whole[read].tokens
    <2> DEFINE w == whole[read]
    <2>1. [tokens |-> token_list, stack |-> indent_stack, ignored |-> ignoring] = w
        BY DEF ListIsText
    <2> HIDE DEF w
    <2>2. token_list = w.tokens
        BY <2>1
    <2> QED BY <2>2 DEF w
<1>4. /\ Len(whole[i].tokens) \in Nat /\ Len(whole[read].tokens) \in Nat
    BY <1>0, <1>1, WholeText, LenProperties DEF TextOf
<1>5. Len(Ahead(i)) = Len(token_list) + Count(i)
    BY <1>1, <1>2, <1>3, <1>4 DEF Count
<1>6. ASSUME NEW j \in (read + 1)..(i - 1) PROVE Count(j) = 0
    <2>1. j \in 1..Len(source) /\ j < Len(source) /\ Blank(source[j])
        BY <1>0, <1>1
    <2>2. whole[j] = whole[j - 1]
        BY <1>0, <2>1, WholeUnfolds DEF After
    <2>3. Len(whole[j].tokens) \in Nat
        BY <1>0, <2>1, WholeText, LenProperties DEF TextOf
    <2> QED BY <2>2, <2>3 DEF Count
<1>7. ASSUME Count(i) = 0 PROVE ~Indebted(read)
    <2> SUFFICES ASSUME Indebted(read) PROVE FALSE
        OBVIOUS
    <2>1. PICK d \in 0..read : (d = 0 \/ Tokenless(d)) /\ \A k \in (d + 1)..read : Count(k) <= 1
        BY DEF Indebted
    <2>2. Tokenless(i)
        BY <1>1, <1>7 DEF Tokenless
    <2>3. d \in 0..Len(source) /\ i \in 1..(Len(source) - 1) /\ d < i
        BY <1>0, <1>1
    <2>4. PICK k \in (d + 1)..i : Count(k) > 1
        BY <2>1, <2>2, <2>3 DEF Reliable
    <2>5. CASE k \in (d + 1)..read
        <3>1. k \in 1..Len(source)
            BY <1>0, <2>5
        <3>2. Count(k) \in Nat
            BY <1>0, <3>1, CountKnown
        <3> QED BY <2>1, <2>4, <2>5, <3>2
    <2>6. CASE k \in (read + 1)..(i - 1)
        BY <1>6, <2>4, <2>6
    <2>7. CASE k = i
        BY <1>7, <2>4, <2>7
    <2> QED BY <1>0, <1>1, <2>5, <2>6, <2>7
<1>8. ASSUME Count(i) = 0 PROVE Indebted(i)
    <2>1. Tokenless(i) /\ i \in 0..i /\ \A k \in (i + 1)..i : Count(k) <= 1
        BY <1>0, <1>1, <1>8 DEF Tokenless
    <2> QED BY <2>1 DEF Indebted
<1>9. ASSUME Count(i) = 1, Indebted(read) PROVE Indebted(i)
    <2>1. PICK d \in 0..read : (d = 0 \/ Tokenless(d)) /\ \A k \in (d + 1)..read : Count(k) <= 1
        BY <1>9 DEF Indebted
    <2>2. ASSUME NEW k \in (d + 1)..i PROVE Count(k) <= 1
        <3>1. CASE k \in (d + 1)..read
            BY <2>1, <3>1
        <3>2. CASE k \in (read + 1)..(i - 1)
            BY <1>6, <3>2
        <3>3. CASE k = i
            BY <1>9, <3>3
        <3> QED BY <1>0, <1>1, <3>1, <3>2, <3>3
    <2>3. d \in 0..i
        BY <1>0, <1>1
    <2> QED BY <2>1, <2>2, <2>3 DEF Indebted
<1> QED BY <1>5, <1>7, <1>8, <1>9

\* Where the parser is, the list has the token of the text.
LEMMA PlaceKnown ==
    ASSUME TypeOK, ListIsText, OneAhead, Reliable
    PROVE  /\ token_pointer \in -1..(Len(Text) - 1)
           /\ token_pointer >= 0 => /\ token_pointer + 1 \in 1..Len(token_list)
                                    /\ token_list[token_pointer + 1] = Text[token_pointer + 1]
           /\ furthest <= Len(token_list) - 1
           /\ AtEof <=> token_pointer = Len(Text) - 1
           /\ read < Len(source) => Len(token_list) < Len(Text)
<1> DEFINE n == Len(source)
           s == whole[n].tokens
<1>0. /\ source \in Sources /\ n \in Nat /\ read \in 0..n /\ token_list \in Seq(Tokens)
      /\ furthest \in Int /\ token_pointer \in -1..furthest
    BY SourceOf, SourceKnown DEF TypeOK
<1>1. /\ Text \in Seq(Tokens) /\ Len(Text) = Len(s) + 1
      /\ \A k \in 1..(Len(Text) - 1) : Text[k] = s[k] /\ Text[k].type # "eof"
      /\ Text[Len(Text)].type = "eof"
    BY <1>0, TextKnown DEF Token
<1>2. Len(Text) \in Nat /\ Len(token_list) \in Nat /\ DOMAIN token_list = 1..Len(token_list) /\ Len(s) \in Nat
    <2>1. s \in Seq(Tokens)
        BY <1>0, WholeText DEF TextOf
    <2> QED BY <1>0, <1>1, <2>1, LenProperties
<1>3. CASE read < n
    <2>1. token_list = whole[read].tokens
        <3> DEFINE w == whole[read]
        <3>1. [tokens |-> token_list, stack |-> indent_stack, ignored |-> ignoring] = w
            BY <1>3 DEF ListIsText
        <3> HIDE DEF w
        <3>2. token_list = w.tokens
            BY <3>1
        <3> QED BY <3>2 DEF w
    <2>2. Continues(s, token_list, read)
        <3>1. n \in read..n
            BY <1>0
        <3> QED BY <1>0, <2>1, <3>1, WholeContinues
    <2>3. Len(token_list) <= Len(s) /\ \A k \in 1..Len(token_list) : s[k] = token_list[k]
        BY <1>2, <2>2 DEF Continues
    <2> HIDE DEF s, n
    <2>4. \A k \in 1..Len(token_list) : token_list[k] = Text[k] /\ token_list[k].type # "eof"
        BY <1>1, <1>2, <2>3
    <2>5. furthest <= Len(token_list) - 1
        BY <1>0, <1>2, <1>3 DEF OneAhead, n
    <2>6. token_pointer >= 0 => token_pointer + 1 \in 1..Len(token_list)
        BY <1>0, <1>2, <2>5
    <2>7. ~AtEof
        BY <1>2, <2>4 DEF AtEof
    <2> QED BY <1>0, <1>1, <1>2, <2>3, <2>4, <2>5, <2>6, <2>7 DEF n
<1>4. CASE read = n
    <2>1. Len(Text) <= Len(token_list) /\ \A k \in 1..Len(Text) : token_list[k] = Text[k]
        BY <1>2, <1>4 DEF ListIsText
    <2>2. furthest <= Len(Text) - 1
        BY <1>0, <1>4 DEF OneAhead
    <2> HIDE DEF s, n
    <2>3. token_pointer \in -1..(Len(Text) - 1)
        BY <1>0, <1>2, <2>2
    <2>4. token_pointer >= 0 => token_pointer + 1 \in 1..Len(Text)
        BY <1>2, <2>3
    <2>5. token_pointer = Len(Text) - 1 => AtEof
        <3>1. token_pointer = Len(Text) - 1 => token_pointer + 1 = Len(Text)
            BY <1>2
        <3>2. Len(Text) \in 1..Len(Text)
            BY <1>1, <1>2
        <3> QED BY <1>1, <1>2, <2>1, <3>1, <3>2 DEF AtEof
    <2>6. AtEof => token_pointer = Len(Text) - 1
        <3> SUFFICES ASSUME AtEof, token_pointer # Len(Text) - 1 PROVE FALSE
            OBVIOUS
        <3>1. token_pointer + 1 \in 1..(Len(Text) - 1)
            BY <1>2, <2>3 DEF AtEof
        <3> QED BY <1>1, <1>2, <2>1, <3>1 DEF AtEof
    <2> QED BY <1>0, <1>2, <1>4, <2>1, <2>2, <2>3, <2>4, <2>5, <2>6 DEF n
<1> QED BY <1>0, <1>3, <1>4

\* Reading on, the token the parser moves to is in the list, and is the text's;
\* and a token is kept ahead of it if one has to be.
LEMMA AheadKnown ==
    ASSUME TypeOK, ListIsText, OneAhead, Reliable, Room, NEW i \in 0..Len(source), Takes(i)
    PROVE  /\ ~Endless(i)
           /\ Moved \in 0..(Len(Text) - 1)
           /\ Moved + 1 \in 1..Len(Ahead(i))
           /\ Ahead(i)[Moved + 1] = Text[Moved + 1]
           /\ \A p \in {furthest, Moved} :
                 IF i < Len(source)
                 THEN p <= Len(Ahead(i)) - (IF Indebted(i) THEN 1 ELSE 2)
                 ELSE p <= Len(Text) - 1
<1>0. /\ source \in Sources /\ Len(source) \in Nat /\ DOMAIN source = 1..Len(source)
      /\ read \in 0..Len(source) /\ furthest \in Int /\ token_pointer \in -1..furthest
      /\ token_list \in Seq(Tokens) /\ Len(token_list) \in Nat /\ Text \in Seq(Tokens) /\ Len(Text) \in Nat
    BY SourceOf, SourceKnown, TextKnown, LenProperties DEF TypeOK
<1>1. /\ token_pointer \in -1..(Len(Text) - 1)
      /\ token_pointer >= 0 => /\ token_pointer + 1 \in 1..Len(token_list)
                               /\ token_list[token_pointer + 1] = Text[token_pointer + 1]
      /\ furthest <= Len(token_list) - 1
      /\ AtEof <=> token_pointer = Len(Text) - 1
      /\ read < Len(source) => Len(token_list) < Len(Text)
    BY PlaceKnown
<1>2. /\ AtEof => Moved = token_pointer /\ token_pointer >= 0
      /\ ~AtEof => Moved = token_pointer + 1
    <2>1. AtEof => token_pointer + 1 \in 1..Len(token_list)
        BY <1>0, LenProperties DEF AtEof
    <2> QED BY <1>0, <2>1 DEF Moved
<1>3. Moved \in 0..(Len(Text) - 1) /\ Moved <= Len(token_list)
    BY <1>0, <1>1, <1>2
<1>4. ~Endless(i)
    <2> SUFFICES ASSUME Reads, source[i].endless PROVE FALSE
        BY DEF Endless
    <2>1. i \in DOMAIN source
        BY <1>0, TakenLine
    <2> QED BY <2>1 DEF Reliable
<1>5. CASE read < Len(source) /\ ~Reads
    <2>1. i = read /\ Ahead(i) = token_list
        BY <1>5 DEF Takes, Ahead
    <2>2. ~AtEof
        BY <1>0, <1>1, <1>5
    <2>3. Moved = token_pointer + 1 /\ ~Wants
        BY <1>2, <1>5, <2>2 DEF Reads
    <2>4. token_list # << >>
        <3> SUFFICES ASSUME token_list = << >> PROVE FALSE
            OBVIOUS
        <3>1. Len(token_list) = 0
            OBVIOUS
        <3>2. token_pointer = -1
            BY <1>0, <1>1, <3>1
        <3> QED BY <2>3, <3>2 DEF Wants
    <2>5. Moved < Len(token_list) - 1
        BY <1>0, <1>3, <2>3, <2>4 DEF Wants
    <2>6. Moved + 1 \in 1..Len(token_list) /\ Moved <= Len(token_list) - 2
        BY <1>0, <1>3, <2>5
    <2>7. token_list[Moved + 1] = Text[Moved + 1]
        <3>1. token_list = whole[read].tokens
            <4> DEFINE w == whole[read]
            <4>1. [tokens |-> token_list, stack |-> indent_stack, ignored |-> ignoring] = w
                BY <1>5 DEF ListIsText
            <4> HIDE DEF w
            <4>2. token_list = w.tokens
                BY <4>1
            <4> QED BY <4>2 DEF w
        <3>2. Continues(whole[Len(source)].tokens, token_list, read)
            <4>1. Len(source) \in read..Len(source)
                BY <1>0
            <4> QED BY <1>0, <3>1, <4>1, WholeContinues
        <3>3. Len(Text) = Len(whole[Len(source)].tokens) + 1
              /\ \A k \in 1..(Len(Text) - 1) : Text[k] = whole[Len(source)].tokens[k]
            BY <1>0, TextKnown
        <3> DEFINE s == whole[Len(source)].tokens
        <3> HIDE DEF s
        <3>4. Len(s) \in Nat /\ Len(Text) = Len(s) + 1 /\ \A k \in 1..(Len(Text) - 1) : Text[k] = s[k]
            <4>1. s \in Seq(Tokens)
                BY <1>0, WholeText DEF TextOf, s
            <4> QED BY <3>3, <4>1, LenProperties DEF s
        <3>5. Len(token_list) <= Len(s) /\ \A k \in 1..Len(s) : k <= Len(token_list) => s[k] = token_list[k]
            BY <3>2 DEF Continues, s
        <3>6. Moved + 1 \in 1..Len(s) /\ Moved + 1 <= Len(token_list) /\ Moved + 1 \in 1..(Len(Text) - 1)
            BY <1>0, <2>6, <3>4, <3>5
        <3> QED BY <3>4, <3>5, <3>6
    <2>8. furthest <= Len(token_list) - (IF Indebted(read) THEN 1 ELSE 2)
        BY <1>5 DEF OneAhead
    <2>9. \A p \in {furthest, Moved} : p <= Len(token_list) - (IF Indebted(read) THEN 1 ELSE 2)
        BY <1>0, <2>6, <2>8
    <2> QED BY <1>3, <1>4, <1>5, <2>1, <2>6, <2>7, <2>9
<1>6. CASE read < Len(source) /\ Reads /\ i < Len(source)
    <2> DEFINE c == Count(i)
               list == Ahead(i)
    <2>0. i \in 1..Len(source)
        BY <1>0, <1>6, TakenLine
    <2>1. /\ Len(list) = Len(token_list) + c
          /\ c = 0 => ~Indebted(read) /\ Indebted(i)
          /\ c = 1 /\ Indebted(read) => Indebted(i)
        BY <1>6, DebtOfLine
    <2>2. c \in Nat
        BY <1>0, <2>0, CountKnown
    <2>3. furthest <= Len(token_list) - (IF Indebted(read) THEN 1 ELSE 2)
        BY <1>6 DEF OneAhead
    <2>4. Moved <= furthest + 1
        BY <1>0, <1>2
    <2> HIDE DEF c
    <2>5. list = whole[i].tokens
        BY <1>6, ReadsText
    <2> HIDE DEF list
    <2>6. ASSUME NEW p \in Int, p <= furthest + 1
          PROVE  p <= Len(list) - (IF Indebted(i) THEN 1 ELSE 2)
        <3>1. CASE c = 0
            BY <1>0, <2>1, <2>3, <2>6, <3>1
        <3>2. CASE c = 1 /\ Indebted(read)
            BY <1>0, <2>1, <2>3, <2>6, <3>2
        <3>3. CASE c = 1 /\ ~Indebted(read)
            BY <1>0, <2>1, <2>3, <2>6, <3>3
        <3>4. CASE c > 1
            BY <1>0, <2>1, <2>2, <2>3, <2>6, <3>4
        <3> QED BY <2>2, <3>1, <3>2, <3>3, <3>4
    <2>7. \A p \in {furthest, Moved} : p <= Len(list) - (IF Indebted(i) THEN 1 ELSE 2)
        BY <1>0, <1>3, <2>4, <2>6
    <2>8. Moved + 1 \in 1..Len(list)
        BY <1>0, <1>3, <2>1, <2>2, <2>7
    <2> DEFINE s == whole[Len(source)].tokens
    <2>9. /\ Len(s) \in Nat /\ Len(Text) = Len(s) + 1 /\ \A k \in 1..(Len(Text) - 1) : Text[k] = s[k]
        <3>1. s \in Seq(Tokens)
            BY <1>0, WholeText DEF TextOf
        <3> QED BY <1>0, <3>1, TextKnown, LenProperties
    <2>10. Continues(s, list, i)
        <3>1. Len(source) \in i..Len(source)
            BY <1>0, <1>6
        <3> QED BY <1>0, <2>0, <2>5, <3>1, WholeContinues
    <2> HIDE DEF s
    <2>11. Len(list) <= Len(s) /\ \A k \in 1..Len(s) : k <= Len(list) => s[k] = list[k]
        BY <2>10 DEF Continues
    <2>12. Moved + 1 \in 1..Len(s) /\ Moved + 1 <= Len(list) /\ Moved + 1 \in 1..(Len(Text) - 1)
        BY <1>0, <2>1, <2>2, <2>8, <2>9, <2>11
    <2>13. list[Moved + 1] = Text[Moved + 1]
        BY <2>9, <2>11, <2>12
    <2> QED BY <1>3, <1>4, <1>6, <2>7, <2>8, <2>13 DEF list
<1>7. CASE read < Len(source) /\ Reads /\ i = Len(source)
    <2>1. Ahead(i) = Text
        BY <1>7, ReadsText
    <2>2. \A p \in {furthest, Moved} : p <= Len(Text) - 1
        BY <1>0, <1>1, <1>3, <1>7
    <2>3. Moved + 1 \in 1..Len(Text)
        BY <1>0, <1>3
    <2> QED BY <1>0, <1>3, <1>4, <1>7, <2>1, <2>2, <2>3
<1>8. CASE read = Len(source)
    <2>1. i = Len(source)
        <3>1. CASE Reads
            <4>1. Stops(i)
                BY <3>1 DEF Takes, StopsFirst
            <4>2. Len(source) \in Nat
                BY <1>0
            <4>3. i \notin (read + 1)..Len(source)
                BY <1>8, <4>2
            <4> QED BY <4>1, <4>3 DEF Stops
        <3>2. CASE ~Reads
            BY <1>8, <3>2 DEF Takes
        <3> QED BY <3>1, <3>2
    <2>2. /\ Len(Text) <= Len(token_list)
          /\ \A k \in 1..Len(Text) : k \in 1..Len(token_list) /\ token_list[k] = Text[k]
        BY <1>0, <1>8, LenProperties DEF ListIsText
    <2>3. /\ Ahead(i) \in Seq(Tokens) /\ Len(token_list) <= Len(Ahead(i))
          /\ \A k \in 1..Len(token_list) : Ahead(i)[k] = token_list[k]
        BY Grows
    <2>4. Moved + 1 \in 1..Len(Text)
        BY <1>0, <1>3
    <2>5. Len(Ahead(i)) \in Nat
        BY <2>3, LenProperties
    <2>6. furthest <= Len(Text) - 1
        BY <1>0, <1>8 DEF OneAhead
    <2>7. \A p \in {furthest, Moved} : p <= Len(Text) - 1
        BY <1>0, <1>3, <2>6
    <2>8. Moved + 1 \in 1..Len(Ahead(i))
        BY <1>0, <2>2, <2>3, <2>4, <2>5
    <2> QED BY <1>0, <1>3, <1>4, <2>1, <2>2, <2>3, <2>4, <2>7, <2>8
<1>9. Len(source) \in Nat /\ read \in 0..Len(source)
    BY <1>0
<1>10. (read < Len(source) \/ read = Len(source)) /\ (i < Len(source) \/ i = Len(source))
    BY <1>9
<1> QED BY <1>5, <1>6, <1>7, <1>8, <1>10

-----------------------------------------------------------------------------
(* The lexer is a reader of the whole text                                   *)

LEMMA InitAhead == Init => OneAhead
<1> SUFFICES ASSUME Init PROVE OneAhead
    OBVIOUS
<1>1. source \in Sources /\ Len(source) \in Nat \ {0}
    BY SourceKnown DEF Init
<1>2. read = 0 /\ Len(token_list) = 0 /\ furthest = -1 /\ Alive
    BY DEF Init, Alive
<1>3. Indebted(0)
    <2>1. 0 \in 0..0 /\ \A k \in (0 + 1)..0 : Count(k) <= 1
        OBVIOUS
    <2> QED BY <2>1 DEF Indebted
<1> QED BY <1>1, <1>2, <1>3 DEF OneAhead

\* What is known of the text stays so.
LEMMA ReliableSame ==
    ASSUME source' = source
    PROVE  /\ Reliable' <=> Reliable
           /\ \A r : Indebted(r)' <=> Indebted(r)
BY WholeSame DEF Reliable, Indebted, Tokenless, Count

\* Reading on, whether the parser goes there or only looks.
LEMMA AdvanceAhead ==
    ASSUME TypeOK, ListIsText, OneAhead, Room, NEW i \in 0..Len(source), Takes(i), Advance(i),
           UNCHANGED <<source, fault>>, furthest' \in {furthest, Moved}
    PROVE  OneAhead'
<1> SUFFICES ASSUME Reliable PROVE OneAhead'
    BY ReliableSame DEF OneAhead
<1>1. \A p \in {furthest, Moved} :
         IF i < Len(source)
         THEN p <= Len(Ahead(i)) - (IF Indebted(i) THEN 1 ELSE 2)
         ELSE p <= Len(Text) - 1
    BY AheadKnown
<1>2. read' = i /\ token_list' = Ahead(i) /\ source' = source /\ Alive'
    BY DEF Advance, OneAhead, Alive
<1>3. Text' = Text /\ (Indebted(i)' <=> Indebted(i)) /\ (Indebted(read') <=> Indebted(i))
    BY <1>2, WholeSame, ReliableSame
<1>4. Indebted(read)' <=> Indebted(i)
    BY <1>2, <1>3, WholeSame DEF Indebted, Tokenless, Count
<1> QED BY <1>1, <1>2, <1>3, <1>4 DEF OneAhead

LEMMA StillAhead ==
    ASSUME OneAhead, UNCHANGED <<source, stream, furthest>>, Reliable => Alive'
    PROVE  OneAhead'
<1>1. (Reliable' <=> Reliable) /\ Text' = Text /\ whole' = whole
    BY ReliableSame, WholeSame
<1>2. Indebted(read)' <=> Indebted(read)
    BY <1>1 DEF Indebted, Tokenless, Count, stream
<1> QED BY <1>1, <1>2 DEF OneAhead, stream

\* next() and what the parser looks for have the places of the reader.
LEMMA SameMove ==
    ASSUME TypeOK, ListIsText, OneAhead, Reliable
    PROVE  Reader!Moved = Moved
BY PlaceKnown DEF Reader!Moved, Reader!AtEnd, Moved

LEMMA NextReads ==
    ASSUME TypeOK, ListIsText, OneAhead, Next
    PROVE  OneAhead' /\ (Reliable => Alive' /\ Reader!Next)
<1>1. PICK i \in 0..Len(source) : Takes(i) /\ ~Endless(i) /\ Advance(i)
    BY DEF Next
<1>2. Room /\ UNCHANGED <<source, shown, fault>> /\ token_pointer' = Moved /\ Reached(Moved)
    BY DEF Next
<1>3. furthest' \in {furthest, Moved}
    BY <1>2 DEF Reached
<1>4. OneAhead'
    BY <1>1, <1>2, <1>3, AdvanceAhead
<1>5. ASSUME Reliable PROVE Alive' /\ Reader!Next
    <2>1. Reader!Moved = Moved
        BY <1>5, SameMove
    <2> QED BY <1>2, <2>1 DEF Room, Alive, Reader!Next, Reader!Reached, Reached
<1> QED BY <1>4, <1>5

LEMMA PeekReads ==
    ASSUME TypeOK, ListIsText, OneAhead, Peek
    PROVE  OneAhead' /\ (Reliable => Alive' /\ Reader!Peek)
<1>1. PICK i \in 0..Len(source) : Takes(i) /\ Advance(i) /\ Shows(Ahead(i), Moved)
    BY DEF Peek
<1>2. Room /\ UNCHANGED <<source, furthest, fault>> /\ token_pointer' = Moved - 1
    BY DEF Peek
<1>3. OneAhead'
    BY <1>1, <1>2, AdvanceAhead
<1>4. ASSUME Reliable PROVE Alive' /\ Reader!Peek
    <2>1. Reader!Moved = Moved
        BY <1>4, SameMove
    <2>2. Moved + 1 \in 1..Len(Ahead(i)) /\ Ahead(i)[Moved + 1] = Text[Moved + 1]
        BY <1>1, <1>2, <1>4, AheadKnown
    <2>3. Ahead(i) # << >>
        BY <2>2
    <2>4. shown' = Text[Moved + 1]
        BY <1>1, <2>2, <2>3 DEF Shows
    <2> QED BY <1>2, <2>1, <2>4 DEF Room, Alive, Reader!Peek
<1> QED BY <1>3, <1>4

\* The text of a reliable source is never asked for a token it does not have.
LEMMA NoFailure ==
    ASSUME TypeOK, ListIsText, OneAhead, Reliable
    PROVE  ~NextFails /\ ~PeekFails /\ ~(token_pointer >= 0 /\ Outside(token_list, token_pointer))
<1>0. token_list \in Seq(Tokens) /\ DOMAIN token_list = 1..Len(token_list)
    BY LenProperties DEF TypeOK
<1>1. token_pointer >= 0 => token_pointer + 1 \in 1..Len(token_list)
    BY PlaceKnown
<1>2. ~(token_pointer >= 0 /\ Outside(token_list, token_pointer))
    BY <1>0, <1>1 DEF Outside
<1>3. ~Unreadable
    BY <1>2 DEF Unreadable
<1>4. ASSUME Room, NEW i \in 0..Len(source), Takes(i) PROVE ~Endless(i) /\ ~Outside(Ahead(i), Moved)
    <2>1. ~Endless(i) /\ Moved + 1 \in 1..Len(Ahead(i))
        BY <1>4, AheadKnown
    <2>2. DOMAIN Ahead(i) = 1..Len(Ahead(i))
        BY <1>4, Grows, LenProperties
    <2> QED BY <2>1, <2>2 DEF Outside
<1>5. DOMAIN source \subseteq 0..Len(source)
    BY SourceOf, SourceKnown
<1>6. ~NextFails
    BY <1>3, <1>4, <1>5 DEF NextFails
<1>7. ~PeekFails
    BY <1>4 DEF PeekFails
<1> QED BY <1>2, <1>6, <1>7

LEMMA FailReads ==
    ASSUME TypeOK, ListIsText, OneAhead,
           NextFails \/ PeekFails \/ (Current /\ Outside(token_list, token_pointer))
    PROVE  OneAhead' /\ ~Reliable
<1>1. ~Reliable
    BY NoFailure DEF Current
<1>2. UNCHANGED <<source, stream, furthest>>
    BY DEF NextFails, PeekFails, Current, Fails, reader
<1> QED BY <1>1, <1>2, StillAhead

LEMMA CurrentReads ==
    ASSUME TypeOK, ListIsText, OneAhead, Current, ~Outside(token_list, token_pointer)
    PROVE  OneAhead' /\ (Reliable => Alive' /\ Reader!Current)
<1>1. /\ Alive /\ token_pointer >= 0 /\ Shows(token_list, token_pointer)
      /\ UNCHANGED <<source, stream, token_pointer, furthest, fault>>
    BY DEF Current
<1>2. OneAhead'
    BY <1>1, StillAhead DEF Alive
<1>3. ASSUME Reliable PROVE Reader!Current
    <2>1. token_pointer + 1 \in 1..Len(token_list) /\ token_list[token_pointer + 1] = Text[token_pointer + 1]
        BY <1>1, <1>3, PlaceKnown
    <2>2. token_list # << >>
        BY <2>1
    <2> QED BY <1>1, <2>1, <2>2 DEF Shows, Reader!Current
<1> QED BY <1>1, <1>2, <1>3 DEF Alive

LEMMA MoveReads ==
    ASSUME TypeOK, ListIsText, OneAhead, Back \/ \E p \in -1..furthest : Jump(p)
    PROVE  OneAhead' /\ (Reliable => Alive' /\ (Reader!Back \/ Reader!Jump))
<1>1. Alive /\ UNCHANGED <<source, stream, furthest, shown, fault>>
    BY DEF Back, Jump
<1>2. OneAhead'
    BY <1>1, StillAhead DEF Alive
<1>3. Back => Reader!Back
    BY DEF Back, Reader!Back
<1>4. (\E p \in -1..furthest : Jump(p)) => Reader!Jump
    BY DEF Jump, Reader!Jump
<1> QED BY <1>1, <1>2, <1>3, <1>4 DEF Alive

LEMMA StepReadsWhole ==
    ASSUME TypeOK, ListIsText, OneAhead, Step
    PROVE  OneAhead' /\ (Reliable => Alive' /\ Reader!Step)
<1>1. CASE Next
    BY <1>1, NextReads DEF Reader!Step
<1>2. CASE Peek
    BY <1>2, PeekReads DEF Reader!Step
<1>3. CASE NextFails \/ PeekFails \/ (Current /\ Outside(token_list, token_pointer))
    BY <1>3, FailReads
<1>4. CASE Current /\ ~Outside(token_list, token_pointer)
    BY <1>4, CurrentReads DEF Reader!Step
<1>5. CASE Back \/ \E p \in -1..furthest : Jump(p)
    BY <1>5, MoveReads DEF Reader!Step
<1> QED BY <1>1, <1>2, <1>3, <1>4, <1>5 DEF Step

TextInv == TypeOK /\ ListIsText /\ OneAhead

LEMMA TextInvariance == Spec => []TextInv
<1>1. Init => OneAhead
    BY InitAhead
<1>2. TypeOK /\ ListIsText /\ OneAhead /\ [Step]_vars => OneAhead'
    <2> SUFFICES ASSUME TypeOK, ListIsText, OneAhead, [Step]_vars PROVE OneAhead'
        OBVIOUS
    <2>1. CASE Step
        BY <2>1, StepReadsWhole
    <2>2. CASE UNCHANGED vars
        <3>1. UNCHANGED <<source, stream, furthest>> /\ (Alive => Alive')
            BY <2>2 DEF vars, reader, Alive
        <3> QED BY <3>1, StillAhead DEF OneAhead
    <2> QED BY <2>1, <2>2
<1>3. Init /\ [][Step]_vars /\ []TypeOK /\ []ListIsText => []OneAhead
    BY <1>1, <1>2, PTL
<1> QED BY <1>3, LexerTypes, ListText, PTL DEF Spec, TextInv

\* The refinement: reading by the line, with a token kept ahead, is as good as
\* having the whole text, for every reliable source and whatever the parser
\* calls; and no call fails.
THEOREM ReadsWhole == Spec => ReadsAsWhole
<1>1. TextInv /\ [Step]_vars => [Reliable => Alive' /\ Reader!Step]_vars
    BY StepReadsWhole DEF TextInv
<1> QED BY <1>1, TextInvariance, PTL DEF Spec, ReadsAsWhole

-----------------------------------------------------------------------------
(* Reports                                                                   *)

LEMMA BlankQuiet ==
    ASSUME NEW l \in Lines, Blank(l)
    PROVE  Reports(l) = 0
BY DEF Lines, Blank, Silent, Reports

LEMMA ReportsType ==
    ASSUME NEW l \in Lines
    PROVE  Reports(l) \in Nat
BY DEF Lines, Reports

\* The row of a line that is read is after all rows before it.
LEMMA RowLater ==
    ASSUME TypeOK, ListIsText, NEW i \in 0..Len(source), Takes(i), Reads
    PROVE  /\ Row(i) \in Nat /\ Row(i) > line /\ i \in 1..Len(source)
           /\ read < Len(source) => Row(i) = i /\ i > read /\ \A j \in (read + 1)..(i - 1) : Blank(source[j])
           /\ read = Len(source) => i = read
<1>0. Len(source) \in Nat /\ read \in 0..Len(source) /\ line \in Nat
    BY SourceOf, SourceKnown DEF TypeOK
<1>1. Row(i) \in Nat /\ i \in 1..Len(source)
    BY TakenLine
<1>2. CASE read < Len(source)
    <2>1. i \in (read + 1)..Len(source) /\ Row(i) = i /\ \A j \in (read + 1)..(i - 1) : Blank(source[j])
        BY <1>2, TakenText
    <2>2. line = read
        BY <1>2 DEF ListIsText
    <2>3. i > read /\ read # Len(source)
        BY <1>0, <1>2, <2>1
    <2> QED BY <1>1, <1>2, <2>1, <2>2, <2>3
<1>3. CASE read = Len(source)
    <2>1. Row(i) = line + 1
        BY <1>3 DEF Row
    <2>2. Stops(i)
        BY DEF Takes, StopsFirst
    <2>3. i \notin (read + 1)..Len(source)
        BY <1>0, <1>3
    <2>4. i = Len(source)
        BY <2>2, <2>3 DEF Stops
    <2> QED BY <1>0, <1>1, <1>3, <2>1, <2>4
<1> QED BY <1>0, <1>2, <1>3

\* How many places there are from one to another.
LEMMA PlacesBetween ==
    ASSUME NEW a \in Nat, NEW n \in Nat
    PROVE  Cardinality((a + 1)..(a + n)) = n
<1>1. Cardinality((a + 1)..(a + n)) = IF a + 1 > a + n THEN 0 ELSE (a + n) - (a + 1) + 1
    BY FS_Interval
<1> QED BY <1>1

TimesIn(s, r) == Cardinality({k \in DOMAIN s : s[k] = r})

Rising(s, top) ==
    /\ \A k \in DOMAIN s : s[k] \in 1..top
    /\ \A k, j \in DOMAIN s : k < j => s[k] <= s[j]

And(s, n, row) == s \o [k \in 1..n |-> row]

\* What a line reports comes behind what was reported, by a later row.
LEMMA ReportsGrow ==
    ASSUME NEW s \in Seq(Nat), NEW top \in Nat, NEW n \in Nat, NEW row \in Nat, row > top, Rising(s, top)
    PROVE  /\ Rising(And(s, n, row), row)
           /\ TimesIn(And(s, n, row), row) = n
           /\ \A r \in Nat : r # row => TimesIn(And(s, n, row), r) = TimesIn(s, r)
<1> DEFINE u == [k \in 1..n |-> row]
           t == s \o u
           m == Len(s)
<1>1. u \in Seq(Nat) /\ Len(u) = n /\ \A k \in 1..n : u[k] = row
    OBVIOUS
<1> HIDE DEF u
<1>2. m \in Nat /\ DOMAIN s = 1..m
    BY LenProperties
<1>3. /\ t \in Seq(Nat) /\ Len(t) = m + n
      /\ \A k \in 1..(m + n) : t[k] = IF k <= m THEN s[k] ELSE u[k - m]
    BY <1>1, ConcatProperties
<1>4. DOMAIN t = 1..(m + n)
    BY <1>3, LenProperties
<1> HIDE DEF m, t
<1>5. ASSUME NEW k \in 1..m
      PROVE  t[k] = s[k] /\ k \in 1..(m + n) /\ t[k] \in 1..top /\ t[k] < row
    <2>1. k \in 1..(m + n) /\ k <= m
        BY <1>2
    <2>2. t[k] = s[k]
        BY <1>3, <2>1
    <2>3. s[k] \in 1..top
        BY <1>2 DEF Rising
    <2> QED BY <2>1, <2>2, <2>3
<1>6. ASSUME NEW k \in (m + 1)..(m + n)
      PROVE  t[k] = row /\ k \in 1..(m + n)
    <2>1. k \in 1..(m + n) /\ ~(k <= m) /\ k - m \in 1..n
        BY <1>2
    <2> QED BY <1>1, <1>3, <2>1
<1>7. \A k \in 1..(m + n) : k \in 1..m \/ k \in (m + 1)..(m + n)
    BY <1>2
<1>8. ASSUME NEW r \in Nat, r # row PROVE TimesIn(t, r) = TimesIn(s, r)
    <2>1. \A k \in 1..(m + n) : t[k] = r => k \in 1..m
        BY <1>6, <1>7, <1>8
    <2>2. {k \in 1..(m + n) : t[k] = r} = {k \in 1..m : s[k] = r}
        BY <1>5, <2>1
    <2> QED BY <1>2, <1>4, <2>2 DEF TimesIn
<1>9. TimesIn(t, row) = n
    <2>1. ASSUME NEW k \in 1..m PROVE t[k] # row
        BY <1>5
    <2>2. {k \in 1..(m + n) : t[k] = row} = (m + 1)..(m + n)
        BY <1>6, <1>7, <2>1
    <2> QED BY <1>2, <1>4, <2>2, PlacesBetween DEF TimesIn
<1>10. ASSUME NEW k \in 1..(m + n) PROVE t[k] \in 1..row
    <2>1. CASE k \in 1..m
        BY <1>5, <2>1
    <2>2. CASE k \in (m + 1)..(m + n)
        BY <1>6, <2>2
    <2> QED BY <1>7, <2>1, <2>2
<1>11. ASSUME NEW k \in 1..(m + n), NEW j \in 1..(m + n), k < j PROVE t[k] <= t[j]
    <2>1. CASE j \in 1..m
        <3>1. k \in 1..m
            BY <1>2, <1>11, <2>1
        <3>2. s[k] <= s[j]
            BY <1>2, <1>11, <2>1, <3>1 DEF Rising
        <3> QED BY <1>5, <2>1, <3>1, <3>2
    <2>2. CASE j \in (m + 1)..(m + n)
        <3>1. t[k] \in 1..row
            BY <1>10
        <3>2. t[j] = row
            BY <1>6, <2>2
        <3> QED BY <3>1, <3>2
    <2> QED BY <1>7, <2>1, <2>2
<1>12. Rising(t, row)
    BY <1>4, <1>10, <1>11 DEF Rising
<1>13. And(s, n, row) = t
    BY DEF And, t, u
<1> QED BY <1>8, <1>9, <1>12, <1>13

LEMMA AdvanceReports ==
    ASSUME TypeOK, ListIsText, ReportedOnce, NEW i \in 0..Len(source), Takes(i), Advance(i), UNCHANGED source
    PROVE  ReportedOnce'
<1>0. /\ Len(source) \in Nat /\ read \in 0..Len(source) /\ line \in Nat /\ reports \in Seq(Nat)
      /\ \A j \in 1..Len(source) : source[j] \in Lines
    BY SourceOf, SourceKnown DEF TypeOK
<1>1. CASE ~Reads
    <2>1. UNCHANGED <<line, reports>>
        BY <1>1 DEF Advance
    <2> QED BY <2>1 DEF ReportedOnce, ReportsOf, LineOf
<1>2. CASE Reads
    <2> DEFINE row == Row(i)
               n == Reports(source[i])
               t == And(reports, n, row)
    <2>1. /\ row \in Nat /\ row > line /\ i \in 1..Len(source)
          /\ read < Len(source) => row = i /\ i > read /\ \A j \in (read + 1)..(i - 1) : Blank(source[j])
          /\ read = Len(source) => i = read
        BY <1>2, RowLater
    <2>2. line' = row /\ reports' = t
        BY <1>2 DEF Advance, LexLine, And
    <2>3. n \in Nat
        BY <1>0, <2>1, ReportsType
    <2>4. read = Len(source) => row = line + 1 /\ line >= Len(source)
        BY DEF Row, ListIsText
    <2>5. read < Len(source) => line = read
        BY DEF ListIsText
    <2>6. Reports(LineOf(row)) = n
        BY <1>0, <2>1, <2>4 DEF LineOf
    <2>7. Rising(reports, line) /\ \A r \in 1..line : TimesIn(reports, r) = Reports(LineOf(r))
        BY DEF ReportedOnce, ReportsOf, Rising, TimesIn
    <2> HIDE DEF row, n
    <2>8. /\ Rising(t, row) /\ TimesIn(t, row) = n
          /\ \A r \in Nat : r # row => TimesIn(t, r) = TimesIn(reports, r)
        BY <1>0, <2>1, <2>3, <2>7, ReportsGrow
    <2> HIDE DEF t
    <2>9. ASSUME NEW r \in 1..row PROVE TimesIn(t, r) = Reports(LineOf(r))
        <3>1. CASE r = row
            BY <2>6, <2>8, <3>1
        <3>2. CASE r \in 1..line
            BY <1>0, <2>1, <2>7, <2>8, <3>2
        <3>3. CASE r \in (line + 1)..(row - 1)
            <4>1. read < Len(source)
                BY <1>0, <2>1, <2>4, <3>3
            <4>2. r \in 1..Len(source) /\ r < Len(source) /\ Blank(source[r])
                BY <1>0, <2>1, <2>5, <3>3, <4>1
            <4>3. Reports(LineOf(r)) = 0
                BY <1>0, <4>2, BlankQuiet DEF LineOf
            <4>4. {k \in DOMAIN reports : reports[k] = r} = {}
                BY <1>0, <2>7, <3>3 DEF Rising
            <4>5. TimesIn(reports, r) = 0
                BY <4>4, FS_EmptySet DEF TimesIn
            <4>6. r \in Nat /\ r # row
                BY <1>0, <2>1, <3>3
            <4> QED BY <2>8, <4>3, <4>5, <4>6
        <3> QED BY <1>0, <2>1, <3>1, <3>2, <3>3
    <2> QED BY <2>2, <2>8, <2>9 DEF ReportedOnce, ReportsOf, LineOf, Rising, TimesIn
<1> QED BY <1>1, <1>2

\* Everything wrong with a line is reported once, by its row and in order,
\* whatever the parser calls; beyond the source it is the last line, again in
\* full for each row.
THEOREM ReportsOnce == Spec => []ReportedOnce
<1>1. Init => ReportedOnce
    <2> SUFFICES ASSUME Init PROVE ReportedOnce
        OBVIOUS
    <2>1. line = 0 /\ reports = << >> /\ DOMAIN reports = {}
        BY DEF Init
    <2> QED BY <2>1 DEF ReportedOnce
<1>2. TypeOK /\ ListIsText /\ ReportedOnce /\ [Step]_vars => ReportedOnce'
    <2> SUFFICES ASSUME TypeOK, ListIsText, ReportedOnce, [Step]_vars PROVE ReportedOnce'
        OBVIOUS
    <2>1. UNCHANGED source
        BY StepReads
    <2>2. CASE \E i \in 0..Len(source) : Takes(i) /\ Advance(i)
        BY <2>1, <2>2, AdvanceReports
    <2>3. CASE UNCHANGED stream
        BY <2>1, <2>3 DEF ReportedOnce, ReportsOf, LineOf, stream
    <2> QED BY <2>2, <2>3, StepReads
<1>3. Init /\ [][Step]_vars /\ []TypeOK /\ []ListIsText => []ReportedOnce
    BY <1>1, <1>2, PTL
<1> QED BY <1>3, LexerTypes, ListText, PTL DEF Spec

-----------------------------------------------------------------------------
(* Lines that are indented alike                                             *)

\* Sorted, from any level to any above it
LEMMA SortedRises ==
    ASSUME NEW stack, Sorted(stack), NEW a \in 1..Len(stack)
    PROVE  \A b \in a..Len(stack) : stack[a] <= stack[b] /\ (a # b => stack[a] < stack[b])
<1>0. Len(stack) \in Nat /\ \A k \in 1..Len(stack) : stack[k] \in Nat
    BY LenProperties, ElementOfSeq DEF Sorted
<1>1. \A k \in 2..Len(stack) : stack[k - 1] < stack[k]
    BY DEF Sorted
<1> DEFINE S == {d \in Nat : a + (d + 1) <= Len(stack) => stack[a] < stack[a + (d + 1)]}
<1>2. 0 \in S
    <2> SUFFICES ASSUME a + (0 + 1) <= Len(stack) PROVE stack[a] < stack[a + (0 + 1)]
        OBVIOUS
    <2>1. a + 1 \in 2..Len(stack) /\ (a + 1) - 1 = a /\ a + (0 + 1) = a + 1
        BY <1>0
    <2> QED BY <1>1, <2>1
<1>3. ASSUME NEW d \in Nat, d \in S PROVE d + 1 \in S
    <2> SUFFICES ASSUME a + ((d + 1) + 1) <= Len(stack) PROVE stack[a] < stack[a + ((d + 1) + 1)]
        OBVIOUS
    <2> DEFINE q == a + (d + 1)
    <2>1. q + 1 \in 2..Len(stack) /\ (q + 1) - 1 = q /\ a + ((d + 1) + 1) = q + 1 /\ q \in 1..Len(stack)
        BY <1>0
    <2>2. stack[a] < stack[q]
        BY <1>0, <1>3, <2>1
    <2>3. stack[q] < stack[q + 1]
        BY <1>1, <2>1
    <2>4. stack[a] \in Nat /\ stack[q] \in Nat /\ stack[q + 1] \in Nat
        BY <1>0, <2>1
    <2> HIDE DEF q
    <2> QED BY <2>1, <2>2, <2>3, <2>4
<1>4. \A d \in Nat : d \in S
    <2> HIDE DEF S
    <2> QED BY <1>2, <1>3, UpFromZero
<1>5. ASSUME NEW b \in a..Len(stack), a # b PROVE stack[a] < stack[b]
    <2>1. (b - a) - 1 \in Nat /\ a + (((b - a) - 1) + 1) = b
        BY <1>0, <1>5
    <2>2. (b - a) - 1 \in S
        BY <1>4, <2>1
    <2> QED BY <1>0, <2>1, <2>2
<1> QED BY <1>0, <1>5

\* A line that is as deep as an open level keeps it and those under it; one
\* that is no deeper keeps no more.
LEMMA KeptLevel ==
    ASSUME NEW stack, Sorted(stack), NEW level \in 1..Len(stack), NEW indent \in Nat,
           stack[level] <= indent
    PROVE  /\ Kept(stack, indent) \in level..Len(stack)
           /\ stack[level] = indent => Kept(stack, indent) = level
<1> DEFINE S == {k \in DOMAIN stack : stack[k] <= indent}
<1>0. /\ Len(stack) \in Nat /\ DOMAIN stack = 1..Len(stack)
      /\ \A k \in 1..Len(stack) : stack[k] \in Nat
    BY LenProperties, ElementOfSeq DEF Sorted
<1>1. \A k \in 1..level : stack[k] <= stack[level]
    <2> TAKE k \in 1..level
    <2>1. k \in 1..Len(stack) /\ level \in k..Len(stack)
        BY <1>0
    <2> QED BY <2>1, SortedRises
<1>2. 1..level \subseteq S
    <2> SUFFICES ASSUME NEW k \in 1..level PROVE k \in S
        OBVIOUS
    <2>1. k \in 1..Len(stack) /\ stack[k] <= stack[level]
        BY <1>0, <1>1
    <2> QED BY <1>0, <2>1
<1>3. IsFiniteSet(S)
    <2>1. S \in SUBSET (1..Len(stack)) /\ IsFiniteSet(1..Len(stack))
        BY <1>0, FS_Interval
    <2> QED BY <2>1, FS_Subset
<1>4. Cardinality(1..level) = level
    BY <1>0, FS_Interval
<1>5. level <= Cardinality(S)
    BY <1>2, <1>3, <1>4, FS_Subset
<1>6. Kept(stack, indent) \in 1..Len(stack)
    BY KeptBounds
<1>7. ASSUME stack[level] = indent PROVE S = 1..level
    <2>1. ASSUME NEW k \in S PROVE k \in 1..level
        <3>1. k \in 1..Len(stack) /\ stack[k] <= indent
            BY <1>0
        <3>2. k > level => stack[level] < stack[k]
            <4>1. k > level => k \in level..Len(stack) /\ level # k
                BY <1>0, <3>1
            <4> QED BY <4>1, SortedRises
        <3> QED BY <1>0, <1>7, <3>1, <3>2
    <2> QED BY <1>2, <2>1
<1> HIDE DEF S
<1>8. Kept(stack, indent) = Cardinality(S)
    BY DEF Kept, S
<1> QED BY <1>0, <1>4, <1>5, <1>6, <1>7, <1>8

\* What a line that is as deep as an open level does to the stack.
LEMMA StackLevel ==
    ASSUME NEW stack, Sorted(stack), NEW level \in 1..Len(stack), NEW indent \in Nat,
           stack[level] <= indent
    PROVE  /\ level \in 1..Len(Stack(stack, indent))
           /\ Stack(stack, indent)[level] = stack[level]
           /\ stack[level] = indent => Len(Stack(stack, indent)) = level
<1>0. /\ stack \in Seq(Nat) /\ Len(stack) \in Nat
      /\ \A k \in 1..Len(stack) : stack[k] \in Nat
    BY LenProperties, ElementOfSeq DEF Sorted
<1>1. CASE indent > Top(stack)
    <2> DEFINE s == Append(stack, indent)
    <2>1. Len(s) = Len(stack) + 1 /\ s[level] = stack[level]
        BY <1>0, AppendProperties
    <2>2. Stack(stack, indent) = s
        BY <1>1 DEF Stack
    <2>3. stack[level] # indent
        <3>1. level \in 1..Len(stack) /\ Len(stack) \in level..Len(stack) /\ Len(stack) \in 1..Len(stack)
            BY <1>0
        <3>2. stack[level] <= Top(stack)
            BY <3>1, SortedRises DEF Top
        <3> QED BY <1>0, <1>1, <3>1, <3>2 DEF Top
    <2> HIDE DEF s
    <2> QED BY <1>0, <2>1, <2>2, <2>3
<1>2. CASE ~(indent > Top(stack))
    <2> DEFINE kept == Kept(stack, indent)
               s == SubSeq(stack, 1, kept)
    <2>1. kept \in level..Len(stack) /\ (stack[level] = indent => kept = level)
        BY KeptLevel
    <2>2. Stack(stack, indent) = s
        BY <1>2 DEF Stack
    <2> HIDE DEF kept
    <2>3. Len(s) = kept /\ \A k \in 1..kept : s[k] = stack[k]
        BY <1>0, <2>1, SubSeqProperties
    <2> HIDE DEF s
    <2> QED BY <1>0, <2>1, <2>2, <2>3
<1> QED BY <1>1, <1>2

\* A line that closes no block is of the level it is indented to.
LEMMA TopLevel ==
    ASSUME NEW stack, Sorted(stack), NEW indent \in Nat, NEW row \in Nat,
           \A k \in 1..Len(Layout(stack, indent, row)) : Layout(stack, indent, row)[k].type # "dedent"
    PROVE  Top(Stack(stack, indent)) = indent
<1>0. /\ stack \in Seq(Nat) /\ Len(stack) \in Nat \ {0}
      /\ \A k \in 1..Len(stack) : stack[k] \in Nat
    BY LenProperties, ElementOfSeq, EmptySeq DEF Sorted
<1>1. CASE indent > Top(stack)
    BY <1>0, <1>1, AppendProperties DEF Stack, Top
<1>2. CASE ~(indent > Top(stack))
    <2> DEFINE kept == Kept(stack, indent)
               u == [k \in 1..(Len(stack) - kept) |-> Token("dedent", row, 0)]
    <2>1. Layout(stack, indent, row) = u /\ Stack(stack, indent) = SubSeq(stack, 1, kept)
        BY <1>2 DEF Layout, Stack
    <2>2. kept \in 1..Len(stack)
        BY KeptBounds
    <2> HIDE DEF kept
    <2>3. Len(u) = Len(stack) - kept
        BY <1>0, <2>2
    <2>4. kept = Len(stack)
        <3> SUFFICES ASSUME kept # Len(stack) PROVE FALSE
            OBVIOUS
        <3>1. 1 \in 1..(Len(stack) - kept)
            BY <1>0, <2>2
        <3>2. u[1].type = "dedent"
            BY <3>1 DEF Token
        <3> HIDE DEF u
        <3>3. 1 \in 1..Len(u)
            BY <2>3, <3>1
        <3> QED BY <2>1, <3>2, <3>3
    <2>5. Stack(stack, indent) = stack
        BY <1>0, <2>1, <2>4
    <2>6. Top(stack) <= indent
        <3> DEFINE S == {k \in DOMAIN stack : stack[k] <= indent}
        <3>1. DOMAIN stack = 1..Len(stack) /\ IsFiniteSet(1..Len(stack)) /\ Cardinality(1..Len(stack)) = Len(stack)
            BY <1>0, FS_Interval, LenProperties
        <3>2. Cardinality(S) = Len(stack)
            BY <2>4 DEF Kept, kept
        <3>3. S \in SUBSET (1..Len(stack))
            BY <3>1
        <3>4. S = 1..Len(stack)
            BY <3>1, <3>2, <3>3, FS_Subset
        <3>5. Len(stack) \in S
            BY <1>0, <3>4
        <3> QED BY <3>5 DEF Top
    <2>7. Top(stack) \in Nat
        BY <1>0 DEF Top
    <2> QED BY <1>2, <2>5, <2>6, <2>7
<1> QED BY <1>1, <1>2

\* The tokens of the source in the list are those of the text.
LEMMA ListedText ==
    ASSUME TypeOK, ListIsText, NEW n \in InSource
    PROVE  /\ n \in 1..Len(whole[Len(source)].tokens)
           /\ \A k \in 1..n : token_list[k] = whole[Len(source)].tokens[k]
<1> DEFINE N == Len(source)
           s == whole[N].tokens
<1>0. /\ source \in Sources /\ N \in Nat /\ N \in 0..N /\ read \in 0..N
      /\ token_list \in Seq(Tokens) /\ DOMAIN token_list = 1..Len(token_list) /\ Len(token_list) \in Nat
    BY SourceOf, SourceKnown, LenProperties DEF TypeOK
<1>1. n \in 1..Len(token_list) /\ token_list[n].row <= N
    BY <1>0 DEF InSource
<1>2. Len(s) \in Nat
    BY <1>0, WholeText, LenProperties DEF TextOf
<1>3. CASE read < N
    <2>1. token_list = whole[read].tokens
        BY <1>3 DEF ListIsText
    <2>2. Continues(s, token_list, read)
        BY <1>0, <2>1, WholeContinues
    <2> QED BY <1>0, <1>1, <1>2, <2>2 DEF Continues
<1>4. CASE ~(read < N)
    <2>1. /\ Len(Text) = Len(s) + 1
          /\ \A k \in 1..(Len(Text) - 1) : Text[k] = s[k]
          /\ Text[Len(Text)].row = N + 1
        BY <1>0, TextKnown DEF Token
    <2>2. \A k \in 1..Len(token_list) :
             IF k <= Len(Text) THEN token_list[k] = Text[k] ELSE token_list[k].row > N
        BY <1>0, <1>4 DEF ListIsText
    <2>3. token_list[n].row \in Nat
        <3>1. token_list[n] \in Tokens
            BY <1>0, <1>1, ElementOfSeq
        <3> QED BY <3>1 DEF Tokens
    <2>4. n <= Len(Text) /\ token_list[n] = Text[n]
        BY <1>0, <1>1, <2>2, <2>3
    <2>5. n # Len(Text)
        BY <1>0, <1>1, <2>1, <2>4
    <2>6. n \in 1..Len(s)
        BY <1>1, <1>2, <2>1, <2>4, <2>5
    <2>7. \A k \in 1..n : k \in 1..Len(token_list) /\ k \in 1..(Len(Text) - 1) /\ k <= Len(Text)
        BY <1>0, <1>1, <1>2, <2>1, <2>6
    <2> QED BY <2>1, <2>2, <2>6, <2>7
<1> QED BY <1>3, <1>4

LEMMA Joined ==
    ASSUME NEW s \in Seq(Tokens), NEW t \in Seq(Tokens)
    PROVE  /\ s \o t \in Seq(Tokens)
           /\ Len(s \o t) = Len(s) + Len(t)
           /\ \A k \in 1..Len(s) : (s \o t)[k] = s[k]
           /\ \A k \in 1..Len(t) : (s \o t)[Len(s) + k] = t[k]
<1>1. Len(s) \in Nat /\ Len(t) \in Nat
    BY LenProperties
<1> QED BY <1>1, ConcatProperties

LEMMA JoinedAgain ==
    ASSUME NEW s \in Seq(Tokens), NEW t \in Seq(Tokens), NEW u \in Seq(Tokens)
    PROVE  s \o (t \o u) = (s \o t) \o u
BY ConcatAssociative, SMTT(40)

\* The parentheses before a token are those of a list that is the same up to it.
LEMMA OpenAlike ==
    ASSUME NEW s, NEW t, NEW n \in Nat \ {0}, \A k \in 1..(n - 1) : t[k] = s[k]
    PROVE  OpenIn(t, n) <=> OpenIn(s, n)
<1>1. n - 1 \in Nat /\ n \in 1..((n - 1) + 1)
    OBVIOUS
<1> QED BY <1>1, OpenPrefix

\* The n-th token of s is the first word of line i, which is l and goes on from
\* what is before it to what is after it; s goes on from there.
FirstWord(s, n, i, l, before, stack, ignored, after) ==
    /\ s \in Seq(Tokens) /\ n \in 1..Len(s) /\ s[n].row = i /\ s[n].place = 1
    /\ i \in Nat \ {0} /\ l \in Lines /\ Sorted(stack) /\ ignored \in BOOLEAN
    /\ before \in Seq(Tokens) /\ \A k \in 1..Len(before) : before[k].row \in 1..(i - 1)
    /\ after = before \/ after = before \o Lexed(l, i, stack, ignored)
    /\ Continues(s, after, i)

\* The first word of a line comes after what is laid out for it: of a text that
\* goes on from that line.
LEMMA WordPlace ==
    ASSUME NEW s, NEW n, NEW i, NEW l, NEW before, NEW stack, NEW ignored, NEW after,
           FirstWord(s, n, i, l, before, stack, ignored, after)
    PROVE  LET t == before \o Laid(l, i, stack, ignored)
           IN  /\ after # before
               /\ ~Silent(l)
               /\ n = Len(t) + 1
               /\ \A k \in 1..Len(t) : s[k] = t[k]
               /\ s[n].type \in Words
<1> DEFINE u == Laid(l, i, stack, ignored)
           words == Worded(l, i)
           t == before \o u
<1>1. /\ s \in Seq(Tokens) /\ n \in 1..Len(s) /\ s[n].row = i /\ s[n].place = 1
      /\ i \in Nat \ {0} /\ l \in Lines /\ Sorted(stack) /\ ignored \in BOOLEAN
      /\ before \in Seq(Tokens) /\ \A k \in 1..Len(before) : before[k].row \in 1..(i - 1)
    BY DEF FirstWord
<1>2. Len(before) \in Nat /\ Len(s) \in Nat
    BY <1>1, LenProperties
<1>3. /\ Len(after) <= Len(s)
      /\ \A k \in 1..Len(s) : IF k <= Len(after) THEN s[k] = after[k] ELSE s[k].row > i
    BY DEF FirstWord, Continues
<1>4. n <= Len(after) /\ s[n] = after[n]
    BY <1>1, <1>3
<1>5. after # before
    <2> SUFFICES ASSUME after = before PROVE FALSE
        OBVIOUS
    <2>1. n \in 1..Len(before) /\ s[n] = before[n]
        BY <1>1, <1>2, <1>4
    <2> QED BY <1>1, <2>1
<1>6. after = before \o Lexed(l, i, stack, ignored)
    BY <1>5 DEF FirstWord
<1>7. ~NoCharacters(l)
    <2> SUFFICES ASSUME NoCharacters(l) PROVE FALSE
        OBVIOUS
    <2>1. after = before \o << >>
        BY <1>6 DEF Lexed
    <2> QED BY <1>1, <1>5, <2>1, ConcatEmptySeq
<1>9. Lexed(l, i, stack, ignored) = u \o words
    BY <1>7 DEF Lexed, Laid
<1>10. u \in Seq(Tokens) /\ words \in Seq(Tokens) /\ Len(words) = Len(l.words)
    BY <1>1, LaidKinds, WordedType
<1>11. \A k \in 1..Len(u) : u[k].place = 0
    BY <1>1, LaidRow
<1>12. \A k \in 1..Len(words) : words[k].place = k /\ words[k].type \in Words
    BY <1>1, WordedRow
<1> HIDE DEF u, words
<1>13. after = t \o words
    <2>1. after = before \o (u \o words)
        BY <1>6, <1>9
    <2>2. before \o (u \o words) = (before \o u) \o words
        BY <1>1, <1>10, JoinedAgain
    <2> QED BY <2>1, <2>2
<1>14. /\ t \in Seq(Tokens) /\ Len(t) = Len(before) + Len(u)
       /\ \A k \in 1..Len(before) : t[k] = before[k]
       /\ \A k \in 1..Len(u) : t[Len(before) + k] = u[k]
    BY <1>1, <1>10, Joined
<1> HIDE DEF t
<1>15. Len(u) \in Nat /\ Len(t) \in Nat /\ Len(words) \in Nat
    BY <1>10, <1>14, LenProperties
<1>16. /\ Len(after) = Len(t) + Len(words)
       /\ \A k \in 1..Len(t) : after[k] = t[k]
       /\ \A k \in 1..Len(words) : after[Len(t) + k] = words[k]
    <2> DEFINE b == t \o words
    <2>1. /\ Len(b) = Len(t) + Len(words)
          /\ \A k \in 1..Len(t) : b[k] = t[k]
          /\ \A k \in 1..Len(words) : b[Len(t) + k] = words[k]
        BY <1>10, <1>14, Joined
    <2> HIDE DEF b
    <2>2. after = b
        BY <1>13 DEF b
    <2> QED BY <2>1, <2>2
<1>17. n > Len(t)
    <2> SUFFICES ASSUME n \in 1..Len(t) PROVE FALSE
        BY <1>1, <1>15
    <2>1. s[n] = t[n]
        BY <1>4, <1>16
    <2>2. CASE n <= Len(before)
        <3>1. n \in 1..Len(before)
            BY <1>1, <1>2, <2>2
        <3> QED BY <1>1, <1>14, <2>1, <3>1
    <2>3. CASE n > Len(before)
        <3>1. n - Len(before) \in 1..Len(u) /\ Len(before) + (n - Len(before)) = n
            BY <1>1, <1>2, <1>14, <1>15, <2>3
        <3>2. t[n] = u[n - Len(before)]
            BY <1>14, <3>1
        <3> QED BY <1>1, <1>11, <2>1, <3>1, <3>2
    <2> QED BY <1>1, <1>2, <2>2, <2>3
<1>18. n - Len(t) \in 1..Len(words) /\ Len(t) + (n - Len(t)) = n
    BY <1>1, <1>4, <1>15, <1>16, <1>17
<1>19. s[n] = words[n - Len(t)]
    BY <1>4, <1>16, <1>18
<1>20. n - Len(t) = 1 /\ s[n].type \in Words
    BY <1>1, <1>12, <1>18, <1>19
<1>21. n = Len(t) + 1
    BY <1>1, <1>15, <1>20
<1>22. \A k \in 1..Len(t) : s[k] = t[k]
    <2> TAKE k \in 1..Len(t)
    <2>1. k \in 1..Len(s) /\ k <= Len(after)
        BY <1>1, <1>2, <1>4, <1>15, <1>16, <1>21
    <2> QED BY <1>3, <1>16, <2>1
<1>23. ~Silent(l)
    <2>1. Len(l.words) # 0
        BY <1>10, <1>15, <1>18
    <2> QED BY <2>1 DEF Silent
<1> QED BY <1>5, <1>20, <1>21, <1>22, <1>23 DEF t, u

LEMMA WordOnce ==
    ASSUME NEW s, NEW n, NEW m, NEW i, NEW l, NEW before, NEW stack, NEW ignored, NEW after,
           FirstWord(s, n, i, l, before, stack, ignored, after),
           FirstWord(s, m, i, l, before, stack, ignored, after)
    PROVE  n = m
<1> DEFINE t == before \o Laid(l, i, stack, ignored)
<1>1. n = Len(t) + 1
    BY WordPlace
<1>2. m = Len(t) + 1
    BY WordPlace
<1> QED BY <1>1, <1>2

\* The blocks that are open at token n of line i are those of a stack, whose
\* level is the line's if the line closes none.
AtLevel(s, n, i, stack, indent) ==
    /\ DepthIn(s, n) = Len(stack) - 1
    /\ (\A k \in 1..n : ~(s[k].row = i /\ s[k].type = "dedent")) => Top(stack) = indent

\* Outside parentheses, the blocks that are open at the first word of a line
\* are those on the stack after it; and its level is that of the line if the
\* line closes none.
LEMMA WordLevel ==
    ASSUME NEW s, NEW n, NEW i, NEW l, NEW before, NEW stack, NEW ignored, NEW after,
           FirstWord(s, n, i, l, before, stack, ignored, after),
           Balanced(before, stack), Quiet(before, ignored), ~OpenIn(s, n)
    PROVE  /\ after # before
           /\ ~Silent(l)
           /\ ~ignored
           /\ AtLevel(s, n, i, Stack(stack, l.indent), l.indent)
<1> DEFINE u == Laid(l, i, stack, ignored)
           t == before \o u
<1>1. /\ s \in Seq(Tokens) /\ n \in 1..Len(s) /\ s[n].row = i /\ s[n].place = 1
      /\ i \in Nat \ {0} /\ l \in Lines /\ Sorted(stack) /\ ignored \in BOOLEAN
      /\ before \in Seq(Tokens) /\ \A k \in 1..Len(before) : before[k].row \in 1..(i - 1)
    BY DEF FirstWord
<1>5. l.indent \in Nat /\ i \in Nat
    BY <1>1 DEF Lines
<1>8. /\ after # before
      /\ ~Silent(l)
      /\ n = Len(t) + 1
      /\ \A k \in 1..Len(t) : s[k] = t[k]
      /\ s[n].type \in Words
    BY WordPlace
<1>9. u \in Seq(Tokens) /\ \A k \in 1..Len(u) : ~ignored /\ u[k].type \in {"indent", "dedent"} /\ u[k].row = i
    <2>1. u \in Seq(Tokens) /\ \A k \in 1..Len(u) : ~ignored /\ u[k].type \in {"indent", "dedent"}
        BY <1>1, <1>5, LaidKinds
    <2>2. \A k \in 1..Len(u) : u[k].row = i
        BY <1>1, <1>5, LaidRow
    <2> QED BY <2>1, <2>2
<1> HIDE DEF u
<1>10. /\ t \in Seq(Tokens) /\ Len(t) \in Nat /\ Len(before) \in Nat /\ Len(u) \in Nat
       /\ \A k \in 1..Len(u) : Len(before) + k \in 1..Len(t) /\ t[Len(before) + k] = u[k]
    <2>1. /\ t \in Seq(Tokens) /\ Len(t) = Len(before) + Len(u)
          /\ \A k \in 1..Len(u) : t[Len(before) + k] = u[k]
        BY <1>1, <1>9, Joined
    <2> HIDE DEF t
    <2>2. Len(t) \in Nat /\ Len(before) \in Nat /\ Len(u) \in Nat
        BY <1>1, <1>9, <2>1, LenProperties
    <2> QED BY <2>1, <2>2
<1>11. Quiet(t, ignored)
    BY <1>1, <1>9, UnbracketedQuiet DEF Plain
<1>12. ~ignored
    <2> HIDE DEF t
    <2>1. \A k \in 1..((Len(t) + 1) - 1) : t[k] = s[k]
        BY <1>8, <1>10
    <2>2. OpenIn(t, Len(t) + 1) <=> OpenIn(s, Len(t) + 1)
        BY <1>10, <2>1, OpenAlike
    <2> QED BY <1>1, <1>8, <1>11, <2>2 DEF Quiet
<1>14. u = Layout(stack, l.indent, i)
    BY <1>12 DEF Laid, u
<1>15. Balanced(t, Stack(stack, l.indent))
    BY <1>1, <1>5, <1>14, LayoutBalance
<1> HIDE DEF t
<1>16. DepthIn(t, Len(t)) = Len(Stack(stack, l.indent)) - 1
    BY <1>15 DEF Balanced
<1>17. DepthIn(s, n) = DepthIn(t, Len(t))
    <2>1. ASSUME NEW type \in {"indent", "dedent"} PROVE CountIn(s, n, type) = CountIn(t, Len(t), type)
        <3>1. \A k \in (Len(t) + 1)..n : s[k].type # type
            BY <1>8, <1>10 DEF Words
        <3>2. CountIn(s, n, type) = CountIn(s, Len(t), type)
            BY <1>1, <1>8, <1>10, <3>1, CountNone
        <3>3. {k \in 1..Len(t) : s[k].type = type} = {k \in 1..Len(t) : t[k].type = type}
            BY <1>8
        <3> QED BY <3>2, <3>3 DEF CountIn
    <2> QED BY <2>1 DEF DepthIn
<1>18. ASSUME \A k \in 1..n : ~(s[k].row = i /\ s[k].type = "dedent")
       PROVE  Top(Stack(stack, l.indent)) = l.indent
    <2>1. ASSUME NEW k \in 1..Len(u) PROVE u[k].type # "dedent"
        <3>1. Len(before) + k \in 1..n /\ s[Len(before) + k] = u[k]
            BY <1>1, <1>8, <1>10
        <3> QED BY <1>1, <1>9, <1>18, <3>1
    <2>2. \A k \in 1..Len(Layout(stack, l.indent, i)) : Layout(stack, l.indent, i)[k].type # "dedent"
        BY <1>14, <2>1
    <2> QED BY <1>1, <1>5, <2>2, TopLevel
<1> QED BY <1>8, <1>12, <1>16, <1>17, <1>18 DEF AtLevel

\* A first word of the text is one of its line.
LEMMA TextWord ==
    ASSUME source \in Sources, NEW s, s = whole[Len(source)].tokens, NEW i,
           NEW n \in 1..Len(s), s[n].row = i, s[n].place = 1
    PROVE  /\ i \in 1..Len(source)
           /\ FirstWord(s, n, i, source[i], whole[i - 1].tokens, whole[i - 1].stack,
                        whole[i - 1].ignored, whole[i].tokens)
<1>0. Len(source) \in Nat /\ Len(source) \in 0..Len(source)
    BY SourceKnown
<1>1. s \in Seq(Tokens) /\ i \in 1..Len(source)
    BY <1>0, WholeText DEF TextOf
<1>2. /\ i - 1 \in 0..Len(source) /\ i \in 0..Len(source) /\ Len(source) \in i..Len(source)
      /\ i \in Nat \ {0} /\ source[i] \in Lines
    BY <1>0, <1>1, SourceKnown
<1> DEFINE w == whole[i - 1]
           l == source[i]
           v == whole[i]
<1>3. v = w \/ v = With(w, l, i)
    BY <1>0, <1>1, WholeUnfolds DEF After
<1>4. TextOf(w, i - 1) /\ Continues(s, v.tokens, i)
    BY <1>2, WholeText, WholeContinues
<1>5. l \in Lines
    BY <1>2
<1> HIDE DEF w, l, v
<1>6. /\ w.tokens \in Seq(Tokens) /\ Sorted(w.stack) /\ w.ignored \in BOOLEAN
      /\ \A k \in 1..Len(w.tokens) : w.tokens[k].row \in 1..(i - 1)
    BY <1>4 DEF TextOf
<1>7. v.tokens = w.tokens \/ v.tokens = w.tokens \o Lexed(l, i, w.stack, w.ignored)
    BY <1>3, WithFields
<1>8. FirstWord(s, n, i, l, w.tokens, w.stack, w.ignored, v.tokens)
    BY <1>1, <1>2, <1>4, <1>5, <1>6, <1>7 DEF FirstWord
<1> QED BY <1>1, <1>8 DEF w, l, v

LEMMA WordDepth ==
    ASSUME source \in Sources, NEW s, s = whole[Len(source)].tokens, NEW i,
           NEW n \in 1..Len(s), s[n].row = i, s[n].place = 1, ~OpenIn(s, n)
    PROVE  /\ i \in 1..Len(source)
           /\ whole[i].stack = Stack(whole[i - 1].stack, source[i].indent)
           /\ AtLevel(s, n, i, whole[i].stack, source[i].indent)
<1> DEFINE w == whole[i - 1]
           l == source[i]
           v == whole[i]
<1>1. i \in 1..Len(source) /\ FirstWord(s, n, i, l, w.tokens, w.stack, w.ignored, v.tokens)
    BY TextWord
<1>2. TextOf(w, i - 1) /\ v = After(w, i)
    <2>1. Len(source) \in Nat /\ i - 1 \in 0..Len(source)
        BY <1>1, SourceKnown
    <2> QED BY <1>1, <2>1, WholeText, WholeUnfolds
<1>3. v = w \/ v = With(w, l, i)
    BY <1>2 DEF After
<1> HIDE DEF w, l, v
<1>4. Balanced(w.tokens, w.stack) /\ Quiet(w.tokens, w.ignored)
    BY <1>2 DEF TextOf
<1>5. /\ v.tokens # w.tokens
      /\ ~Silent(l)
      /\ ~w.ignored
      /\ AtLevel(s, n, i, Stack(w.stack, l.indent), l.indent)
    BY <1>1, <1>4, WordLevel
<1>6. v.stack = Stack(w.stack, l.indent)
    <2>1. v = With(w, l, i)
        BY <1>3, <1>5
    <2>2. ~NoCharacters(l)
        BY <1>5 DEF NoCharacters, Blank
    <2>3. v.stack = Level(l, w.stack, w.ignored)
        BY <2>1, WithFields
    <2> QED BY <1>5, <2>2, <2>3 DEF Level
<1> QED BY <1>1, <1>5, <1>6 DEF v, w, l

\* While no line is less deep than a level, blank ones apart, it stays open.
LEMMA LevelStays ==
    ASSUME source \in Sources, NEW i \in 1..Len(source), NEW j \in i..(Len(source) - 1),
           NEW level \in 1..Len(whole[i].stack),
           \A k \in (i + 1)..j : Blank(source[k]) \/ source[k].indent >= whole[i].stack[level]
    PROVE  level \in 1..Len(whole[j].stack) /\ whole[j].stack[level] = whole[i].stack[level]
<1>0. Len(source) \in Nat /\ \A k \in 1..Len(source) : source[k] \in Lines
    BY SourceKnown
<1>1. \A k \in 1..Len(source) : whole[k] = After(whole[k - 1], k)
    BY <1>0, WholeUnfolds
<1>2. \A k \in 0..Len(source) : TextOf(whole[k], k)
    BY WholeText
<1> DEFINE x == whole[i].stack[level]
           Open(k) == level \in 1..Len(whole[k].stack) /\ whole[k].stack[level] = x
           S == {d \in Nat : i + d <= j => Open(i + d)}
<1>3. 0 \in S
    BY <1>0
<1>4. ASSUME NEW d \in Nat, d \in S PROVE d + 1 \in S
    <2> SUFFICES ASSUME i + (d + 1) <= j PROVE Open(i + (d + 1))
        OBVIOUS
    <2> DEFINE k == i + (d + 1)
               w == whole[i + d]
    <2>1. k \in 1..Len(source) /\ k - 1 = i + d /\ k \in (i + 1)..j /\ i + d \in 0..Len(source) /\ i + d <= j
        BY <1>0
    <2>2. whole[k] = After(w, k) /\ source[k] \in Lines
        BY <1>0, <1>1, <2>1
    <2>3. Sorted(w.stack) /\ level \in 1..Len(w.stack) /\ w.stack[level] = x
        BY <1>2, <1>4, <2>1 DEF TextOf
    <2>4. Blank(source[k]) \/ source[k].indent >= x
        BY <2>1
    <2> HIDE DEF k, w, x
    <2>5. CASE whole[k] = w
        BY <2>3, <2>5 DEF k
    <2>6. CASE whole[k] # w
        <3>1. whole[k] = With(w, source[k], k)
            BY <2>2, <2>6 DEF After
        <3>2. whole[k].stack = Level(source[k], w.stack, w.ignored)
            <4>1. With(w, source[k], k).stack = Level(source[k], w.stack, w.ignored)
                BY WithFields
            <4> QED BY <3>1, <4>1
        <3>3. source[k].indent \in Nat
            BY <2>2 DEF Lines
        <3>4. ~(Blank(source[k]) /\ k < Len(source))
            BY <2>2, <2>6 DEF After
        <3>5. x <= source[k].indent
            BY <1>0, <2>1, <2>4, <3>3, <3>4
        <3>6. whole[k].stack = w.stack \/ whole[k].stack = Stack(w.stack, source[k].indent)
            BY <3>2 DEF Level
        <3>7. /\ level \in 1..Len(Stack(w.stack, source[k].indent))
              /\ Stack(w.stack, source[k].indent)[level] = x
            BY <2>3, <3>3, <3>5, StackLevel
        <3> QED BY <2>3, <3>6, <3>7 DEF k
    <2> QED BY <2>5, <2>6
<1>5. \A d \in Nat : d \in S
    <2> HIDE DEF S
    <2> QED BY <1>3, <1>4, UpFromZero
<1>6. j - i \in Nat /\ i + (j - i) = j
    BY <1>0
<1>7. j - i \in S
    BY <1>5, <1>6
<1> QED BY <1>6, <1>7

\* The first words of lines i and j, of the same level with none less between,
\* of which the first closes no block.
Alike(s, n, m, i, j) ==
    /\ n \in 1..Len(s) /\ s[n].row = i /\ s[n].place = 1 /\ ~OpenIn(s, n)
    /\ m \in 1..Len(s) /\ s[m].row = j /\ s[m].place = 1 /\ ~OpenIn(s, m)
    /\ i < j /\ source[i].indent = source[j].indent
    /\ \A k \in i..j : Blank(source[k]) \/ source[k].indent >= source[i].indent
    /\ \A k \in 1..n : ~(s[k].row = i /\ s[k].type = "dedent")

LEMMA WordsAlike ==
    ASSUME source \in Sources, NEW s, s = whole[Len(source)].tokens,
           NEW n, NEW m, NEW i, NEW j, Alike(s, n, m, i, j)
    PROVE  DepthIn(s, n) = DepthIn(s, m)
<1> DEFINE x == source[i].indent
           before == whole[i].stack
           last == whole[j - 1].stack
<1>0. Len(source) \in Nat
    BY SourceKnown
<1>1. i \in 1..Len(source) /\ AtLevel(s, n, i, before, x)
    BY WordDepth DEF Alike
<1>2. /\ j \in 1..Len(source)
      /\ whole[j].stack = Stack(last, x)
      /\ AtLevel(s, m, j, whole[j].stack, x)
    <2>1. /\ j \in 1..Len(source)
          /\ whole[j].stack = Stack(last, source[j].indent)
          /\ AtLevel(s, m, j, whole[j].stack, source[j].indent)
        BY WordDepth DEF Alike
    <2>2. source[j].indent = x
        BY DEF Alike
    <2> QED BY <2>1, <2>2
<1>3. j - 1 \in i..(Len(source) - 1) /\ j - 1 \in 0..Len(source) /\ i \in 0..Len(source)
    BY <1>0, <1>1, <1>2 DEF Alike
<1>4. Sorted(before) /\ Sorted(last)
    BY <1>3, WholeText DEF TextOf
<1>5. x \in Nat
    BY <1>1, SourceKnown DEF Lines
<1>6. \A k \in (i + 1)..(j - 1) : Blank(source[k]) \/ source[k].indent >= x
    BY <1>0, <1>1, <1>2 DEF Alike
<1>7. DepthIn(s, n) = Len(before) - 1 /\ before[Len(before)] = x
    BY <1>1 DEF Alike, AtLevel, Top
<1>8. Len(before) \in 1..Len(before)
    BY <1>4, LenProperties, EmptySeq DEF Sorted
<1>9. Len(before) \in 1..Len(last) /\ last[Len(before)] = x
    <2> HIDE DEF x
    <2> QED BY <1>1, <1>3, <1>6, <1>7, <1>8, LevelStays
<1> HIDE DEF x, before, last
<1>10. Len(Stack(last, x)) = Len(before)
    BY <1>4, <1>5, <1>9, StackLevel
<1> QED BY <1>2, <1>7, <1>10 DEF AtLevel

\* A token of a later line is further on.
LEMMA RowsRise ==
    ASSUME source \in Sources, NEW s, s = whole[Len(source)].tokens,
           NEW n \in 1..Len(s), NEW m \in 1..Len(s), n < m
    PROVE  s[n].row <= s[m].row
<1>0. Len(source) \in Nat /\ Len(source) \in 0..Len(source)
    BY SourceKnown
<1>1. s \in Seq(Tokens) /\ \A k \in 1..Len(s) : s[k].row \in 1..Len(source)
    BY <1>0, WholeText DEF TextOf
<1> DEFINE j == s[m].row
           v == whole[j].tokens
<1>2. j \in 0..Len(source) /\ Len(source) \in j..Len(source) /\ j \in Nat
    BY <1>0, <1>1
<1>3. Continues(s, v, j)
    BY <1>2, WholeContinues
<1>4. v \in Seq(Tokens) /\ \A k \in 1..Len(v) : v[k].row \in 1..j
    BY <1>2, WholeText DEF TextOf
<1>5. Len(v) \in Nat
    BY <1>4, LenProperties
<1> HIDE DEF v
<1>6. m <= Len(v)
    BY <1>2, <1>3, <1>5 DEF Continues
<1>7. n \in 1..Len(v) /\ s[n] = v[n]
    BY <1>3, <1>5, <1>6 DEF Continues
<1>8. s[n].row \in 1..j
    BY <1>4, <1>7
<1> QED BY <1>2, <1>8

\* A line has one first word.
LEMMA FirstWordOnce ==
    ASSUME source \in Sources, NEW s, s = whole[Len(source)].tokens,
           NEW n \in 1..Len(s), NEW m \in 1..Len(s), s[n].row = s[m].row, s[n].place = 1, s[m].place = 1
    PROVE  n = m
<1> DEFINE i == s[n].row
           w == whole[i - 1]
<1>1. /\ FirstWord(s, n, i, source[i], w.tokens, w.stack, w.ignored, whole[i].tokens)
      /\ FirstWord(s, m, i, source[i], w.tokens, w.stack, w.ignored, whole[i].tokens)
    BY TextWord
<1> HIDE DEF i, w
<1> QED BY <1>1, WordOnce

\* Lines that are indented alike are in the same block, for every source, with
\* whatever is between them that is not less deep.
THEOREM SameLevel == Spec => []SameLevelSameBlock
<1>1. TypeOK /\ ListIsText => SameLevelSameBlock
    <2> SUFFICES ASSUME TypeOK, ListIsText, NEW n \in InSource, NEW m \in InSource,
                        n < m, Starts(n), Starts(m), ~InParentheses(n), ~InParentheses(m),
                        source[token_list[n].row].indent = source[token_list[m].row].indent,
                        \A k \in token_list[n].row..token_list[m].row :
                           Blank(source[k]) \/ source[k].indent >= source[token_list[n].row].indent,
                        ~Begins(n, "dedent")
                 PROVE  Depth(n) = Depth(m)
        BY DEF SameLevelSameBlock
    <2> DEFINE s == whole[Len(source)].tokens
    <2>1. source \in Sources
        BY SourceOf
    <2>2. /\ n \in 1..Len(s) /\ \A k \in 1..n : token_list[k] = s[k]
          /\ m \in 1..Len(s) /\ \A k \in 1..m : token_list[k] = s[k]
        BY ListedText
    <2> HIDE DEF s
    <2>3. token_list[n] = s[n] /\ token_list[m] = s[m]
        BY <2>2
    <2>4. s[n].place = 1 /\ s[m].place = 1
        BY <2>3 DEF Starts
    <2>5. ~OpenIn(s, n) /\ ~OpenIn(s, m)
        <3>1. ASSUME NEW p \in {n, m} PROVE OpenIn(token_list, p) <=> OpenIn(s, p)
            <4>1. p \in Nat \ {0} /\ \A k \in 1..(p - 1) : token_list[k] = s[k]
                BY <2>2
            <4> QED BY <4>1, OpenAlike
        <3> QED BY <3>1 DEF InParentheses, OpenIn
    <2>6. s[n].row < s[m].row
        <3>1. s[n].row <= s[m].row
            BY <2>1, <2>2, RowsRise DEF s
        <3>2. s[n].row # s[m].row
            BY <2>1, <2>2, <2>4, FirstWordOnce DEF s
        <3>3. s[n].row \in Int /\ s[m].row \in Int
            <4>1. Len(source) \in 0..Len(source)
                BY <2>1, SourceKnown
            <4>2. \A k \in 1..Len(s) : s[k].row \in Nat
                BY <2>1, <4>1, WholeText DEF TextOf, s
            <4> QED BY <2>2, <4>2
        <3> QED BY <3>1, <3>2, <3>3
    <2>7. \A k \in 1..n : ~(s[k].row = s[n].row /\ s[k].type = "dedent")
        BY <2>2, <2>3 DEF Begins
    <2>8. DepthIn(s, n) = DepthIn(s, m)
        <3> DEFINE i == s[n].row
                   j == s[m].row
        <3>1. /\ source[i].indent = source[j].indent
              /\ \A k \in i..j : Blank(source[k]) \/ source[k].indent >= source[i].indent
            BY <2>3
        <3>2. s[n].row = i /\ s[m].row = j /\ i < j
            BY <2>6
        <3>3. \A k \in 1..n : ~(s[k].row = i /\ s[k].type = "dedent")
            BY <2>7
        <3>4. s = whole[Len(source)].tokens
            BY DEF s
        <3> HIDE DEF i, j
        <3>5. Alike(s, n, m, i, j)
            BY <2>2, <2>4, <2>5, <3>1, <3>2, <3>3 DEF Alike
        <3> QED BY <2>1, <3>4, <3>5, WordsAlike
    <2>9. ASSUME NEW p \in {n, m} PROVE Depth(p) = DepthIn(s, p)
        <3>1. \A type : {k \in 1..p : token_list[k].type = type} = {k \in 1..p : s[k].type = type}
            BY <2>2
        <3> QED BY <3>1 DEF Depth, Layouts, DepthIn, CountIn
    <2> QED BY <2>8, <2>9
<1> QED BY <1>1, LexerTypes, ListText, PTL

=============================================================================
