---------------------------- MODULE Lexer_proofs ----------------------------
(* Theorems about the lexer, for any sources and any calls of the parser.    *)
EXTENDS Lexer, FiniteSetTheorems, SequenceTheorems, TLAPS

\* Before there is a token, nothing was read and the parser has been nowhere;
\* and it has never been further than just past the list. (A source that
\* begins with a line without tokens breaks this: see FirstSilent.)
Near ==
    ~FirstSilent =>
        /\ furthest <= Len(token_list)
        /\ token_list = << >> => furthest = -1 /\ read = 0

IInv == TypeOK /\ Near /\ NothingAfterEof

\* A stack of levels
Sorted(stack) ==
    /\ stack \in Seq(Nat) \ {<< >>}
    /\ stack[1] = 0
    /\ \A k \in 2..Len(stack) : stack[k - 1] < stack[k]

-----------------------------------------------------------------------------
(* What the operators return                                                 *)

\* A level is kept if it is 0, and no more levels are kept than there are.
LEMMA KeptBounds ==
    ASSUME NEW stack, Sorted(stack), NEW indent \in Nat
    PROVE  Kept(stack, indent) \in 1..Len(stack)
<1> DEFINE S == {k \in DOMAIN stack : stack[k] <= indent}
<1>1. Len(stack) \in Nat \ {0} /\ DOMAIN stack = 1..Len(stack)
    BY LenProperties, EmptySeq DEF Sorted
<1>2. IsFiniteSet(1..Len(stack)) /\ Cardinality(1..Len(stack)) = Len(stack)
    BY <1>1, FS_Interval
<1>3. S \in SUBSET (1..Len(stack))
    BY <1>1
<1>4. IsFiniteSet(S) /\ Cardinality(S) <= Len(stack)
    BY <1>2, <1>3, FS_Subset
<1>5. 1 \in S
    BY <1>1 DEF Sorted
<1>6. Cardinality(S) \in Nat /\ Cardinality(S) # 0
    BY <1>4, <1>5, FS_CardinalityType, FS_EmptySet
<1> HIDE DEF S
<1>7. Cardinality(S) \in 1..Len(stack)
    BY <1>1, <1>4, <1>6
<1> QED BY <1>7 DEF Kept, S

\* The stack stays sorted, with 0 at the bottom.
LEMMA StackSorted ==
    ASSUME NEW stack, Sorted(stack), NEW indent \in Nat
    PROVE  Sorted(Stack(stack, indent))
<1>0. Len(stack) \in Nat \ {0} /\ stack \in Seq(Nat)
    BY LenProperties, EmptySeq DEF Sorted
<1>1. CASE indent > Top(stack)
    <2> DEFINE s == Append(stack, indent)
    <2>1. /\ s \in Seq(Nat) /\ Len(s) = Len(stack) + 1
          /\ \A k \in 1..Len(stack) : s[k] = stack[k]
          /\ s[Len(stack) + 1] = indent
        BY <1>0, AppendProperties
    <2>2. s # << >> /\ s[1] = 0
        BY <1>0, <2>1, EmptySeq DEF Sorted
    <2>3. ASSUME NEW k \in 2..Len(s) PROVE s[k - 1] < s[k]
        <3>1. CASE k = Len(stack) + 1
            BY <1>0, <1>1, <2>1, <3>1 DEF Top
        <3>2. CASE k # Len(stack) + 1
            BY <1>0, <2>1, <3>2 DEF Sorted
        <3> QED BY <3>1, <3>2
    <2> QED BY <1>1, <2>1, <2>2, <2>3 DEF Stack, Sorted
<1>2. CASE ~(indent > Top(stack))
    <2> DEFINE n == Kept(stack, indent)
               s == SubSeq(stack, 1, n)
    <2>1. n \in 1..Len(stack)
        BY KeptBounds
    <2> HIDE DEF n
    <2>2. s \in Seq(Nat) /\ Len(s) = n /\ \A k \in 1..n : s[k] = stack[k]
        BY <1>0, <2>1, SubSeqProperties
    <2> HIDE DEF s
    <2>3. s # << >> /\ s[1] = 0
        BY <2>1, <2>2, LenProperties DEF Sorted
    <2>4. ASSUME NEW k \in 2..Len(s) PROVE s[k - 1] < s[k]
        <3>1. k \in 1..n /\ k - 1 \in 1..n /\ k \in 2..Len(stack)
            BY <1>0, <2>1, <2>2
        <3>2. s[k] = stack[k] /\ s[k - 1] = stack[k - 1]
            BY <2>2, <3>1
        <3> QED BY <3>1, <3>2 DEF Sorted
    <2> QED BY <1>2, <2>2, <2>3, <2>4 DEF Stack, Sorted, n, s
<1> QED BY <1>1, <1>2

LEMMA LayoutType ==
    ASSUME NEW stack, Sorted(stack), NEW indent \in Nat, NEW row \in Nat
    PROVE  Layout(stack, indent, row) \in Seq(Tokens)
<1>1. Token("indent", row, 0) \in Tokens /\ Token("dedent", row, 0) \in Tokens
    BY DEF Token, Tokens
<1>2. Len(stack) - Kept(stack, indent) \in Nat
    BY KeptBounds, LenProperties DEF Sorted
<1>3. [k \in 1..(Len(stack) - Kept(stack, indent)) |-> Token("dedent", row, 0)] \in Seq(Tokens)
    BY <1>1, <1>2, IsASeq
<1>4. <<Token("indent", row, 0)>> \in Seq(Tokens)
    BY <1>1
<1> QED BY <1>3, <1>4 DEF Layout

\* One token for each word.
LEMMA WordedType ==
    ASSUME NEW l \in Lines, NEW row \in Nat
    PROVE  Worded(l, row) \in Seq(Tokens) /\ Len(Worded(l, row)) = Len(l.words)
<1>1. l.words \in Seq(Words) /\ Len(l.words) \in Nat /\ DOMAIN l.words = 1..Len(l.words)
    BY LenProperties DEF Lines
<1>2. \A k \in 1..Len(l.words) : Token(l.words[k], row, k) \in Tokens
    BY <1>1, ElementOfSeq DEF Token, Tokens
<1> QED BY <1>1, <1>2, IsASeq, LenProperties DEF Worded

\* A line's tokens are tokens, and it has one for each of its words.
LEMMA LexedType ==
    ASSUME NEW l \in Lines, NEW stack, Sorted(stack), NEW row \in Nat, NEW ignored
    PROVE  /\ Lexed(l, row, stack, ignored) \in Seq(Tokens)
           /\ ~Silent(l) => Lexed(l, row, stack, ignored) # << >>
<1>1. l.words \in Seq(Words) /\ l.indent \in Nat /\ Len(l.words) \in Nat /\ DOMAIN l.words = 1..Len(l.words)
    BY LenProperties DEF Lines
<1>3. Worded(l, row) \in Seq(Tokens) /\ Len(Worded(l, row)) = Len(l.words)
    BY WordedType
<1> DEFINE layout == IF ignored THEN << >> ELSE Layout(stack, l.indent, row)
<1>4. layout \in Seq(Tokens)
    <2>1. Layout(stack, l.indent, row) \in Seq(Tokens)
        BY <1>1, LayoutType
    <2>2. << >> \in Seq(Tokens)
        OBVIOUS
    <2> QED BY <2>1, <2>2
<1> DEFINE words == Worded(l, row)
<1> HIDE DEF layout, words
<1>5. words \in Seq(Tokens) /\ Len(words) = Len(l.words)
    BY <1>3 DEF words
<1>6. layout \o words \in Seq(Tokens) /\ Len(layout \o words) = Len(layout) + Len(words)
    BY <1>4, <1>5, ConcatProperties
<1>7. Len(layout) \in Nat
    BY <1>4, LenProperties
<1>8. ~Silent(l) => Len(layout \o words) # 0
    BY <1>1, <1>5, <1>6, <1>7 DEF Silent
<1>9. Lexed(l, row, stack, ignored) = IF NoCharacters(l) THEN << >> ELSE layout \o words
    BY DEF Lexed, layout, words
<1> QED BY <1>6, <1>8, <1>9 DEF NoCharacters, Blank

LEMMA LevelSorted ==
    ASSUME NEW l \in Lines, NEW stack, Sorted(stack), NEW ignored
    PROVE  Sorted(Level(l, stack, ignored))
BY StackSorted DEF Level, Lines

-----------------------------------------------------------------------------
(* Reading on                                                                *)

\* TypeOK, with the stack apart.
LEMMA TypeSorted == TypeOK => Sorted(indent_stack)
BY DEF TypeOK, Sorted

LEMMA SourceType ==
    ASSUME TypeOK
    PROVE  source \in Seq(Lines) /\ Len(source) \in Nat \ {0} /\ \A i \in 1..Len(source) : source[i] \in Lines
<1>1. source \in Seq(Lines) /\ source # << >>
    BY LexerAssumption DEF TypeOK
<1> QED BY <1>1, LenProperties, EmptySeq, ElementOfSeq

\* The line that getline stops at.
LEMMA TakenLine ==
    ASSUME TypeOK, NEW i \in 0..Len(source), Takes(i), Reads
    PROVE  /\ i \in 1..Len(source) /\ source[i] \in Lines
           /\ Row(i) \in Nat
           /\ Eof(i) \in Seq(Tokens)
<1>1. i \in 1..Len(source) /\ (read = Len(source) \/ i > read)
    BY SourceType DEF TypeOK, Takes, StopsFirst, Stops
<1>2. Row(i) \in Nat
    BY <1>1, SourceType DEF Row, TypeOK
<1>3. Token("eof", Row(i) + 1, 0) \in Tokens
    BY <1>2 DEF Token, Tokens
<1>4. Eof(i) \in Seq(Tokens)
    BY <1>3 DEF Eof
<1> QED BY <1>1, <1>2, <1>4, SourceType

\* The list grows at its end.
LEMMA Grows ==
    ASSUME TypeOK, NEW i \in 0..Len(source), Takes(i)
    PROVE  /\ Ahead(i) \in Seq(Tokens)
           /\ Len(token_list) <= Len(Ahead(i))
           /\ \A k \in 1..Len(token_list) : Ahead(i)[k] = token_list[k]
<1>1. CASE ~Reads
    BY <1>1, LenProperties DEF Ahead, TypeOK
<1>2. CASE Reads
    <2> DEFINE lexed == Lexed(source[i], Row(i), indent_stack, ignoring)
               more == lexed \o Eof(i)
    <2>1. lexed \in Seq(Tokens) /\ Eof(i) \in Seq(Tokens)
        BY <1>2, TakenLine, LexedType, TypeSorted
    <2>2. Ahead(i) = (token_list \o lexed) \o Eof(i)
        BY <1>2 DEF Ahead
    <2> HIDE DEF lexed
    <2>3. /\ token_list \o lexed \in Seq(Tokens)
          /\ Len(token_list \o lexed) = Len(token_list) + Len(lexed)
          /\ \A k \in 1..Len(token_list) : (token_list \o lexed)[k] = token_list[k]
        BY <2>1, ConcatProperties DEF TypeOK
    <2> DEFINE t == token_list \o lexed
    <2> HIDE DEF t
    <2>4. /\ t \o Eof(i) \in Seq(Tokens)
          /\ Len(t \o Eof(i)) = Len(t) + Len(Eof(i))
          /\ \A k \in 1..Len(t) : (t \o Eof(i))[k] = t[k]
        BY <2>1, <2>3, ConcatProperties DEF t
    <2>5. Len(token_list) \in Nat /\ Len(lexed) \in Nat /\ Len(Eof(i)) \in Nat
        BY <2>1, LenProperties DEF TypeOK
    <2> QED BY <2>2, <2>3, <2>4, <2>5 DEF t
<1> QED BY <1>1, <1>2

\* What reading does to the state keeps its type.
LEMMA AdvanceType ==
    ASSUME TypeOK, NEW i \in 0..Len(source), Takes(i), Advance(i)
    PROVE  /\ read' \in 0..Len(source)
           /\ token_list' \in Seq(Tokens)
           /\ line' \in Nat
           /\ Sorted(indent_stack')
           /\ ignoring' \in BOOLEAN
           /\ reports' \in Seq(Nat)
<1>1. read' \in 0..Len(source) /\ token_list' \in Seq(Tokens)
    BY Grows DEF Advance
<1>2. CASE ~Reads
    BY <1>1, <1>2, TypeSorted DEF Advance, TypeOK
<1>3. CASE Reads
    <2>1. line' = Row(i) /\ LexLine(source[i], Row(i))
        BY <1>3 DEF Advance
    <2>2. Sorted(indent_stack')
        BY <1>3, <2>1, TakenLine, LevelSorted, TypeSorted DEF LexLine
    <2>3. ignoring' \in BOOLEAN
        BY <2>1 DEF LexLine, Ignores, TypeOK
    <2>4. reports' \in Seq(Nat)
        <3>1. Reports(source[i]) \in Nat
            BY <1>3, TakenLine DEF Lines, Reports
        <3>2. [k \in 1..Reports(source[i]) |-> Row(i)] \in Seq(Nat)
            BY <1>3, <3>1, TakenLine
        <3> QED BY <2>1, <3>2, ConcatProperties DEF LexLine, TypeOK
    <2> QED BY <1>1, <1>3, <2>1, <2>2, <2>3, <2>4, TakenLine
<1> QED BY <1>2, <1>3

\* next() goes one token on, to what is at most just past the list.
LEMMA MovedBounds ==
    ASSUME TypeOK, Room, ~Unreadable
    PROVE  /\ Moved \in 0..MaxTokens
           /\ AtEof => Moved = token_pointer
           /\ ~AtEof => Moved = token_pointer + 1
           /\ token_list # << >> => Moved <= Len(token_list)
<1>1. Len(token_list) \in Nat /\ DOMAIN token_list = 1..Len(token_list)
    BY LenProperties DEF TypeOK
<1>2. token_pointer \in -1..furthest /\ furthest \in -1..MaxTokens /\ MaxTokens \in Nat
    BY LexerAssumption DEF TypeOK
<1>3. token_pointer < MaxTokens
    BY DEF Room
<1>4. AtEof => token_pointer + 1 \in 1..Len(token_list)
    BY <1>1 DEF AtEof
<1>5. token_list # << >> => token_pointer = -1 \/ token_pointer + 1 \in 1..Len(token_list)
    BY <1>1, <1>2 DEF Unreadable, Outside
<1>6. Moved = IF AtEof THEN token_pointer ELSE token_pointer + 1
    BY DEF Moved
<1>7. Moved \in 0..MaxTokens
    BY <1>2, <1>3, <1>4, <1>6
<1>8. token_list # << >> => Moved <= Len(token_list)
    BY <1>1, <1>2, <1>4, <1>5, <1>6
<1> QED BY <1>6, <1>7, <1>8

-----------------------------------------------------------------------------
(* The invariant                                                             *)

LEMMA InitHolds == Init => IInv
<1> SUFFICES ASSUME Init PROVE IInv
    OBVIOUS
<1>1. source \in Sources /\ source \in Seq(Lines)
    BY LexerAssumption DEF Init
<1>2. Len(source) \in Nat
    BY <1>1, LenProperties
<1>3. /\ indent_stack \in Seq(Nat) \ {<< >>} /\ indent_stack[1] = 0
      /\ \A k \in 2..Len(indent_stack) : indent_stack[k - 1] < indent_stack[k]
    BY DEF Init
<1>4. furthest \in -1..MaxTokens /\ token_pointer \in -1..furthest
    BY LexerAssumption DEF Init
<1>5. read \in 0..Len(source) /\ token_list \in Seq(Tokens) /\ reports \in Seq(Nat) /\ line \in Nat
    BY <1>2 DEF Init
<1>6. ignoring \in BOOLEAN /\ shown \in Tokens \cup {nullopt} /\ fault \in {"none", "outside", "endless"}
    BY DEF Init
<1>7. TypeOK
    BY <1>1, <1>3, <1>4, <1>5, <1>6 DEF TypeOK
<1>8. Near /\ NothingAfterEof
    BY DEF Init, Near, NothingAfterEof
<1> QED BY <1>7, <1>8 DEF IInv

\* The first line read has a token, or the source ends with it.
LEMMA FirstRead ==
    ASSUME TypeOK, ~FirstSilent, NEW i \in 0..Len(source), Takes(i), Reads,
           token_list = << >>, read = 0
    PROVE  Ahead(i) # << >>
<1>1. i \in 1..Len(source) /\ Stops(i) /\ \A j \in 1..(i - 1) : ~Stops(j)
    BY TakenLine, SourceType DEF Takes, StopsFirst
<1> DEFINE lexed == Lexed(source[i], Row(i), indent_stack, ignoring)
<1>2. lexed \in Seq(Tokens) /\ (~Silent(source[i]) => lexed # << >>) /\ Eof(i) \in Seq(Tokens)
    BY TakenLine, LexedType, TypeSorted
<1>3. i = Len(source) => Len(Eof(i)) = 1
    BY DEF Eof
<1>4. i # Len(source) => ~Silent(source[i])
    <2> SUFFICES ASSUME i # Len(source) PROVE ~Silent(source[i])
        OBVIOUS
    <2>1. ~Blank(source[i])
        BY <1>1 DEF Stops
    <2>2. \A j \in 1..(i - 1) : Blank(source[j])
        BY <1>1, SourceType DEF Stops
    <2>3. i \in DOMAIN source
        BY <1>1, SourceType, LenProperties
    <2> QED BY <2>1, <2>2, <2>3 DEF FirstSilent
<1>5. Ahead(i) = (token_list \o lexed) \o Eof(i)
    BY DEF Ahead
<1> HIDE DEF lexed
<1> DEFINE t == token_list \o lexed
<1>6. t \in Seq(Tokens) /\ Len(t) = Len(token_list) + Len(lexed)
    BY <1>2, ConcatProperties DEF TypeOK
<1>7. Len(lexed) \in Nat /\ Len(Eof(i)) \in Nat /\ Len(token_list) \in Nat /\ (lexed # << >> => Len(lexed) # 0)
    BY <1>2, LenProperties, EmptySeq DEF TypeOK
<1> HIDE DEF t
<1>8. Len(t \o Eof(i)) = Len(t) + Len(Eof(i))
    BY <1>2, <1>6, ConcatProperties
<1>9. Len(t \o Eof(i)) # 0
    <2>1. CASE i = Len(source)
        BY <1>3, <1>6, <1>7, <1>8, <2>1
    <2>2. CASE i # Len(source)
        <3>1. Len(lexed) # 0
            BY <1>2, <1>4, <1>7, <2>2
        <3> QED BY <1>6, <1>7, <1>8, <3>1
    <2> QED BY <2>1, <2>2
<1> QED BY <1>5, <1>9 DEF t

\* Reading on, wherever it leaves the parser, keeps the parser before the end.
LEMMA AdvanceKeeps ==
    ASSUME IInv, Room, ~Unreadable, NEW i \in 0..Len(source), Takes(i), Advance(i),
           UNCHANGED source,
           furthest' = furthest \/ (furthest' = Moved /\ Moved > furthest)
    PROVE  Near' /\ NothingAfterEof'
<1> USE DEF IInv
<1>0. TypeOK /\ (FirstSilent' <=> FirstSilent)
    BY DEF FirstSilent
<1> SUFFICES ASSUME ~FirstSilent PROVE Near' /\ NothingAfterEof'
    BY <1>0 DEF Near, NothingAfterEof
<1>1. /\ token_list' = Ahead(i)
      /\ token_list' \in Seq(Tokens)
      /\ Len(token_list) <= Len(token_list')
      /\ \A k \in 1..Len(token_list) : token_list'[k] = token_list[k]
    BY Grows DEF Advance
<1>2. /\ Len(token_list) \in Nat /\ DOMAIN token_list = 1..Len(token_list)
      /\ Len(token_list') \in Nat /\ DOMAIN token_list' = 1..Len(token_list')
      /\ (token_list = << >> => Len(token_list) = 0)
      /\ (token_list' = << >> => Len(token_list') = 0)
      /\ (Len(token_list) = 0 => token_list = << >>)
    BY <1>1, LenProperties, EmptySeq DEF TypeOK
<1>3. /\ furthest <= Len(token_list)
      /\ token_list = << >> => furthest = -1 /\ read = 0
    BY DEF Near
<1>4. furthest \in -1..MaxTokens /\ token_pointer \in -1..furthest /\ MaxTokens \in Nat
    BY LexerAssumption DEF TypeOK
<1>5. /\ Moved \in 0..MaxTokens
      /\ AtEof => Moved = token_pointer
      /\ ~AtEof => Moved = token_pointer + 1
      /\ token_list # << >> => Moved <= Len(token_list)
    BY MovedBounds
<1>6. token_list' # << >>
    <2>1. CASE token_list # << >>
        BY <1>1, <1>2, <2>1
    <2>2. CASE token_list = << >>
        <3>1. ~AtEof
            BY <1>2, <2>2 DEF AtEof
        <3>2. Moved = 0
            BY <1>3, <1>4, <1>5, <2>2, <3>1
        <3>3. Reads
            BY <3>1, <3>2 DEF Reads, Wants
        <3> QED BY <1>1, <1>3, <2>2, <3>3, FirstRead
    <2> QED BY <2>1, <2>2
<1>7. furthest' \in Int /\ (furthest' <= Len(token_list) \/ furthest' = 0)
    BY <1>2, <1>3, <1>4, <1>5
<1>8. Near'
    <2>1. furthest' <= Len(token_list')
        BY <1>1, <1>2, <1>6, <1>7, EmptySeq
    <2> QED BY <1>6, <2>1 DEF Near
<1>9. ASSUME NEW e \in DOMAIN token_list', IsFirstEof(e)'
      PROVE  furthest' < e
    <2>1. CASE e > Len(token_list)
        BY <1>2, <1>7, <1>9, <2>1
    <2>2. CASE e <= Len(token_list)
        <3>1. IsFirstEof(e) /\ e \in DOMAIN token_list
            BY <1>1, <1>2, <1>9, <2>2 DEF IsFirstEof
        <3>2. furthest < e
            BY <3>1 DEF NothingAfterEof
        <3>3. token_pointer + 1 = e => AtEof
            BY <3>1 DEF AtEof, IsFirstEof
        <3> QED BY <1>2, <1>4, <1>5, <3>1, <3>2, <3>3
    <2> QED BY <1>2, <1>9, <2>1, <2>2
<1> QED BY <1>8, <1>9 DEF NothingAfterEof

\* Nothing of the lexer changes but where the parser is, which stays in bounds.
LEMMA StillKeeps ==
    ASSUME IInv, UNCHANGED <<source, stream, furthest>>,
           token_pointer' \in -1..furthest,
           shown' \in Tokens \cup {nullopt},
           fault' \in {"none", "outside", "endless"}
    PROVE  IInv'
<1>1. TypeOK'
    BY DEF IInv, TypeOK, stream
<1>2. Near' /\ NothingAfterEof'
    BY DEF IInv, Near, NothingAfterEof, FirstSilent, IsFirstEof, stream
<1> QED BY <1>1, <1>2 DEF IInv

\* What the parser is given is a token of the list, or nothing.
LEMMA ShownType ==
    ASSUME NEW list \in Seq(Tokens), NEW p \in Nat, ~Outside(list, p), Shows(list, p)
    PROVE  shown' \in Tokens \cup {nullopt}
<1>1. CASE list = << >>
    BY <1>1 DEF Shows
<1>2. CASE list # << >>
    <2>1. p + 1 \in 1..Len(list)
        BY <1>2, LenProperties DEF Outside
    <2> QED BY <1>2, <2>1, ElementOfSeq DEF Shows
<1> QED BY <1>1, <1>2

LEMMA NextKeeps == IInv /\ Next => IInv'
<1> SUFFICES ASSUME IInv, Next PROVE IInv'
    OBVIOUS
<1>1. PICK i \in 0..Len(source) : Takes(i) /\ ~Endless(i) /\ Advance(i)
    BY DEF Next
<1>2. TypeOK /\ Room /\ ~Unreadable /\ UNCHANGED <<source, shown, fault>>
      /\ token_pointer' = Moved /\ Reached(Moved)
    BY DEF Next, IInv
<1>3. furthest \in -1..MaxTokens /\ Moved \in 0..MaxTokens /\ MaxTokens \in Nat
    BY <1>2, MovedBounds, LexerAssumption DEF TypeOK
<1>4. furthest' = furthest \/ (furthest' = Moved /\ Moved > furthest)
    BY <1>2 DEF Reached
<1>5. furthest' \in -1..MaxTokens /\ token_pointer' \in -1..furthest'
    BY <1>2, <1>3 DEF Reached
<1>6. Near' /\ NothingAfterEof'
    BY <1>1, <1>2, <1>4, AdvanceKeeps
<1>7. TypeOK'
    BY <1>1, <1>2, <1>5, AdvanceType DEF TypeOK, Sorted
<1> QED BY <1>6, <1>7 DEF IInv

LEMMA PeekKeeps == IInv /\ Peek => IInv'
<1> SUFFICES ASSUME IInv, Peek PROVE IInv'
    OBVIOUS
<1>1. PICK i \in 0..Len(source) :
            Takes(i) /\ ~Outside(Ahead(i), Moved) /\ Advance(i) /\ Shows(Ahead(i), Moved)
    BY DEF Peek
<1>2. TypeOK /\ Room /\ ~Unreadable /\ UNCHANGED <<source, furthest, fault>>
      /\ token_pointer' = Moved - 1
    BY DEF Peek, IInv
<1>3. furthest \in -1..MaxTokens /\ token_pointer \in -1..furthest /\ Moved \in 0..MaxTokens
      /\ (Moved = token_pointer \/ Moved = token_pointer + 1)
    BY <1>2, MovedBounds DEF TypeOK
<1>4. token_pointer' \in -1..furthest
    BY <1>2, <1>3, LexerAssumption
<1>5. Near' /\ NothingAfterEof'
    BY <1>1, <1>2, AdvanceKeeps
<1>6. shown' \in Tokens \cup {nullopt}
    BY <1>1, <1>2, <1>3, Grows, ShownType
<1>7. TypeOK'
    BY <1>1, <1>2, <1>4, <1>6, AdvanceType DEF TypeOK, Sorted
<1> QED BY <1>5, <1>7 DEF IInv

LEMMA StepKeeps == IInv /\ [Step]_vars => IInv'
<1> SUFFICES ASSUME IInv, [Step]_vars PROVE IInv'
    OBVIOUS
<1>0. TypeOK /\ furthest \in -1..MaxTokens /\ token_pointer \in -1..furthest /\ MaxTokens \in Nat
      /\ token_list \in Seq(Tokens) /\ shown \in Tokens \cup {nullopt} /\ fault \in {"none", "outside", "endless"}
    BY LexerAssumption DEF IInv, TypeOK
<1>1. CASE Next
    BY <1>1, NextKeeps
<1>2. CASE Peek
    BY <1>2, PeekKeeps
<1>3. ASSUME NEW why \in {"outside", "endless"}, Fails(why) PROVE IInv'
    BY <1>0, <1>3, StillKeeps DEF Fails, reader
<1>4. CASE NextFails \/ PeekFails
    BY <1>3, <1>4 DEF NextFails, PeekFails
<1>5. CASE Current
    <2>1. CASE Outside(token_list, token_pointer)
        BY <1>3, <1>5, <2>1 DEF Current
    <2>2. CASE ~Outside(token_list, token_pointer)
        <3>1. token_pointer \in Nat /\ Shows(token_list, token_pointer)
            BY <1>0, <1>5, <2>2 DEF Current
        <3>2. shown' \in Tokens \cup {nullopt}
            BY <1>0, <2>2, <3>1, ShownType
        <3> QED BY <1>0, <1>5, <2>2, <3>2, StillKeeps DEF Current
    <2> QED BY <2>1, <2>2
<1>6. CASE Back
    BY <1>0, <1>6, StillKeeps DEF Back
<1>7. ASSUME NEW p \in -1..furthest, Jump(p) PROVE IInv'
    BY <1>0, <1>7, StillKeeps DEF Jump
<1>8. CASE UNCHANGED vars
    BY <1>0, <1>8, StillKeeps DEF vars, reader
<1> QED BY <1>1, <1>2, <1>4, <1>5, <1>6, <1>7, <1>8 DEF Step

LEMMA Invariance == Spec => []IInv
BY InitHolds, StepKeeps, PTL DEF Spec

-----------------------------------------------------------------------------
(* What follows                                                              *)

\* The stack of levels stays sorted over the 0 it began with, so that every
\* line finds a level to stop at, and the pointer is where the parser has been.
THEOREM LexerTypes == Spec => []TypeOK
<1>1. IInv => TypeOK
    BY DEF IInv
<1> QED BY <1>1, Invariance, PTL

\* However the parser looks ahead, goes back and jumps, and however often the
\* end is marked again, it is not past the first mark.
THEOREM StopsAtEof == Spec => []NothingAfterEof
<1>1. IInv => NothingAfterEof
    BY DEF IInv
<1> QED BY <1>1, Invariance, PTL

-----------------------------------------------------------------------------
(* Blocks and parentheses: of a list of tokens, as Lexer says it of token_list *)

CountIn(s, n, type) == Cardinality({k \in 1..n : s[k].type = type})

DepthIn(s, n) == CountIn(s, n, "indent") - CountIn(s, n, "dedent")

Balanced(s, stack) ==
    /\ \A n \in 0..Len(s) : DepthIn(s, n) >= 0
    /\ DepthIn(s, Len(s)) = Len(stack) - 1

OpenIn(s, n) ==
    \E k \in 1..(n - 1) :
        /\ s[k].type = "("
        /\ \A j \in (k + 1)..(n - 1) : s[j].type # ")"

Quiet(s, ignored) ==
    /\ ignored <=> OpenIn(s, Len(s) + 1)
    /\ \A n \in 1..Len(s) : s[n].type \in {"indent", "dedent"} => ~OpenIn(s, n)

\* A token that opens and closes nothing
Plain(type) == type \notin {"indent", "dedent"}

LEMMA CountType ==
    ASSUME NEW s, NEW n \in Nat, NEW type
    PROVE  IsFiniteSet({k \in 1..n : s[k].type = type}) /\ CountIn(s, n, type) \in Nat
<1>1. IsFiniteSet(1..n)
    BY FS_Interval
<1>2. IsFiniteSet({k \in 1..n : s[k].type = type})
    BY <1>1, FS_Subset
<1> QED BY <1>2, FS_CardinalityType DEF CountIn

LEMMA CountNone ==
    ASSUME NEW s, NEW m \in Nat, NEW n \in Nat, m <= n, NEW type,
           \A k \in (m + 1)..n : s[k].type # type
    PROVE  CountIn(s, n, type) = CountIn(s, m, type)
<1>1. {k \in 1..n : s[k].type = type} = {k \in 1..m : s[k].type = type}
    OBVIOUS
<1> QED BY <1>1 DEF CountIn

LEMMA CountAll ==
    ASSUME NEW s, NEW m \in Nat, NEW n \in Nat, m <= n, NEW type,
           \A k \in (m + 1)..n : s[k].type = type
    PROVE  CountIn(s, n, type) = CountIn(s, m, type) + (n - m)
<1> DEFINE A == {k \in 1..m : s[k].type = type}
           B == (m + 1)..n
<1>1. {k \in 1..n : s[k].type = type} = A \cup B
    OBVIOUS
<1>2. A \cap B = {}
    OBVIOUS
<1>3. IsFiniteSet(A) /\ CountIn(s, m, type) \in Nat
    BY CountType
<1>8. Cardinality(A) = CountIn(s, m, type)
    BY DEF CountIn
<1>4. IsFiniteSet(B) /\ Cardinality(B) = n - m
    <2>1. m + 1 \in Int /\ n \in Int
        OBVIOUS
    <2>2. IsFiniteSet(B) /\ Cardinality(B) = (IF m + 1 > n THEN 0 ELSE n - (m + 1) + 1)
        BY <2>1, FS_Interval
    <2> HIDE DEF B
    <2> QED BY <2>2
<1> HIDE DEF A, B
<1>5. Cardinality(A \cup B) = Cardinality(A) + Cardinality(B) - Cardinality(A \cap B)
    BY <1>3, <1>4, FS_Union
<1>6. Cardinality({}) = 0
    BY FS_EmptySet
<1>7. Cardinality(A \cup B) = CountIn(s, m, type) + (n - m)
    <2>1. Cardinality(A \cup B) = Cardinality(A) + Cardinality(B) - 0
        BY <1>2, <1>5, <1>6
    <2> QED BY <1>3, <1>4, <1>8, <2>1
<1> QED BY <1>1, <1>7 DEF CountIn

LEMMA OpenPrefix ==
    ASSUME NEW s, NEW t, NEW m \in Nat, \A k \in 1..m : t[k] = s[k], NEW n \in 1..(m + 1)
    PROVE  OpenIn(t, n) <=> OpenIn(s, n)
<1>1. \A k \in 1..(n - 1) : t[k] = s[k]
    OBVIOUS
<1>2. \A k \in 1..(n - 1) : \A j \in (k + 1)..(n - 1) : t[j] = s[j]
    OBVIOUS
<1> QED BY <1>1, <1>2 DEF OpenIn

\* No parenthesis, no change.
LEMMA OpenSame ==
    ASSUME NEW s, NEW m \in Nat, NEW n \in Nat, m <= n,
           \A k \in (m + 1)..n : s[k].type \notin {"(", ")"}
    PROVE  OpenIn(s, n + 1) <=> OpenIn(s, m + 1)
<1>1. ASSUME OpenIn(s, n + 1) PROVE OpenIn(s, m + 1)
    <2>1. PICK k \in 1..n : s[k].type = "(" /\ \A j \in (k + 1)..n : s[j].type # ")"
        BY <1>1 DEF OpenIn
    <2>2. k \in 1..m
        BY <2>1
    <2>3. \A j \in (k + 1)..m : s[j].type # ")"
        BY <2>1, <2>2
    <2> QED BY <2>1, <2>2, <2>3 DEF OpenIn
<1>2. ASSUME OpenIn(s, m + 1) PROVE OpenIn(s, n + 1)
    <2>1. PICK k \in 1..m : s[k].type = "(" /\ \A j \in (k + 1)..m : s[j].type # ")"
        BY <1>2 DEF OpenIn
    <2>2. k \in 1..n /\ \A j \in (k + 1)..n : s[j].type # ")"
        BY <2>1
    <2> QED BY <2>1, <2>2 DEF OpenIn
<1> QED BY <1>1, <1>2

-----------------------------------------------------------------------------
(* What is appended                                                          *)

\* Tokens that are not layout leave the blocks as they are.
LEMMA PlainBalance ==
    ASSUME NEW s \in Seq(Tokens), NEW u \in Seq(Tokens), NEW stack, Balanced(s, stack),
           \A k \in 1..Len(u) : Plain(u[k].type)
    PROVE  Balanced(s \o u, stack)
<1> DEFINE t == s \o u
<1>1. Len(s) \in Nat /\ Len(u) \in Nat
    BY LenProperties
<1>2. /\ Len(t) = Len(s) + Len(u)
      /\ \A k \in 1..Len(s) : t[k] = s[k]
      /\ \A k \in 1..Len(u) : t[Len(s) + k] = u[k]
    BY ConcatProperties, <1>1
<1> HIDE DEF t
<1>3. ASSUME NEW k \in (Len(s) + 1)..Len(t) PROVE t[k].type # "indent" /\ t[k].type # "dedent"
    <2>1. k - Len(s) \in 1..Len(u) /\ Len(s) + (k - Len(s)) = k
        BY <1>1, <1>2
    <2>2. t[k] = u[k - Len(s)]
        BY <1>2, <2>1
    <2> QED BY <2>1, <2>2 DEF Plain
<1>4. ASSUME NEW n \in 0..Len(t) PROVE DepthIn(t, n) = DepthIn(s, IF n <= Len(s) THEN n ELSE Len(s))
    <2>1. CASE n <= Len(s)
        <3>1. n \in Nat /\ \A k \in 1..n : t[k] = s[k]
            BY <1>1, <1>2, <2>1
        <3>2. CountIn(t, n, "indent") = CountIn(s, n, "indent")
            BY <3>1 DEF CountIn
        <3>3. CountIn(t, n, "dedent") = CountIn(s, n, "dedent")
            BY <3>1 DEF CountIn
        <3> QED BY <2>1, <3>2, <3>3 DEF DepthIn
    <2>2. CASE ~(n <= Len(s))
        <3>1. n \in Nat /\ Len(s) <= n /\ \A k \in (Len(s) + 1)..n : k \in (Len(s) + 1)..Len(t)
            BY <1>1, <1>2, <2>2
        <3>2. CountIn(t, n, "indent") = CountIn(t, Len(s), "indent")
            BY <1>1, <1>3, <3>1, CountNone
        <3>3. CountIn(t, n, "dedent") = CountIn(t, Len(s), "dedent")
            BY <1>1, <1>3, <3>1, CountNone
        <3>4. /\ CountIn(t, Len(s), "indent") = CountIn(s, Len(s), "indent")
              /\ CountIn(t, Len(s), "dedent") = CountIn(s, Len(s), "dedent")
            <4> DEFINE m == Len(s)
            <4>1. m \in Nat /\ \A k \in 1..m : t[k] = s[k]
                BY <1>1, <1>2
            <4> HIDE DEF m
            <4>2. CountIn(t, m, "indent") = CountIn(s, m, "indent")
                BY <4>1 DEF CountIn
            <4>3. CountIn(t, m, "dedent") = CountIn(s, m, "dedent")
                BY <4>1 DEF CountIn
            <4> QED BY <4>2, <4>3 DEF m
        <3> QED BY <2>2, <3>2, <3>3, <3>4 DEF DepthIn
    <2> QED BY <2>1, <2>2
<1>5. \A n \in 0..Len(t) : (IF n <= Len(s) THEN n ELSE Len(s)) \in 0..Len(s)
    BY <1>1
<1>6. \A n \in 0..Len(t) : DepthIn(t, n) >= 0
    BY <1>4, <1>5 DEF Balanced
<1>7. Len(t) \in 0..Len(t) /\ (IF Len(t) <= Len(s) THEN Len(t) ELSE Len(s)) = Len(s)
    BY <1>1, <1>2
<1>8. DepthIn(t, Len(t)) = Len(stack) - 1
    BY <1>4, <1>7 DEF Balanced
<1> QED BY <1>6, <1>8 DEF Balanced, t

\* The layout of a line opens and closes what it does on the stack.
LEMMA LayoutBalance ==
    ASSUME NEW s \in Seq(Tokens), NEW stack, Sorted(stack), NEW indent \in Nat, NEW row \in Nat,
           Balanced(s, stack)
    PROVE  Balanced(s \o Layout(stack, indent, row), Stack(stack, indent))
<1> DEFINE u == Layout(stack, indent, row)
           t == s \o u
           m == Len(s)
           kept == Kept(stack, indent)
<1>0. kept \in 1..Len(stack) /\ Len(stack) \in Nat /\ stack \in Seq(Nat)
    BY KeptBounds, LenProperties DEF Sorted
<1>1. u \in Seq(Tokens) /\ Len(u) \in Nat /\ m \in Nat
    BY LayoutType, LenProperties
<1>2. /\ Len(t) = m + Len(u)
      /\ \A k \in 1..m : t[k] = s[k]
      /\ \A k \in 1..Len(u) : t[m + k] = u[k]
    BY ConcatProperties, <1>1
<1> HIDE DEF t, kept, m
<1>3. ASSUME NEW n \in 0..m PROVE DepthIn(t, n) = DepthIn(s, n)
    <2>1. n \in Nat /\ \A k \in 1..n : t[k] = s[k]
        BY <1>1, <1>2
    <2> QED BY <2>1 DEF DepthIn, CountIn
<1>4. \A n \in 0..m : DepthIn(t, n) >= 0
    BY <1>3 DEF Balanced, m
<1>5. DepthIn(t, m) = Len(stack) - 1
    BY <1>1, <1>3 DEF Balanced, m
<1>6. ASSUME NEW type, \A k \in 1..Len(u) : u[k].type = type
      PROVE  \A k \in (m + 1)..Len(t) : t[k].type = type
    <2> TAKE k \in (m + 1)..Len(t)
    <2>1. k - m \in 1..Len(u) /\ m + (k - m) = k
        BY <1>1, <1>2
    <2> QED BY <1>2, <1>6, <2>1
<1>7. \A n \in Nat : CountIn(t, n, "indent") \in Nat /\ CountIn(t, n, "dedent") \in Nat
    BY CountType
<1>8. CASE indent > Top(stack)
    <2>1. u = <<Token("indent", row, 0)>> /\ Stack(stack, indent) = Append(stack, indent)
        BY <1>8 DEF Layout, Stack
    <2>2. Len(u) = 1 /\ \A k \in 1..Len(u) : u[k].type = "indent"
        BY <2>1 DEF Token
    <2>3. \A k \in (m + 1)..Len(t) : t[k].type = "indent"
        BY <1>6, <2>2
    <2>4. Len(t) = m + 1
        BY <1>2, <2>2
    <2> HIDE DEF u
    <2>5. CountIn(t, m + 1, "indent") = CountIn(t, m, "indent") + 1
        <3>1. m + 1 \in Nat /\ m <= m + 1 /\ (m + 1) - m = 1 /\ \A k \in (m + 1)..(m + 1) : t[k].type = "indent"
            BY <1>1, <2>3, <2>4
        <3>2. CountIn(t, m + 1, "indent") = CountIn(t, m, "indent") + ((m + 1) - m)
            BY <1>1, <3>1, CountAll
        <3> QED BY <3>1, <3>2
    <2>6. \A k \in (m + 1)..(m + 1) : t[k].type # "dedent"
        BY <2>3, <2>4
    <2>7. CountIn(t, m + 1, "dedent") = CountIn(t, m, "dedent")
        BY <1>1, <2>6, CountNone
    <2>8. DepthIn(t, m + 1) = DepthIn(t, m) + 1
        BY <1>1, <1>7, <2>5, <2>7 DEF DepthIn
    <2>9. Len(Stack(stack, indent)) = Len(stack) + 1
        BY <1>0, <2>1, AppendProperties
    <2>10. \A n \in 0..Len(t) : n \in 0..m \/ n = m + 1
        BY <1>1, <2>4
    <2>11. \A n \in 0..Len(t) : DepthIn(t, n) >= 0
        BY <1>0, <1>4, <1>5, <2>8, <2>10
    <2>12. DepthIn(t, Len(t)) = Len(Stack(stack, indent)) - 1
        BY <1>0, <1>5, <2>4, <2>8, <2>9
    <2> QED BY <2>11, <2>12 DEF Balanced, t, u
<1>9. CASE ~(indent > Top(stack))
    <2>1. u = [k \in 1..(Len(stack) - kept) |-> Token("dedent", row, 0)]
          /\ Stack(stack, indent) = SubSeq(stack, 1, kept)
        BY <1>9 DEF Layout, Stack, kept
    <2>2. Len(stack) - kept \in Nat
        BY <1>0
    <2>3. Len(u) = Len(stack) - kept /\ \A k \in 1..Len(u) : u[k].type = "dedent"
        BY <1>1, <2>1, <2>2, LenProperties DEF Token
    <2>4. \A k \in (m + 1)..Len(t) : t[k].type = "dedent"
        BY <1>6, <2>3
    <2> HIDE DEF u
    <2>5. ASSUME NEW n \in m..Len(t) PROVE DepthIn(t, n) = (Len(stack) - 1) - (n - m)
        <3>1. n \in Nat /\ m <= n /\ \A k \in (m + 1)..n : t[k].type = "dedent"
            BY <1>1, <1>2, <2>4
        <3>2. CountIn(t, n, "dedent") = CountIn(t, m, "dedent") + (n - m)
            BY <1>1, <3>1, CountAll
        <3>3. \A k \in (m + 1)..n : t[k].type # "indent"
            BY <3>1
        <3>4. CountIn(t, n, "indent") = CountIn(t, m, "indent")
            BY <1>1, <3>1, <3>3, CountNone
        <3>5. CountIn(t, m, "indent") \in Nat /\ CountIn(t, m, "dedent") \in Nat
            BY <1>1, <1>7
        <3>6. CountIn(t, m, "indent") - CountIn(t, m, "dedent") = Len(stack) - 1
            BY <1>5 DEF DepthIn
        <3>7. DepthIn(t, n) = CountIn(t, m, "indent") - (CountIn(t, m, "dedent") + (n - m))
            BY <3>2, <3>4 DEF DepthIn
        <3> DEFINE a == CountIn(t, m, "indent")
                   b == CountIn(t, m, "dedent")
                   c == Len(stack)
        <3>8. a \in Nat /\ b \in Nat /\ c \in Nat /\ m \in Nat /\ n \in Nat
            BY <1>0, <1>1, <3>1, <3>5
        <3>9. a - b = c - 1 /\ DepthIn(t, n) = a - (b + (n - m))
            BY <3>6, <3>7
        <3> HIDE DEF a, b, c
        <3>10. DepthIn(t, n) = (c - 1) - (n - m)
            BY <3>8, <3>9
        <3> QED BY <3>10 DEF c
    <2>6. Len(t) = m + (Len(stack) - kept) /\ Len(t) \in m..Len(t)
        BY <1>0, <1>1, <1>2, <2>3
    <2>7. Len(Stack(stack, indent)) = kept
        BY <1>0, <2>1, SubSeqProperties
    <2>8. \A n \in 0..Len(t) : DepthIn(t, n) >= 0
        <3> TAKE n \in 0..Len(t)
        <3>1. CASE n \in 0..m
            BY <1>4, <3>1
        <3>2. CASE n \in m..Len(t)
            BY <1>0, <1>1, <2>5, <2>6, <3>2
        <3> QED BY <1>1, <2>6, <3>1, <3>2
    <2>9. DepthIn(t, Len(t)) = Len(Stack(stack, indent)) - 1
        BY <1>0, <1>1, <2>5, <2>6, <2>7
    <2> QED BY <2>8, <2>9 DEF Balanced, t, u
<1> QED BY <1>8, <1>9

\* Tokens that are no parentheses, and layout only where none is open.
LEMMA UnbracketedQuiet ==
    ASSUME NEW s \in Seq(Tokens), NEW u \in Seq(Tokens), NEW ignored \in BOOLEAN, Quiet(s, ignored),
           \A k \in 1..Len(u) : u[k].type \notin {"(", ")"} /\ (ignored => Plain(u[k].type))
    PROVE  Quiet(s \o u, ignored)
<1> DEFINE t == s \o u
           m == Len(s)
           n == Len(t)
<1>1. Len(u) \in Nat /\ m \in Nat
    BY LenProperties
<1>2. /\ n = m + Len(u)
      /\ \A k \in 1..m : t[k] = s[k]
      /\ \A k \in 1..Len(u) : t[m + k] = u[k]
    BY ConcatProperties, <1>1
<1>3. (ignored <=> OpenIn(s, m + 1)) /\ \A k \in 1..m : ~Plain(s[k].type) => ~OpenIn(s, k)
    BY DEF Quiet, Plain
<1> HIDE DEF m, n, t
<1>4. \A k \in (m + 1)..n : t[k].type \notin {"(", ")"} /\ (ignored => Plain(t[k].type))
    <2> TAKE k \in (m + 1)..n
    <2>1. k - m \in 1..Len(u) /\ m + (k - m) = k
        BY <1>1, <1>2
    <2> QED BY <1>2, <2>1
<1>5. \A k \in 1..(m + 1) : OpenIn(t, k) <=> OpenIn(s, k)
    BY <1>1, <1>2, OpenPrefix
<1>6. ASSUME NEW k \in m..n PROVE OpenIn(t, k + 1) <=> ignored
    <2>1. k \in Nat /\ m <= k /\ \A j \in (m + 1)..k : t[j].type \notin {"(", ")"}
        BY <1>1, <1>2, <1>4
    <2>2. OpenIn(t, k + 1) <=> OpenIn(t, m + 1)
        BY <1>1, <2>1, OpenSame
    <2>3. m + 1 \in 1..(m + 1)
        BY <1>1
    <2> QED BY <1>3, <1>5, <2>2, <2>3
<1>7. ignored <=> OpenIn(t, n + 1)
    <2>1. n \in m..n
        BY <1>1, <1>2
    <2> QED BY <1>6, <2>1
<1>8. ASSUME NEW k \in 1..n, ~Plain(t[k].type) PROVE ~OpenIn(t, k)
    <2>1. CASE k \in 1..m
        <3>1. k \in 1..(m + 1) /\ t[k] = s[k]
            BY <1>1, <1>2, <2>1
        <3> QED BY <1>3, <1>5, <1>8, <2>1, <3>1
    <2>2. CASE k \notin 1..m
        <3>1. k - 1 \in m..n /\ k \in (m + 1)..n /\ (k - 1) + 1 = k
            BY <1>1, <1>2, <2>2
        <3>2. ~ignored
            BY <1>4, <1>8, <3>1
        <3> QED BY <1>6, <3>1, <3>2
    <2> QED BY <2>1, <2>2
<1> QED BY <1>7, <1>8 DEF Quiet, Plain, t, n

\* The words of a line leave a parenthesis open if its last one opens.
LEMMA WordsQuiet ==
    ASSUME NEW s \in Seq(Tokens), NEW l \in Lines, NEW row \in Nat, NEW ignored \in BOOLEAN,
           Quiet(s, ignored)
    PROVE  Quiet(s \o Worded(l, row), Ignores(l, ignored))
<1> DEFINE u == Worded(l, row)
           t == s \o u
           m == Len(s)
           n == Len(t)
<1>0. l.words \in Seq(Words) /\ Len(l.words) \in Nat /\ DOMAIN l.words = 1..Len(l.words)
    BY LenProperties DEF Lines
<1>1. u \in Seq(Tokens) /\ Len(u) = Len(l.words) /\ m \in Nat
    BY WordedType, LenProperties
<1>2. /\ n = m + Len(l.words)
      /\ \A k \in 1..m : t[k] = s[k]
      /\ \A k \in 1..Len(l.words) : t[m + k] = u[k]
    <2> HIDE DEF u
    <2>0. u \in Seq(Tokens) /\ Len(u) \in Nat /\ m \in Nat
        BY <1>0, <1>1
    <2>1. /\ n = m + Len(u)
          /\ \A k \in 1..m : t[k] = s[k]
          /\ \A k \in 1..Len(u) : t[m + k] = u[k]
        BY ConcatProperties, <2>0
    <2> QED BY <1>1, <2>1
<1>3. (ignored <=> OpenIn(s, m + 1)) /\ \A k \in 1..m : ~Plain(s[k].type) => ~OpenIn(s, k)
    BY DEF Quiet, Plain
<1>4. \A k \in 1..Len(l.words) : u[k].type = l.words[k] /\ l.words[k] \in Words
    BY <1>0, ElementOfSeq DEF Worded, Token
<1> HIDE DEF m, n, t, u
<1>5. \A k \in 1..(m + 1) : OpenIn(t, k) <=> OpenIn(s, k)
    BY <1>1, <1>2, OpenPrefix
<1>6. \A k \in (m + 1)..n : k - m \in 1..Len(l.words) /\ t[k].type = l.words[k - m]
    <2> TAKE k \in (m + 1)..n
    <2>1. k - m \in 1..Len(l.words) /\ m + (k - m) = k
        BY <1>0, <1>1, <1>2
    <2> QED BY <1>2, <1>4, <2>1
<1>7. \A k \in 1..Len(l.words) : m + k \in (m + 1)..n /\ t[m + k].type = l.words[k]
    BY <1>0, <1>1, <1>2, <1>4
<1>8. ASSUME NEW k \in 1..n, ~Plain(t[k].type) PROVE ~OpenIn(t, k)
    <2>1. k \in 1..m
        <3>1. k \in (m + 1)..n => t[k].type \in Words
            BY <1>4, <1>6
        <3> QED BY <1>0, <1>1, <1>2, <1>8, <3>1 DEF Plain, Words
    <2>2. k \in 1..(m + 1) /\ t[k] = s[k]
        BY <1>1, <1>2, <2>1
    <2> QED BY <1>3, <1>5, <1>8, <2>1, <2>2
<1>9. Ignores(l, ignored) <=> OpenIn(t, n + 1)
    <2>1. CASE ~(Has(l, "(") \/ Has(l, ")"))
        <3>1. \A k \in (m + 1)..n : t[k].type \notin {"(", ")"}
            BY <1>0, <1>6, <2>1 DEF Has
        <3>2. n \in Nat /\ m <= n
            BY <1>0, <1>1, <1>2
        <3>3. OpenIn(t, n + 1) <=> OpenIn(t, m + 1)
            BY <1>1, <3>1, <3>2, OpenSame
        <3>4. m + 1 \in 1..(m + 1)
            BY <1>1
        <3> QED BY <1>3, <1>5, <2>1, <3>3, <3>4 DEF Ignores
    <2>2. CASE Has(l, "(") \/ Has(l, ")")
        <3> DEFINE last == \E k \in DOMAIN l.words :
                l.words[k] = "(" /\ \A j \in DOMAIN l.words : j > k => l.words[j] # ")"
        <3>1. Ignores(l, ignored) <=> last
            BY <2>2 DEF Ignores
        <3>2. ASSUME last PROVE OpenIn(t, n + 1)
            <4>1. PICK k \in 1..Len(l.words) :
                    l.words[k] = "(" /\ \A j \in 1..Len(l.words) : j > k => l.words[j] # ")"
                BY <1>0, <3>2
            <4>2. m + k \in 1..((n + 1) - 1) /\ t[m + k].type = "("
                BY <1>0, <1>1, <1>2, <1>7, <4>1
            <4>3. \A j \in ((m + k) + 1)..((n + 1) - 1) : t[j].type # ")"
                <5> TAKE j \in ((m + k) + 1)..((n + 1) - 1)
                <5>1. j \in (m + 1)..n /\ j - m > k
                    BY <1>0, <1>1, <1>2, <4>1
                <5> QED BY <1>6, <4>1, <5>1
            <4> QED BY <4>2, <4>3 DEF OpenIn
        <3>3. ASSUME OpenIn(t, n + 1) PROVE last
            <4>1. PICK k \in 1..n : t[k].type = "(" /\ \A j \in (k + 1)..n : t[j].type # ")"
                BY <1>0, <1>1, <1>2, <3>3 DEF OpenIn
            <4>2. CASE k \in (m + 1)..n
                <5>1. k - m \in 1..Len(l.words) /\ l.words[k - m] = "("
                    BY <1>6, <4>1, <4>2
                <5>2. \A j \in 1..Len(l.words) : j > k - m => l.words[j] # ")"
                    <6> SUFFICES ASSUME NEW j \in 1..Len(l.words), j > k - m PROVE l.words[j] # ")"
                        OBVIOUS
                    <6>1. m + j \in (k + 1)..n
                        BY <1>0, <1>1, <1>2, <4>1
                    <6> QED BY <1>7, <4>1, <6>1
                <5> QED BY <1>0, <5>1, <5>2
            <4>3. CASE k \in 1..m
                <5>1. \A j \in 1..Len(l.words) : l.words[j] # ")"
                    <6> TAKE j \in 1..Len(l.words)
                    <6>1. m + j \in (k + 1)..n
                        BY <1>0, <1>1, <1>2, <4>3
                    <6> QED BY <1>7, <4>1, <6>1
                <5>2. PICK j \in 1..Len(l.words) : l.words[j] = "("
                    BY <1>0, <2>2, <5>1 DEF Has
                <5> QED BY <1>0, <5>1, <5>2
            <4> QED BY <1>0, <1>1, <1>2, <4>1, <4>2, <4>3
        <3> QED BY <3>1, <3>2, <3>3
    <2> QED BY <2>1, <2>2
<1> QED BY <1>8, <1>9 DEF Quiet, Plain, t, n, u

-----------------------------------------------------------------------------
(* A line                                                                    *)

\* What is laid out for a line, before its words
Laid(l, row, stack, ignored) ==
    IF ignored THEN << >> ELSE Layout(stack, l.indent, row)

LEMMA LaidKinds ==
    ASSUME NEW l \in Lines, NEW row \in Nat, NEW stack, Sorted(stack), NEW ignored \in BOOLEAN
    PROVE  /\ Laid(l, row, stack, ignored) \in Seq(Tokens)
           /\ \A k \in 1..Len(Laid(l, row, stack, ignored)) :
                 ~ignored /\ Laid(l, row, stack, ignored)[k].type \in {"indent", "dedent"}
<1>1. l.indent \in Nat
    BY DEF Lines
<1>2. CASE ignored
    BY <1>2 DEF Laid
<1>3. CASE ~ignored
    <2>1. Layout(stack, l.indent, row) \in Seq(Tokens)
        BY <1>1, LayoutType
    <2>2. \A k \in 1..Len(Layout(stack, l.indent, row)) :
            Layout(stack, l.indent, row)[k].type \in {"indent", "dedent"}
        <3>1. CASE l.indent > Top(stack)
            BY <3>1 DEF Layout, Token
        <3>2. CASE ~(l.indent > Top(stack))
            <4> DEFINE d == Len(stack) - Kept(stack, l.indent)
                       u == [k \in 1..d |-> Token("dedent", row, 0)]
            <4>1. Layout(stack, l.indent, row) = u
                BY <3>2 DEF Layout
            <4>2. DOMAIN u = 1..Len(u)
                BY <2>1, <4>1, LenProperties
            <4>3. \A k \in DOMAIN u : u[k].type = "dedent"
                BY DEF Token
            <4> HIDE DEF u
            <4> QED BY <4>1, <4>2, <4>3
        <3> QED BY <3>1, <3>2
    <2> QED BY <1>3, <2>1, <2>2 DEF Laid
<1> QED BY <1>2, <1>3

\* A line keeps both.
LEMMA LexedKeeps ==
    ASSUME NEW s \in Seq(Tokens), NEW l \in Lines, NEW row \in Nat, NEW stack, Sorted(stack),
           NEW ignored \in BOOLEAN, Balanced(s, stack), Quiet(s, ignored)
    PROVE  /\ Balanced(s \o Lexed(l, row, stack, ignored), Level(l, stack, ignored))
           /\ Quiet(s \o Lexed(l, row, stack, ignored), Ignores(l, ignored))
<1>0. Worded(l, row) \in Seq(Tokens) /\ l.indent \in Nat
    BY WordedType DEF Lines
<1>1. CASE NoCharacters(l)
    <2>1. Lexed(l, row, stack, ignored) = << >> /\ Level(l, stack, ignored) = stack
        BY <1>1 DEF Lexed, Level
    <2>2. s \o << >> = s
        BY ConcatEmptySeq
    <2>3. ~Has(l, "(") /\ ~Has(l, ")")
        BY <1>1 DEF NoCharacters, Blank, Silent, Has
    <2> QED BY <2>1, <2>2, <2>3 DEF Ignores
<1>2. CASE ~NoCharacters(l)
    <2> DEFINE u == Laid(l, row, stack, ignored)
               w == Worded(l, row)
               t == s \o u
    <2>1. Lexed(l, row, stack, ignored) = u \o w
        BY <1>2 DEF Lexed, Laid
    <2>2. u \in Seq(Tokens) /\ \A k \in 1..Len(u) : ~ignored /\ u[k].type \in {"indent", "dedent"}
        BY LaidKinds
    <2>3. t \in Seq(Tokens)
        BY <2>2, ConcatProperties
    <2>4. s \o (u \o w) = t \o w
        <3>1. w \in Seq(Tokens)
            BY <1>0
        <3> HIDE DEF u, w
        <3> QED BY <2>2, <3>1, ConcatAssociative
    <2>5. Balanced(t, Level(l, stack, ignored))
        <3>1. CASE ignored
            <4>1. u = << >> /\ Level(l, stack, ignored) = stack /\ s \o << >> = s
                BY <3>1, ConcatEmptySeq DEF Laid, Level
            <4> QED BY <4>1
        <3>2. CASE ~ignored
            <4>1. u = Layout(stack, l.indent, row) /\ Level(l, stack, ignored) = Stack(stack, l.indent)
                BY <1>2, <3>2 DEF Laid, Level
            <4>2. Balanced(s \o Layout(stack, l.indent, row), Stack(stack, l.indent))
                BY <1>0, LayoutBalance
            <4> QED BY <4>1, <4>2
        <3> QED BY <3>1, <3>2
    <2>6. Quiet(t, ignored)
        <3>1. \A k \in 1..Len(u) : u[k].type \notin {"(", ")"} /\ (ignored => Plain(u[k].type))
            BY <2>2
        <3> HIDE DEF u
        <3> QED BY <2>2, <3>1, UnbracketedQuiet
    <2> HIDE DEF u, t
    <2>7. \A k \in 1..Len(w) : Plain(w[k].type)
        <3>1. l.words \in Seq(Words) /\ Len(l.words) \in Nat /\ DOMAIN l.words = 1..Len(l.words)
            BY LenProperties DEF Lines
        <3>2. Len(w) = Len(l.words)
            BY WordedType
        <3>3. \A k \in 1..Len(l.words) : l.words[k] \in Words /\ w[k].type = l.words[k]
            BY <3>1, ElementOfSeq DEF Worded, Token
        <3> QED BY <3>2, <3>3 DEF Plain, Words
    <2>8. Quiet(t \o w, Ignores(l, ignored))
        BY <2>3, <2>6, WordsQuiet
    <2> HIDE DEF w
    <2>9. Balanced(t \o w, Level(l, stack, ignored))
        BY <1>0, <2>3, <2>5, <2>7, PlainBalance DEF w
    <2> QED BY <2>1, <2>4, <2>8, <2>9
<1> QED BY <1>1, <1>2

-----------------------------------------------------------------------------
(* The invariant of the list                                                 *)

BlockInv == TypeOK /\ Balanced(token_list, indent_stack) /\ Quiet(token_list, ignoring)

LEMMA InitBlocks == Init => BlockInv
<1> SUFFICES ASSUME Init PROVE BlockInv
    OBVIOUS
<1>1. TypeOK
    BY InitHolds DEF IInv
<1>2. token_list = << >> /\ indent_stack = <<0>> /\ ignoring = FALSE
    BY DEF Init
<1>3. ASSUME NEW type PROVE CountIn(<< >>, 0, type) = 0
    <2>1. {k \in 1..0 : << >>[k].type = type} = {}
        OBVIOUS
    <2> QED BY <2>1, FS_EmptySet DEF CountIn
<1>4. DepthIn(<< >>, 0) = 0
    BY <1>3 DEF DepthIn
<1>5. Balanced(token_list, indent_stack)
    BY <1>2, <1>4 DEF Balanced
<1>6. Quiet(token_list, ignoring)
    BY <1>2 DEF Quiet, OpenIn
<1> QED BY <1>1, <1>5, <1>6 DEF BlockInv

\* Reading on keeps it.
LEMMA AdvanceBlocks ==
    ASSUME BlockInv, NEW i \in 0..Len(source), Takes(i), Advance(i)
    PROVE  Balanced(token_list', indent_stack') /\ Quiet(token_list', ignoring')
<1> USE DEF BlockInv
<1>1. CASE ~Reads
    BY <1>1 DEF Advance, Ahead
<1>2. CASE Reads
    <2> DEFINE lexed == Lexed(source[i], Row(i), indent_stack, ignoring)
               t == token_list \o lexed
    <2>1. source[i] \in Lines /\ Row(i) \in Nat /\ Eof(i) \in Seq(Tokens)
        BY <1>2, TakenLine
    <2>2. /\ token_list' = t \o Eof(i)
          /\ indent_stack' = Level(source[i], indent_stack, ignoring)
          /\ ignoring' = Ignores(source[i], ignoring)
        BY <1>2 DEF Advance, Ahead, LexLine
    <2>3. token_list \in Seq(Tokens) /\ ignoring \in BOOLEAN /\ Sorted(indent_stack)
        BY TypeSorted DEF TypeOK
    <2>4. lexed \in Seq(Tokens)
        BY <2>1, <2>3, LexedType
    <2>5. Balanced(t, indent_stack') /\ Quiet(t, ignoring')
        BY <2>1, <2>2, <2>3, LexedKeeps
    <2>6. t \in Seq(Tokens)
        BY <2>3, <2>4, ConcatProperties
    <2> HIDE DEF lexed, t
    <2>7. \A k \in 1..Len(Eof(i)) : Eof(i)[k].type = "eof"
        BY DEF Eof, Token
    <2>8. ignoring' \in BOOLEAN
        BY AdvanceType
    <2>9. Balanced(t \o Eof(i), indent_stack')
        BY <2>1, <2>5, <2>6, <2>7, PlainBalance DEF Plain
    <2>10. Quiet(t \o Eof(i), ignoring')
        BY <2>1, <2>5, <2>6, <2>7, <2>8, UnbracketedQuiet DEF Plain
    <2> QED BY <2>2, <2>9, <2>10
<1> QED BY <1>1, <1>2

LEMMA StepBlocks == IInv /\ BlockInv /\ [Step]_vars => BlockInv'
<1> SUFFICES ASSUME IInv, BlockInv, [Step]_vars PROVE BlockInv'
    OBVIOUS
<1>1. TypeOK'
    BY StepKeeps DEF IInv
<1>2. CASE \E i \in 0..Len(source) : Takes(i) /\ Advance(i)
    BY <1>1, <1>2, AdvanceBlocks DEF BlockInv
<1>3. CASE UNCHANGED stream
    BY <1>1, <1>3 DEF BlockInv, stream
<1>4. (\E i \in 0..Len(source) : Takes(i) /\ Advance(i)) \/ UNCHANGED stream
    BY DEF Step, Next, NextFails, Peek, PeekFails, Fails, Current, Back, Jump, vars
<1> QED BY <1>2, <1>3, <1>4

LEMMA BlocksAlways == Spec => []BlockInv
<1>1. Init /\ [][Step]_vars => []BlockInv
    BY InitBlocks, StepBlocks, Invariance, PTL DEF Spec
<1> QED BY <1>1 DEF Spec

\* Every dedent closes a block that an indent opened, and the blocks open at
\* the end of the list are those on the stack, whatever the source.
THEOREM Blocks == Spec => []BlocksBalance
<1>1. BlockInv => BlocksBalance
    BY DEF BlockInv, Balanced, DepthIn, CountIn, BlocksBalance, Depth, Layouts
<1> QED BY <1>1, BlocksAlways, PTL

\* No line between an opening parenthesis and the next closing one opens or
\* closes a block: of all rows, those read again at the end among them.
THEOREM Parentheses == Spec => []QuietInParentheses
<1>1. BlockInv => QuietInParentheses
    <2> SUFFICES ASSUME BlockInv, NEW n \in DOMAIN token_list, token_list[n].type \in {"indent", "dedent"}
                 PROVE  ~InParentheses(n)
        BY DEF QuietInParentheses
    <2>1. n \in 1..Len(token_list)
        BY LenProperties DEF BlockInv, TypeOK
    <2>2. ~OpenIn(token_list, n)
        BY <2>1 DEF BlockInv, Quiet
    <2> QED BY <2>2 DEF OpenIn, InParentheses
<1> QED BY <1>1, BlocksAlways, PTL

=============================================================================
