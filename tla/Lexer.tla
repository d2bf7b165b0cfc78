------------------------------- MODULE Lexer -------------------------------
(* lexer: turns a source into tokens, a line at a time, when the parser comes *)
(* to the end of those it has, and lets it look ahead, go back and jump.      *)
EXTENDS Indentation

CONSTANTS
    Sources,     \* the sources there are
    MaxTokens    \* bound on the list of tokens

-----------------------------------------------------------------------------
(* Sources. A line is its leading spaces, the words that become tokens, how   *)
(* many characters it has that do not (a %, a carriage return), how many dots *)
(* of its numbers are an error (all of them, but one just after a $), whether *)
(* it has tabs, which are passed over, and whether it has a string that does  *)
(* not end (no closing quote, or a backslash). The last line of a source is   *)
(* the one no newline ends, empty when the file ends in one.                  *)

\* Other words than parentheses are not told apart here.
Words == {"word", "(", ")"}

Lines ==
    {l \in [indent : Nat, words : Seq(Words), unknown : Nat, dots : Nat, tabs : BOOLEAN, endless : BOOLEAN] :
        l.dots > 0 => l.words # << >>}

ASSUME LexerAssumption ==
    /\ Sources \subseteq Seq(Lines) \ {<< >>}
    /\ MaxTokens \in Nat

Silent(l) == l.words = << >>

Blank(l) == Silent(l) /\ l.unknown = 0 /\ ~l.endless

NoCharacters(l) == Blank(l) /\ l.indent = 0 /\ ~l.tabs

Has(l, word) == \E k \in DOMAIN l.words : l.words[k] = word

-----------------------------------------------------------------------------
VARIABLES
    source,          \* the lines of global_stream
    read,            \* how many of them getline has taken
    token_list,
    token_pointer,   \* counts from 0
    line,            \* the row of the line last read
    indent_stack,    \* top last
    ignoring,        \* ignore_indent_dendent
    reports,         \* the row of each report to the error manager
    furthest,        \* external: the last place the parser has been at
    shown,           \* external: the token it was last given
    fault            \* why the process is gone or hangs, "none" while it does not

stream == <<read, token_list, line, indent_stack, ignoring, reports>>
reader == <<token_pointer, furthest, shown>>
vars   == <<source, stream, reader, fault>>

Tokens == [type : Words \cup {"indent", "dedent", "eof"}, row : Nat, place : Nat]

nullopt == Token("nullopt", 0, 0)

Alive == fault = "none"

-----------------------------------------------------------------------------
(* The tokens of a line                                                      *)

Worded(l, row) == [k \in DOMAIN l.words |-> Token(l.words[k], row, k)]

\* The last parenthesis of the line sets the flag.
Ignores(l, before) ==
    IF Has(l, "(") \/ Has(l, ")")
    THEN \E k \in DOMAIN l.words :
            l.words[k] = "(" /\ \A j \in DOMAIN l.words : j > k => l.words[j] # ")"
    ELSE before

\* MUTANT: the flag is not looked at.
Lexed_Always(l, row, stack, ignored) ==
    IF NoCharacters(l) THEN << >> ELSE Layout(stack, l.indent, row) \o Worded(l, row)

\* lex_line, which is not called for a line of no characters: its tokens
Lexed(l, row, stack, ignored) ==
    IF NoCharacters(l) THEN << >>
    ELSE (IF ignored THEN << >> ELSE Layout(stack, l.indent, row)) \o Worded(l, row)

Level(l, stack, ignored) ==
    IF ignored \/ NoCharacters(l) THEN stack ELSE Stack(stack, l.indent)

\* Each of the characters is reported, and each of the dots.
Reports(l) == l.unknown + l.dots

\* MUTANT: a line with something wrong is reported, not each thing that is.
LexLine_FirstOnly(l, row) ==
    /\ indent_stack' = Level(l, indent_stack, ignoring)
    /\ ignoring' = Ignores(l, ignoring)
    /\ reports' = IF Reports(l) > 0 THEN Append(reports, row) ELSE reports

LexLine(l, row) ==
    /\ indent_stack' = Level(l, indent_stack, ignoring)
    /\ ignoring' = Ignores(l, ignoring)
    /\ reports' = reports \o [k \in 1..Reports(l) |-> row]

-----------------------------------------------------------------------------
(* next                                                                      *)

\* MUTANT: a line that makes no token of its own is passed over.
Stops_Worded(i) ==
    \/ i = Len(source)
    \/ i \in (read + 1)..Len(source) /\ ~Silent(source[i])

\* getline stops at the first line that has more than spaces, or the last.
\* When all are taken, it leaves crr_line as it was.
Stops(i) ==
    \/ i = Len(source)
    \/ i \in (read + 1)..Len(source) /\ ~Blank(source[i])

StopsFirst(i) == Stops(i) /\ \A j \in (read + 1)..(i - 1) : ~Stops(j)

\* Every try counts.
Row(i) == IF read = Len(source) THEN line + 1 ELSE line + i - read

Eof(i) == IF i = Len(source) THEN <<Token("eof", Row(i) + 1, 0)>> ELSE << >>

\* The list is indexed with a place it does not have.
Outside(list, p) == list # << >> /\ p + 1 \notin DOMAIN list

\* next() looks at the token it is at.
Unreadable == token_pointer >= 0 /\ Outside(token_list, token_pointer)

AtEof == token_pointer + 1 \in DOMAIN token_list /\ token_list[token_pointer + 1].type = "eof"

\* MUTANT: the token at the end is left behind.
Moved_On == token_pointer + 1

Moved == IF AtEof THEN token_pointer ELSE token_pointer + 1

\* MUTANT: a line is read at the start, and then when the parser is past the last token.
Wants_Late == Moved = 0 \/ (token_list # << >> /\ Moved > Len(token_list))

\* One token is kept ahead. token_list.size() - 1 wraps around: of a list
\* without tokens, nothing is near the end.
Wants == Moved = 0 \/ (token_list # << >> /\ Moved >= Len(token_list) - 1)

\* A line is read, and the end of the source marked, again whenever there is
\* nothing left and next() is back at the start.
Reads == ~AtEof /\ Wants

\* How many lines are taken after next().
Takes(i) == IF Reads THEN StopsFirst(i) ELSE i = read

Endless(i) == Reads /\ source[i].endless

Ahead(i) ==
    IF Reads
    THEN token_list \o Lexed(source[i], Row(i), indent_stack, ignoring) \o Eof(i)
    ELSE token_list

Advance(i) ==
    /\ read' = i
    /\ token_list' = Ahead(i)
    /\ IF Reads
       THEN line' = Row(i) /\ LexLine(source[i], Row(i))
       ELSE UNCHANGED <<line, indent_stack, ignoring, reports>>

-----------------------------------------------------------------------------
(* What the parser calls                                                     *)

Room == Alive /\ Len(token_list) < MaxTokens /\ token_pointer < MaxTokens

Reached(p) == furthest' = IF p > furthest THEN p ELSE furthest

Fails(why) ==
    /\ fault' = why
    /\ UNCHANGED <<source, stream, reader>>

Next ==
    /\ Room /\ ~Unreadable
    /\ \E i \in 0..Len(source) :
        /\ Takes(i) /\ ~Endless(i)
        /\ Advance(i)
    /\ token_pointer' = Moved
    /\ Reached(Moved)
    /\ UNCHANGED <<source, shown, fault>>

NextFails ==
    /\ Room
    /\ \/ Unreadable /\ Fails("outside")
       \/ /\ ~Unreadable
          /\ \E i \in DOMAIN source : Takes(i) /\ Endless(i)
          /\ Fails("endless")

\* get_current_token
Shows(list, p) == shown' = IF list = << >> THEN nullopt ELSE list[p + 1]

\* The pointer goes back whether next() moved it or not.
Peek ==
    /\ Room /\ ~Unreadable
    /\ \E i \in 0..Len(source) :
        /\ Takes(i) /\ ~Endless(i)
        /\ ~Outside(Ahead(i), Moved)
        /\ Advance(i)
        /\ Shows(Ahead(i), Moved)
    /\ token_pointer' = Moved - 1
    /\ UNCHANGED <<source, furthest, fault>>

\* Otherwise it fails as next() does, or there is no token to return.
PeekFails ==
    /\ Room /\ ~Unreadable
    /\ \E i \in 0..Len(source) : Takes(i) /\ ~Endless(i) /\ Outside(Ahead(i), Moved)
    /\ Fails("outside")

\* The parser asks for the current token when it has called next.
Current ==
    /\ Alive /\ token_pointer >= 0
    /\ IF Outside(token_list, token_pointer)
       THEN Fails("outside")
       ELSE Shows(token_list, token_pointer) /\ UNCHANGED <<source, stream, token_pointer, furthest, fault>>

Back ==
    /\ Alive
    /\ token_pointer' = IF token_pointer = -1 THEN -1 ELSE token_pointer - 1
    /\ UNCHANGED <<source, stream, furthest, shown, fault>>

\* To where get_pointer was called.
Jump(p) ==
    /\ Alive
    /\ token_pointer' = p
    /\ UNCHANGED <<source, stream, furthest, shown, fault>>

-----------------------------------------------------------------------------
(* Behaviour                                                                 *)

Init ==
    /\ source \in Sources
    /\ read = 0
    /\ token_list = << >>
    /\ token_pointer = -1
    /\ line = 0
    /\ indent_stack = <<0>>
    /\ ignoring = FALSE
    /\ reports = << >>
    /\ furthest = -1
    /\ shown = nullopt
    /\ fault = "none"

Step ==
    \/ Next \/ NextFails
    \/ Peek \/ PeekFails
    \/ Current
    \/ Back
    \/ \E p \in -1..furthest : Jump(p)

Spec == Init /\ [][Step]_vars

-----------------------------------------------------------------------------
(* Properties                                                                *)

\* The stack is sorted and begins with 0; the place of the parser is one it
\* has reached, or just before one.
TypeOK ==
    /\ source \in Sources
    /\ read \in 0..Len(source)
    /\ token_list \in Seq(Tokens)
    /\ furthest \in -1..MaxTokens
    /\ token_pointer \in -1..furthest
    /\ line \in Nat
    /\ indent_stack \in Seq(Nat) \ {<< >>}
    /\ indent_stack[1] = 0
    /\ \A k \in 2..Len(indent_stack) : indent_stack[k - 1] < indent_stack[k]
    /\ ignoring \in BOOLEAN
    /\ reports \in Seq(Nat)
    /\ shown \in Tokens \cup {nullopt}
    /\ fault \in {"none", "outside", "endless"}

IsFirstEof(e) ==
    token_list[e].type = "eof" /\ \A d \in 1..(e - 1) : token_list[d].type # "eof"

\* The first line that has more than spaces has no token.
FirstSilent ==
    \E i \in DOMAIN source :
        /\ ~Blank(source[i]) /\ Silent(source[i])
        /\ \A j \in 1..(i - 1) : Blank(source[j])

\* The end of the source is marked again, and a last line without a newline is
\* lexed again, whenever the parser goes back to the start: however it moves,
\* it is not at what comes after the first mark, unless the source begins with
\* a line without tokens.
NothingAfterEof ==
    ~FirstSilent => \A e \in DOMAIN token_list : IsFirstEof(e) => furthest < e

Layouts(n, type) == Cardinality({k \in 1..n : token_list[k].type = type})

Depth(n) == Layouts(n, "indent") - Layouts(n, "dedent")

\* A dedent closes a block that an indent opened, and the blocks that are open
\* are those on the stack: the parser ends a block at its dedent, whichever
\* line closes how many of them.
BlocksBalance ==
    /\ \A n \in 0..Len(token_list) : Depth(n) >= 0
    /\ Depth(Len(token_list)) = Len(indent_stack) - 1

InParentheses(n) ==
    \E k \in 1..(n - 1) :
        /\ token_list[k].type = "("
        /\ \A j \in (k + 1)..(n - 1) : token_list[j].type # ")"

\* An argument list over several lines has no blocks in it, up to the first
\* parenthesis that closes, which need not be its own.
QuietInParentheses ==
    \A n \in DOMAIN token_list :
        token_list[n].type \in {"indent", "dedent"} => ~InParentheses(n)

InSource == {n \in DOMAIN token_list : token_list[n].row <= Len(source)}

Starts(n) == token_list[n].place = 1

Begins(n, type) == \E k \in 1..n : token_list[k].row = token_list[n].row /\ token_list[k].type = type

\* Two lines that are indented alike, with no line between them that is less
\* but empty ones, are in the same block, except that a line between two open
\* levels is in the lower one, and the next like it opens another.
SameLevelSameBlock ==
    \A n, m \in InSource :
        LET i == token_list[n].row
            j == token_list[m].row
        IN  /\ n < m /\ Starts(n) /\ Starts(m)
            /\ ~InParentheses(n) /\ ~InParentheses(m)
            /\ source[i].indent = source[j].indent
            /\ \A k \in i..j : Blank(source[k]) \/ source[k].indent >= source[i].indent
            => Begins(n, "dedent") \/ Depth(n) = Depth(m)

ReportsOf(row) == Cardinality({k \in DOMAIN reports : reports[k] = row})

\* The line that a row is of: the rows there are not are the last line's.
LineOf(row) == source[IF row < Len(source) THEN row ELSE Len(source)]

\* What the host is shown of a source: everything wrong with a line is reported
\* once, by the row of the line and in the order of the rows, however often the
\* parser goes back over it and whatever lines were passed over; but a last
\* line without a newline is reported in full again whenever the source is
\* found at its end again, by the next row there is not.
ReportedOnce ==
    /\ \A row \in 1..line : ReportsOf(row) = Reports(LineOf(row))
    /\ \A k \in DOMAIN reports : reports[k] \in 1..line
    /\ \A k, j \in DOMAIN reports : k < j => reports[k] <= reports[j]

-----------------------------------------------------------------------------
(* The source as one text                                                    *)

\* Its lines lexed one after the other.
whole[i \in 0..Len(source)] ==
    IF i = 0
    THEN [tokens |-> << >>, stack |-> <<0>>, ignored |-> FALSE]
    ELSE LET w == whole[i - 1]
             l == source[i]
         IN  IF Blank(l) /\ i < Len(source) THEN w
             ELSE [tokens  |-> w.tokens \o Lexed(l, i, w.stack, w.ignored),
                   stack   |-> Level(l, w.stack, w.ignored),
                   ignored |-> Ignores(l, w.ignored)]

Text == whole[Len(source)].tokens \o <<Token("eof", Len(source) + 1, 0)>>

Count(i) == Len(whole[i].tokens) - Len(whole[i - 1].tokens)

Tokenless(i) == Count(i) = 0 /\ ~Blank(source[i])

\* Every string ends, and between the start of the source and a line without
\* tokens, or two of those, is a line with two.
Reliable ==
    /\ \A i \in DOMAIN source : ~source[i].endless
    /\ \A i \in 0..Len(source), j \in 1..(Len(source) - 1) :
          i < j /\ (i = 0 \/ Tokenless(i)) /\ Tokenless(j) => \E k \in (i + 1)..j : Count(k) > 1

Reader == INSTANCE TokenReader WITH text <- Text, pos <- token_pointer, NoToken <- nullopt

\* Whatever the parser calls and however the source is written, the list is the
\* text of the lines read and the levels are those after them; when all are
\* read it begins with the whole text, whose end is marked once, and what
\* follows is of rows that the source does not have.
ListIsText ==
    IF read < Len(source)
    THEN /\ line = read
         /\ [tokens |-> token_list, stack |-> indent_stack, ignored |-> ignoring] = whole[read]
    ELSE /\ line >= Len(source)
         /\ Len(Text) <= Len(token_list)
         /\ \A k \in DOMAIN token_list :
               IF k <= Len(Text) THEN token_list[k] = Text[k] ELSE token_list[k].row > Len(source)

\* Lexing by the line, with a token kept ahead, is as good as having the whole
\* text: whatever the parser calls, it is given the tokens in their order, none
\* lost and none twice, and no token is asked of the list that it does not have.
ReadsAsWhole == [][Reliable => Alive' /\ Reader!Step]_vars

=============================================================================
