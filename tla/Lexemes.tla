------------------------------ MODULE Lexemes ------------------------------
(* lex_line and the lex_* functions it calls, one for each kind of word: the  *)
(* type of the token that a word becomes, and its text. What is a number and  *)
(* what a string is given; the words are those that are lexed without report. *)
EXTENDS TLC

Punctuation ==
    "(" :> "parentheses" @@ ")" :> "parentheses" @@ "[" :> "square_bracket" @@ "]" :> "square_bracket"
        @@ "," :> "separator" @@ ";" :> "semicolon" @@ ":" :> "colon"

\* Of the operators' characters, those that the sources here put together.
Operators == {"+", "-", "~", "!", "*", "&&", "==", "<", ">", "=", "+="}

\* else and none are not among them.
keywords == {"new", "var", "array", "object", "fn", "ret", "for", "while", "do", "unless", "uses", "if"}

Lexeme(word, numbers, strings) ==
    [str |-> word, type |->
        CASE word \in DOMAIN Punctuation -> Punctuation[word]
          [] word \in Operators          -> "op"
          [] word \in keywords           -> "keyword"
          [] word \in numbers            -> "number"
          [] word \in strings            -> "string"
          [] OTHER                       -> "ident"]

=============================================================================
