---------------------------- MODULE TokenReader ----------------------------
(* What a parser takes the lexer for: a text that is all there, and a place   *)
(* in it. Places count from 0, and -1 is before the text.                     *)
EXTENDS Integers, Sequences

CONSTANT NoToken   \* what is shown before anything was

VARIABLES
    text,       \* the tokens, the last of them the end of the source
    pos,        \* the place of the current one
    furthest,   \* the last place there has been
    shown       \* what the reader was last given

place == <<pos, furthest, shown>>

AtEnd == pos = Len(text) - 1

Moved == IF AtEnd THEN pos ELSE pos + 1

Reached(p) == furthest' = IF p > furthest THEN p ELSE furthest

Next ==
    /\ pos' = Moved
    /\ Reached(Moved)
    /\ UNCHANGED shown

Back ==
    /\ pos' = IF pos = -1 THEN pos ELSE pos - 1
    /\ UNCHANGED <<furthest, shown>>

Current ==
    /\ pos >= 0
    /\ shown' = text[pos + 1]
    /\ UNCHANGED <<pos, furthest>>

\* The next token, without going there; but a look past the end goes back.
Peek ==
    /\ shown' = text[Moved + 1]
    /\ pos' = Moved - 1
    /\ UNCHANGED furthest

Jump ==
    /\ pos' \in -1..furthest
    /\ UNCHANGED <<furthest, shown>>

Begin ==
    /\ pos = -1
    /\ furthest = -1
    /\ shown = NoToken

Step == Next \/ Back \/ Current \/ Peek \/ Jump

=============================================================================
