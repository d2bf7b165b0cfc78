---------------------------- MODULE Environment ----------------------------
(* What names mean, as a reader of the language takes them, and no more: a   *)
(* block begins with the meanings that names have around it, a declaration   *)
(* gives a name a new one there, and when the block ends the names have the  *)
(* meanings again that they had before it. Scoping is shown to implement it. *)
EXTENDS Integers, SequencesExt

CONSTANT Names

VARIABLES
    meanings,   \* of each block that is not at its end, innermost last: what
                \* each name means, <<>> if nothing
    newest      \* what was declared last: its name and what tells it from others

Nothing == << >>

\* The names of the innermost block, and of the one around it.
Here   == meanings[Len(meanings)]
Around == meanings[Len(meanings) - 1]

Init == meanings = <<[n \in Names |-> Nothing]>> /\ newest = Nothing

Begin == meanings' = Append(meanings, Here) /\ UNCHANGED newest

\* A name that is declared twice in one block keeps its first meaning, as two
\* parameters of one name do.
Declare ==
    /\ Len(meanings) > 1
    /\ newest' \notin {newest, Nothing}
    /\ \A block \in ToSet(meanings), n \in Names : block[n] # newest'
    /\ \E n \in Names :
        /\ newest'[1] = n
        /\ meanings' = IF Here[n] = Around[n]
                       THEN [meanings EXCEPT ![Len(meanings)] = [@ EXCEPT ![n] = newest']]
                       ELSE meanings

End ==
    /\ Len(meanings) > 1
    /\ meanings' = SubSeq(meanings, 1, Len(meanings) - 1)
    /\ UNCHANGED newest

Next == Begin \/ Declare \/ End

Spec == Init /\ [][Next]_<<meanings, newest>>

=============================================================================
