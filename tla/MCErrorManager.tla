--------------------------- MODULE MCErrorManager ---------------------------
(* Two callers, and the kinds of errors whose arguments are enough for their *)
(* descriptions, as those of the repository are.                             *)
EXTENDS ErrorManager

MCKinds ==
    {[severe |-> FALSE, holes |-> 0, args |-> << >>],
     [severe |-> TRUE, holes |-> 3, args |-> <<FALSE, FALSE, FALSE>>],
     [severe |-> TRUE, holes |-> 3, args |-> <<FALSE, FALSE, TRUE>>]}

=============================================================================
