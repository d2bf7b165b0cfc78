---------------------------- MODULE ErrorManager ----------------------------
(* error_manager: keeps what the lexer, the parser, the compiler and the     *)
(* unit manager report until it is dumped into report holes. It has a lock   *)
(* and an atomic counter, so that several of them may report at once; what   *)
(* the lock leaves out are steps of their own here.                          *)
EXTENDS Integers, Sequences, FiniteSets

CONSTANTS
    Callers,      \* who reports, withdraws and dumps
    Holes,        \* names of report holes
    Kinds,        \* of errors: see Kind
    MaxThrown     \* bound on errors

\* An error, by whether it counts (error and critical do), by the {} in its
\* description, and by which of its arguments have a {} in them.
Kind == [severe : BOOLEAN, holes : Nat, args : Seq(BOOLEAN)]

ASSUME ErrorManagerAssumption ==
    /\ Kinds \subseteq Kind
    /\ MaxThrown \in Nat
    /\ "free" \notin Callers

VARIABLES
    error_id_counter,
    actual_error,
    errors,             \* the errors kept, by id
    error_dump_holes,   \* the holes connected
    mut,                \* who has the lock, "free" if nobody
    pc,                 \* where each caller is in what it called
    mine,               \* the error each caller throws
    total,              \* actual_error as each caller loaded it
    thrown,             \* history: the errors thrown, named by their place in it
    answers,            \* history: errors thrown and the ids returned for them
    dumped,             \* history: the errors that were there when the map was dumped
    withdrawn,          \* history: the ids that error_out erased
    overlapped,         \* history: whether two throws ran at once
    fault

manager == <<error_id_counter, actual_error, errors, error_dump_holes, mut>>
callers == <<pc, mine, total>>
history == <<thrown, answers, dumped, withdrawn, overlapped>>
vars    == <<manager, callers, history, fault>>

Alive == fault = "none"

Error(c) == thrown[mine[c]]

\* Locations in throw_error, and in dump_all_error.
Throwing == {"counting", "counted", "numbered", "holding"}

Goes(c, from, to) == Alive /\ pc[c] = from /\ pc' = [pc EXCEPT ![c] = to]

-----------------------------------------------------------------------------
(* throw_error                                                               *)

Throw(c, kind) ==
    /\ Goes(c, "idle", IF kind.severe THEN "counting" ELSE "counted")
    /\ Len(thrown) < MaxThrown
    /\ thrown' = Append(thrown, kind)
    /\ mine' = [mine EXCEPT ![c] = Len(thrown) + 1]
    /\ total' = [total EXCEPT ![c] = actual_error]
    /\ overlapped' = (overlapped \/ \E d \in Callers : pc[d] \in Throwing)
    /\ UNCHANGED <<manager, answers, dumped, withdrawn, fault>>

\* MUTANT: the total is not stored.
CountedTotal_Lost(c) == actual_error

CountedTotal(c) == total[c] + 1

\* actual_error is no atomic: ++ is a load, in Throw, and a store.
Count(c) ==
    /\ Goes(c, "counting", "counted")
    /\ actual_error' = CountedTotal(c)
    /\ UNCHANGED <<error_id_counter, errors, error_dump_holes, mut, mine, total, history, fault>>

\* MUTANT: the loop asks for an argument after the last.
RunsOut_Late(kind) ==
    \A i \in 0..(Len(kind.args) - 1) :
        kind.holes - i + Cardinality({k \in 1..i : kind.args[k]}) > 0

\* The arguments replace the first {} one after the other, those in what an
\* argument left too. With three of them, the loop looks at no bound (the
\* comma in its condition): it ends when no {} is left.
RunsOut(kind) ==
    /\ Len(kind.args) > 2
    /\ \A i \in 0..Len(kind.args) : kind.holes - i + Cardinality({k \in 1..i : kind.args[k]}) > 0

\* MUTANT: the id is what it was.
Numbered_Same == error_id_counter

Numbered == error_id_counter + 1

Number(c) ==
    /\ Goes(c, "counted", "numbered")
    /\ ~RunsOut(Error(c))
    /\ error_id_counter' = Numbered
    /\ UNCHANGED <<actual_error, errors, error_dump_holes, mut, mine, total, history, fault>>

\* An argument after the last one is read.
NumberFails(c) ==
    /\ Alive /\ pc[c] = "counted" /\ RunsOut(Error(c))
    /\ fault' = "arguments"
    /\ UNCHANGED <<manager, callers, history>>

\* The map is changed while another caller iterates over it or clears it.
Races(c) == \E d \in Callers \ {c} : pc[d] = "dumping"

Race ==
    /\ fault' = "race"
    /\ UNCHANGED <<manager, callers, history>>

Without(table, ids) == [i \in DOMAIN table \ ids |-> table[i]]

\* An id that is taken keeps its error.
Put(table, id, n) ==
    [i \in DOMAIN table \cup {id} |-> IF i \in DOMAIN table THEN table[i] ELSE n]

Emplace(c) ==
    /\ Alive /\ pc[c] = "numbered" /\ mut = "free"
    /\ IF Races(c) THEN Race
       ELSE /\ Goes(c, "numbered", "holding")
            /\ mut' = c
            /\ errors' = Put(errors, error_id_counter, mine[c])
            /\ UNCHANGED <<error_id_counter, actual_error, error_dump_holes, mine, total, history, fault>>

\* The counter is loaded again for the result.
Return(c) ==
    /\ Goes(c, "holding", "idle")
    /\ mut' = "free"
    /\ answers' = answers \cup {[error |-> mine[c], id |-> error_id_counter]}
    /\ UNCHANGED <<error_id_counter, actual_error, errors, error_dump_holes,
                   mine, total, thrown, dumped, withdrawn, overlapped, fault>>

-----------------------------------------------------------------------------
(* The rest                                                                  *)

ErrorOut(c, id) ==
    /\ Alive /\ pc[c] = "idle" /\ mut = "free"
    /\ IF Races(c) THEN Race
       ELSE /\ errors' = Without(errors, {id})
            /\ withdrawn' = withdrawn \cup {id}
            /\ UNCHANGED <<error_id_counter, actual_error, error_dump_holes, mut,
                           callers, thrown, answers, dumped, overlapped, fault>>

Kept == {errors[i] : i \in DOMAIN errors}

\* MUTANT: the last error is left out.
Dumped_Most == {n \in Kept : n < Len(thrown)}

Dumped == Kept

\* dump_all_error gives what is there to the holes, if any, with no lock, ...
Dump(c) ==
    /\ Goes(c, "idle", "dumping")
    /\ dumped' = dumped \cup Dumped
    /\ UNCHANGED <<manager, mine, total, thrown, answers, withdrawn, overlapped, fault>>

\* ... and clears the map.
Clear(c) ==
    /\ Alive /\ pc[c] = "dumping"
    /\ IF Races(c) THEN Race
       ELSE /\ Goes(c, "dumping", "idle")
            /\ errors' = Without(errors, DOMAIN errors)
            /\ UNCHANGED <<error_id_counter, actual_error, error_dump_holes, mut,
                           mine, total, history, fault>>

\* A name that is connected is refused.
Connect(c, name) ==
    /\ Alive /\ pc[c] = "idle" /\ mut = "free" /\ name \notin error_dump_holes
    /\ error_dump_holes' = error_dump_holes \cup {name}
    /\ UNCHANGED <<error_id_counter, actual_error, errors, mut, callers, history, fault>>

\* There is no lock in disconnect: the hole may go while errors are given to it.
Disconnect(c, name) ==
    /\ Alive /\ pc[c] = "idle" /\ name \in error_dump_holes
    /\ IF Races(c) THEN Race
       ELSE /\ error_dump_holes' = error_dump_holes \ {name}
            /\ UNCHANGED <<error_id_counter, actual_error, errors, mut, callers, history, fault>>

-----------------------------------------------------------------------------
(* Behaviour                                                                 *)

Init ==
    /\ error_id_counter = 0
    /\ actual_error = 0
    /\ errors = << >>
    /\ error_dump_holes = {}
    /\ mut = "free"
    /\ pc = [c \in Callers |-> "idle"]
    /\ mine = [c \in Callers |-> 0]
    /\ total = [c \in Callers |-> 0]
    /\ thrown = << >>
    /\ answers = {}
    /\ dumped = {}
    /\ withdrawn = {}
    /\ overlapped = FALSE
    /\ fault = "none"

Step(c) ==
    \/ \E kind \in Kinds : Throw(c, kind)
    \/ Count(c)
    \/ Number(c) \/ NumberFails(c)
    \/ Emplace(c)
    \/ Return(c)
    \/ \E a \in answers : ErrorOut(c, a.id)
    \/ Dump(c)
    \/ Clear(c)
    \/ \E name \in Holes : Connect(c, name) \/ Disconnect(c, name)

Next == \E c \in Callers : Step(c)

Spec == Init /\ [][Next]_vars

-----------------------------------------------------------------------------
(* Properties                                                                *)

\* Who has the lock is between emplace and return, and ids have been counted.
TypeOK ==
    /\ error_id_counter \in Nat
    /\ actual_error \in Nat
    /\ thrown \in Seq(Kinds) /\ Len(thrown) <= MaxThrown
    /\ DOMAIN errors \subseteq 1..error_id_counter
    /\ Kept \subseteq DOMAIN thrown
    /\ error_dump_holes \subseteq Holes
    /\ pc \in [Callers -> Throwing \cup {"idle", "dumping"}]
    /\ \A c \in Callers : pc[c] = "holding" <=> mut = c
    /\ fault \in {"none", "arguments", "race"}

\* No error gets lost: when throw_error has returned, the error is kept until
\* the map is dumped or its own id withdrawn. When two throws overlap, both may
\* find the number of the second, and emplace drops one of the errors.
ErrorsKept ==
    ~overlapped =>
        \A a \in answers : a.error \in Kept \/ a.error \in dumped \/ a.id \in withdrawn

\* An id is the id of the error it was returned for, so that a caller that
\* withdraws an error withdraws its own.
IdsAreTheirs ==
    ~overlapped => \A a \in answers : a.id \in DOMAIN errors => errors[a.id] = a.error

\* get_total_error is what the host decides on whether to go on: it counts
\* the errors that count, once each, those dumped or withdrawn since too.
TotalCounts ==
    (~overlapped /\ \A c \in Callers : pc[c] \in {"idle", "dumping"}) =>
        actual_error = Cardinality({n \in DOMAIN thrown : thrown[n].severe})

\* Arguments are read past the last one only when an argument, which may be the
\* text of a string in the source, has a {} of its own.
ArgumentsSuffice ==
    fault = "arguments" =>
        \E n \in DOMAIN thrown : \E k \in DOMAIN thrown[n].args : thrown[n].args[k]

=============================================================================
