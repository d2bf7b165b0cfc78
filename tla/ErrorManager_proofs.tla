------------------------ MODULE ErrorManager_proofs ------------------------
(* Theorems about the error manager, for any callers, holes and errors.      *)
EXTENDS ErrorManager, SequenceTheorems, FiniteSetTheorems, TLAPS

Types ==
    /\ TypeOK
    /\ mine \in [Callers -> Nat]
    /\ total \in [Callers -> Nat]
    /\ \A c \in Callers : pc[c] \in Throwing => mine[c] \in 1..Len(thrown)
    /\ \A c \in Callers : pc[c] \in {"numbered", "holding"} => error_id_counter # 0

\* What a caller iterates over does not change before it clears it.
DumpsWhole == \A c \in Callers : pc[c] = "dumping" => Kept \subseteq dumped

\* An id and the error it was returned for are in one entry, or in none.
Paired(id, n) == \A i \in DOMAIN errors : errors[i] = n <=> i = id

\* When throws do not overlap: the one that runs, if any, has an error that
\* is new until it is emplaced, under a number that is.
OneThrow ==
    /\ \A c, d \in Callers : pc[c] \in Throwing /\ pc[d] \in Throwing => c = d
    /\ \A c \in Callers :
        /\ pc[c] \in {"counting", "counted", "numbered"} => mine[c] \notin Kept
        /\ pc[c] = "numbered" => error_id_counter \notin DOMAIN errors
        /\ pc[c] = "holding" =>
              /\ Paired(error_id_counter, mine[c])
              /\ error_id_counter \in DOMAIN errors \/ mine[c] \in dumped

Answered ==
    \A a \in answers :
        /\ a.error \in 1..Len(thrown) /\ a.id \in 1..error_id_counter
        /\ Paired(a.id, a.error)
        /\ a.error \in Kept \/ a.error \in dumped \/ a.id \in withdrawn
        /\ \A c \in Callers :
              /\ pc[c] \in Throwing => mine[c] # a.error
              /\ pc[c] \in {"numbered", "holding"} => a.id # error_id_counter

IInv ==
    /\ Types
    /\ DumpsWhole
    /\ ~overlapped => OneThrow /\ Answered

-----------------------------------------------------------------------------
(* The steps                                                                 *)

LEMMA InitHolds == Init => IInv
<1> SUFFICES ASSUME Init PROVE IInv
    OBVIOUS
<1>1. Kept = {} /\ DOMAIN errors = {}
    BY DEF Init, Kept
<1>2. Types
    BY <1>1, ErrorManagerAssumption DEF Init, Types, TypeOK, Throwing
<1>3. DumpsWhole /\ OneThrow /\ Answered
    BY <1>1 DEF Init, DumpsWhole, OneThrow, Answered, Throwing
<1> QED BY <1>2, <1>3 DEF IInv

\* A step that changes neither the table nor what is known of errors, and
\* takes no caller into a throw or a dump.
LEMMA StillKeeps ==
    ASSUME IInv, UNCHANGED <<error_id_counter, errors, mut, mine, thrown, answers,
                             dumped, withdrawn, overlapped, pc, total>>,
           actual_error' \in Nat, error_dump_holes' \subseteq Holes,
           fault' \in {"none", "arguments", "race"}
    PROVE  IInv'
<1>1. Types'
    BY DEF IInv, Types, TypeOK, Kept
<1>2. DumpsWhole' /\ (~overlapped' => OneThrow' /\ Answered')
    BY DEF IInv, DumpsWhole, OneThrow, Answered, Paired, Kept
<1> QED BY <1>1, <1>2 DEF IInv

LEMMA ThrowKeeps ==
    ASSUME IInv, NEW c \in Callers, NEW kind \in Kinds, Throw(c, kind)
    PROVE  IInv'
<1>1. /\ thrown \in Seq(Kinds) /\ Len(thrown) \in Nat
      /\ thrown' \in Seq(Kinds) /\ Len(thrown') = Len(thrown) + 1
      /\ Len(thrown') <= MaxThrown
      /\ \A k \in 1..Len(thrown) : thrown'[k] = thrown[k]
      /\ DOMAIN thrown = 1..Len(thrown) /\ DOMAIN thrown' = 1..(Len(thrown) + 1)
    BY AppendProperties, LenProperties, ErrorManagerAssumption DEF IInv, Types, TypeOK, Throw
<1>2. /\ pc[c] = "idle" /\ pc \in [Callers -> Throwing \cup {"idle", "dumping"}]
      /\ pc' \in [Callers -> Throwing \cup {"idle", "dumping"}]
      /\ pc'[c] \in {"counting", "counted"}
      /\ \A d \in Callers \ {c} : pc'[d] = pc[d]
    BY DEF Throw, Goes, IInv, Types, TypeOK, Throwing
<1>3. /\ mine' \in [Callers -> Nat] /\ mine'[c] = Len(thrown) + 1
      /\ \A d \in Callers \ {c} : mine'[d] = mine[d]
    BY <1>1 DEF Throw, IInv, Types
<1>4. UNCHANGED <<manager, answers, dumped, withdrawn, fault>> /\ Kept' = Kept
    BY DEF Throw, manager, Kept
<1>5. Types'
    <2>1. total' \in [Callers -> Nat]
        BY DEF Throw, IInv, Types, TypeOK
    <2>2. \A d \in Callers : pc'[d] = "holding" <=> mut' = d
        BY <1>2, <1>4 DEF IInv, Types, TypeOK, manager
    <2>3. ASSUME NEW d \in Callers, pc'[d] \in Throwing PROVE mine'[d] \in 1..Len(thrown')
        <3>1. CASE d = c
            BY <1>1, <1>3, <3>1
        <3>2. CASE d # c
            <4>1. mine[d] \in 1..Len(thrown) /\ mine'[d] = mine[d]
                BY <1>2, <1>3, <2>3, <3>2 DEF IInv, Types
            <4> QED BY <1>1, <4>1
        <3> QED BY <3>1, <3>2
    <2>4. Kept' \subseteq DOMAIN thrown'
        BY <1>1, <1>4 DEF IInv, Types, TypeOK
    <2>5. \A d \in Callers : pc'[d] \in {"numbered", "holding"} => error_id_counter' # 0
        BY <1>2, <1>4 DEF IInv, Types, manager
    <2> QED BY <1>1, <1>2, <1>3, <1>4, <2>1, <2>2, <2>3, <2>4, <2>5 DEF IInv, Types, TypeOK, manager
<1>6. DumpsWhole'
    BY <1>2, <1>4 DEF IInv, DumpsWhole
<1>7. ASSUME ~overlapped' PROVE OneThrow' /\ Answered'
    <2>1. ~overlapped /\ \A d \in Callers : pc[d] \notin Throwing
        BY <1>7 DEF Throw
    <2>2. Kept \subseteq 1..Len(thrown)
        BY <1>1 DEF IInv, Types, TypeOK
    <2>3. OneThrow'
        BY <1>1, <1>2, <1>3, <1>4, <2>1, <2>2 DEF OneThrow, Throwing
    <2>4. Answered /\ UNCHANGED <<errors, error_id_counter>>
        BY <1>4, <2>1 DEF IInv, manager
    <2>5. Answered'
        BY <1>1, <1>2, <1>3, <1>4, <2>1, <2>4 DEF Answered, Paired, Throwing
    <2> QED BY <2>3, <2>5
<1> QED BY <1>5, <1>6, <1>7 DEF IInv

\* A caller goes on with its throw, and the table stays as it is.
LEMMA GoesOnKeeps ==
    ASSUME IInv, NEW c \in Callers, NEW from \in {"counting", "counted"}, NEW to,
           Goes(c, from, to),
           \/ to = "counted" /\ error_id_counter' = error_id_counter
           \/ to = "numbered" /\ error_id_counter' = error_id_counter + 1,
           actual_error' \in Nat,
           UNCHANGED <<errors, error_dump_holes, mut, mine, total, history, fault>>
    PROVE  IInv'
<1>1. /\ pc[c] = from /\ pc \in [Callers -> Throwing \cup {"idle", "dumping"}]
      /\ pc' \in [Callers -> Throwing \cup {"idle", "dumping"}]
      /\ pc'[c] = to /\ \A d \in Callers \ {c} : pc'[d] = pc[d]
    BY DEF Goes, IInv, Types, TypeOK, Throwing
<1>2. /\ error_id_counter \in Nat /\ error_id_counter' \in Nat
      /\ error_id_counter <= error_id_counter'
      /\ to = "numbered" => error_id_counter' > error_id_counter
      /\ DOMAIN errors \subseteq 1..error_id_counter
    BY DEF IInv, Types, TypeOK
<1>3. Kept' = Kept /\ UNCHANGED <<thrown, answers, dumped, withdrawn, overlapped>>
    BY DEF Kept, history
<1>4. Types'
    <2>1. \A d \in Callers : pc'[d] = "holding" <=> mut' = d
        BY <1>1 DEF IInv, Types, TypeOK
    <2>2. \A d \in Callers : pc'[d] \in Throwing => mine'[d] \in 1..Len(thrown')
        BY <1>1, <1>3 DEF IInv, Types, Throwing
    <2>3. \A d \in Callers : pc'[d] \in {"numbered", "holding"} => error_id_counter' # 0
        BY <1>1, <1>2 DEF IInv, Types
    <2> QED BY <1>1, <1>2, <1>3, <2>1, <2>2, <2>3 DEF IInv, Types, TypeOK
<1>5. DumpsWhole'
    BY <1>1, <1>3 DEF IInv, DumpsWhole
<1>6. ASSUME ~overlapped' PROVE OneThrow' /\ Answered'
    <2>1. OneThrow /\ Answered
        BY <1>3, <1>6 DEF IInv
    <2>2. \A d \in Callers \ {c} : pc[d] \notin Throwing
        BY <1>1, <2>1 DEF OneThrow, Throwing
    <2>3. OneThrow'
        BY <1>1, <1>2, <1>3, <2>1, <2>2 DEF OneThrow, Throwing
    <2>4. \A a \in answers : a.id \in 1..error_id_counter' /\ (to = "numbered" => a.id # error_id_counter')
        BY <1>2, <2>1 DEF Answered
    <2>5. Answered'
        BY <1>1, <1>3, <2>1, <2>2, <2>4 DEF Answered, Paired, Throwing
    <2> QED BY <2>3, <2>5
<1> QED BY <1>4, <1>5, <1>6 DEF IInv

LEMMA EmplaceKeeps ==
    ASSUME IInv, NEW c \in Callers, Emplace(c), ~Races(c)
    PROVE  IInv'
<1>1. /\ pc[c] = "numbered" /\ pc \in [Callers -> Throwing \cup {"idle", "dumping"}]
      /\ pc' \in [Callers -> Throwing \cup {"idle", "dumping"}]
      /\ pc'[c] = "holding" /\ \A d \in Callers \ {c} : pc'[d] = pc[d]
      /\ \A d \in Callers \ {c} : pc[d] # "dumping"
    BY DEF Emplace, Goes, Races, IInv, Types, TypeOK, Throwing
<1>2. /\ mut = "free" /\ mut' = c
      /\ UNCHANGED <<error_id_counter, actual_error, error_dump_holes, mine, total, history, fault>>
    BY DEF Emplace
<1>3. UNCHANGED <<thrown, answers, dumped, withdrawn, overlapped>>
    BY <1>2 DEF history
<1>4. /\ DOMAIN errors' = DOMAIN errors \cup {error_id_counter}
      /\ \A i \in DOMAIN errors : errors'[i] = errors[i]
      /\ error_id_counter \notin DOMAIN errors => errors'[error_id_counter] = mine[c]
    BY DEF Emplace, Put
<1>5. Kept \subseteq Kept' /\ Kept' \subseteq Kept \cup {mine[c]}
    BY <1>4 DEF Kept
<1>6. /\ mine[c] \in 1..Len(thrown) /\ DOMAIN thrown = 1..Len(thrown)
      /\ error_id_counter \in Nat \ {0}
    BY <1>1, LenProperties DEF IInv, Types, TypeOK, Throwing
<1>7. \A d \in Callers : pc'[d] = "holding" <=> mut' = d
    BY <1>1, <1>2, ErrorManagerAssumption DEF IInv, Types, TypeOK
<1>8. \A d \in Callers : pc'[d] \in Throwing => mine'[d] \in 1..Len(thrown')
    BY <1>1, <1>2, <1>3 DEF IInv, Types, Throwing
<1>9. DOMAIN errors' \subseteq 1..error_id_counter'
    BY <1>2, <1>4, <1>6 DEF IInv, Types, TypeOK
<1>10. Kept' \subseteq DOMAIN thrown'
    BY <1>3, <1>5, <1>6 DEF IInv, Types, TypeOK
<1>11. Types'
    <2>1. \A d \in Callers : pc'[d] \in {"numbered", "holding"} => error_id_counter' # 0
        BY <1>2, <1>6
    <2> QED BY <1>1, <1>2, <1>3, <1>7, <1>8, <1>9, <1>10, <2>1 DEF IInv, Types, TypeOK
<1>12. DumpsWhole'
    BY <1>1 DEF DumpsWhole
<1>13. ASSUME ~overlapped' PROVE OneThrow' /\ Answered'
    <2>1. OneThrow /\ Answered
        BY <1>3, <1>13 DEF IInv
    <2>2. error_id_counter \notin DOMAIN errors /\ mine[c] \notin Kept
        BY <1>1, <2>1 DEF OneThrow
    <2>3. \A d \in Callers \ {c} : pc[d] \notin Throwing
        BY <1>1, <2>1 DEF OneThrow, Throwing
    <2>4. Paired(error_id_counter, mine[c])'
        BY <1>2, <1>4, <2>2 DEF Paired, Kept
    <2>5. OneThrow'
        BY <1>1, <1>2, <1>4, <2>3, <2>4 DEF OneThrow, Throwing
    <2>6. ASSUME NEW a \in answers PROVE Paired(a.id, a.error)'
        <3>1. Paired(a.id, a.error) /\ a.id # error_id_counter /\ mine[c] # a.error
            BY <1>1, <2>1 DEF Answered, Throwing
        <3> QED BY <1>4, <2>2, <3>1 DEF Paired
    <2>7. Answered'
        BY <1>1, <1>2, <1>3, <1>5, <2>1, <2>3, <2>6 DEF Answered, Throwing
    <2> QED BY <2>5, <2>7
<1> QED BY <1>11, <1>12, <1>13 DEF IInv

LEMMA ReturnKeeps ==
    ASSUME IInv, NEW c \in Callers, Return(c)
    PROVE  IInv'
<1> DEFINE new == [error |-> mine[c], id |-> error_id_counter]
<1>1. /\ pc[c] = "holding" /\ pc \in [Callers -> Throwing \cup {"idle", "dumping"}]
      /\ pc' \in [Callers -> Throwing \cup {"idle", "dumping"}]
      /\ pc'[c] = "idle" /\ \A d \in Callers \ {c} : pc'[d] = pc[d]
    BY DEF Return, Goes, IInv, Types, TypeOK, Throwing
<1>2. /\ mut' = "free" /\ answers' = answers \cup {new}
      /\ UNCHANGED <<error_id_counter, actual_error, errors, error_dump_holes,
                     mine, total, thrown, dumped, withdrawn, overlapped, fault>>
    BY DEF Return
<1>3. Kept' = Kept
    BY <1>2 DEF Kept
<1>4. mut = c
    BY <1>1 DEF IInv, Types, TypeOK
<1>5. \A d \in Callers : pc'[d] = "holding" <=> mut' = d
    BY <1>1, <1>2, <1>4, ErrorManagerAssumption DEF IInv, Types, TypeOK
<1>6. Types'
    BY <1>1, <1>2, <1>3, <1>5 DEF IInv, Types, TypeOK, Throwing
<1>7. DumpsWhole'
    BY <1>1, <1>2, <1>3 DEF IInv, DumpsWhole
<1>8. ASSUME ~overlapped' PROVE OneThrow' /\ Answered'
    <2>1. OneThrow /\ Answered
        BY <1>2, <1>8 DEF IInv
    <2>2. \A d \in Callers : pc'[d] \notin Throwing
        BY <1>1, <2>1 DEF OneThrow, Throwing
    <2>3. OneThrow'
        BY <2>2 DEF OneThrow, Throwing
    <2>4. /\ new.error = mine[c] /\ new.id = error_id_counter
          /\ mine[c] \in 1..Len(thrown) /\ error_id_counter \in 1..error_id_counter
        BY <1>1 DEF IInv, Types, TypeOK, Throwing
    <2>5. /\ Paired(error_id_counter, mine[c])
          /\ mine[c] \in Kept \/ mine[c] \in dumped
        BY <1>1, <2>1 DEF OneThrow, Paired, Kept
    <2> HIDE DEF new
    <2>6. ASSUME NEW a \in answers'
          PROVE  /\ a.error \in 1..Len(thrown') /\ a.id \in 1..error_id_counter'
                 /\ Paired(a.id, a.error)'
                 /\ a.error \in Kept' \/ a.error \in dumped' \/ a.id \in withdrawn'
        <3>1. CASE a = new
            BY <1>2, <1>3, <2>4, <2>5, <3>1 DEF Paired
        <3>2. CASE a \in answers
            BY <1>2, <1>3, <2>1, <3>2 DEF Answered, Paired
        <3> QED BY <1>2, <3>1, <3>2
    <2>7. Answered'
        BY <2>2, <2>6 DEF Answered, Throwing
    <2> QED BY <2>3, <2>7
<1> QED BY <1>6, <1>7, <1>8 DEF IInv

\* Entries are taken out of the table while nobody is between emplacing and
\* returning, or all of them were dumped.
LEMMA TakenOutKeeps ==
    ASSUME IInv, NEW c \in Callers, NEW ids, errors' = Without(errors, ids),
           UNCHANGED <<error_id_counter, actual_error, error_dump_holes, mut, mine, total,
                       thrown, answers, dumped, overlapped, fault>>,
           withdrawn \subseteq withdrawn',
           \/ ids \subseteq withdrawn' /\ mut = "free" /\ pc' = pc /\ \A d \in Callers \ {c} : pc[d] # "dumping"
           \/ Kept \subseteq dumped /\ pc' = [pc EXCEPT ![c] = "idle"] /\ pc[c] = "dumping"
    PROVE  IInv'
<1>1. /\ DOMAIN errors' = DOMAIN errors \ ids
      /\ \A i \in DOMAIN errors' : errors'[i] = errors[i]
    BY DEF Without
<1>2. Kept' \subseteq Kept
    BY <1>1 DEF Kept
<1>3. /\ pc \in [Callers -> Throwing \cup {"idle", "dumping"}]
      /\ pc' \in [Callers -> Throwing \cup {"idle", "dumping"}]
      /\ \A d \in Callers : pc'[d] = pc[d] \/ (d = c /\ pc'[d] = "idle" /\ pc[d] = "dumping")
    BY DEF IInv, Types, TypeOK, Throwing
<1>4. \A d \in Callers : pc'[d] = "holding" <=> pc[d] = "holding"
    BY <1>3
<1>5. Types'
    BY <1>1, <1>2, <1>3, <1>4 DEF IInv, Types, TypeOK, Throwing
<1>6. DumpsWhole'
    BY <1>2, <1>3 DEF IInv, DumpsWhole
<1>7. ASSUME ~overlapped' PROVE OneThrow' /\ Answered'
    <2>1. OneThrow /\ Answered
        BY <1>7 DEF IInv
    <2>2. \A d \in Callers : pc'[d] \in Throwing => pc'[d] = pc[d]
        BY <1>3 DEF Throwing
    <2>3. ASSUME NEW d \in Callers, pc'[d] = "holding"
          PROVE  /\ Paired(error_id_counter, mine[d])'
                 /\ error_id_counter' \in DOMAIN errors' \/ mine'[d] \in dumped'
        <3>1. pc[d] = "holding" /\ mut = d
            BY <1>3, <2>3 DEF IInv, Types, TypeOK
        <3>2. Kept \subseteq dumped
            BY <3>1, ErrorManagerAssumption
        <3>3. Paired(error_id_counter, mine[d]) /\ (error_id_counter \in DOMAIN errors \/ mine[d] \in dumped)
            BY <2>1, <3>1 DEF OneThrow
        <3> QED BY <1>1, <3>2, <3>3 DEF Paired, Kept
    <2>4. OneThrow'
        BY <1>1, <1>2, <2>1, <2>2, <2>3 DEF OneThrow, Throwing
    <2>5. ASSUME NEW a \in answers
          PROVE  /\ Paired(a.id, a.error)'
                 /\ a.error \in Kept' \/ a.error \in dumped' \/ a.id \in withdrawn'
        <3>1. /\ Paired(a.id, a.error)
              /\ a.error \in Kept \/ a.error \in dumped \/ a.id \in withdrawn
            BY <2>1 DEF Answered
        <3>2. CASE a.error \in Kept \ Kept'
            <4>1. PICK i \in DOMAIN errors : errors[i] = a.error
                BY <3>2 DEF Kept
            <4>2. i = a.id /\ i \in ids
                BY <1>1, <3>1, <3>2, <4>1 DEF Paired, Kept
            <4> QED BY <1>1, <3>1, <3>2, <4>2 DEF Paired
        <3> QED BY <1>1, <3>1, <3>2 DEF Paired
    <2>6. Answered'
        BY <2>1, <2>2, <2>5 DEF Answered, Throwing
    <2> QED BY <2>4, <2>6
<1> QED BY <1>5, <1>6, <1>7 DEF IInv

LEMMA DumpKeeps ==
    ASSUME IInv, NEW c \in Callers, Dump(c)
    PROVE  IInv'
<1>1. /\ pc[c] = "idle" /\ pc \in [Callers -> Throwing \cup {"idle", "dumping"}]
      /\ pc' \in [Callers -> Throwing \cup {"idle", "dumping"}]
      /\ pc'[c] = "dumping" /\ \A d \in Callers \ {c} : pc'[d] = pc[d]
    BY DEF Dump, Goes, IInv, Types, TypeOK, Throwing
<1>2. dumped' = dumped \cup Kept /\ Kept' = Kept
      /\ UNCHANGED <<manager, mine, total, thrown, answers, withdrawn, overlapped, fault>>
    BY DEF Dump, Dumped, Kept, manager
<1>3. Types'
    BY <1>1, <1>2 DEF IInv, Types, TypeOK, Throwing, manager
<1>4. DumpsWhole'
    BY <1>1, <1>2 DEF IInv, DumpsWhole
<1>5. ASSUME ~overlapped' PROVE OneThrow' /\ Answered'
    <2>1. OneThrow /\ Answered
        BY <1>2, <1>5 DEF IInv
    <2>2. \A d \in Callers : pc'[d] \in Throwing => pc'[d] = pc[d]
        BY <1>1 DEF Throwing
    <2>3. OneThrow'
        BY <1>2, <2>1, <2>2 DEF OneThrow, Throwing, Paired, manager
    <2>4. Answered'
        BY <1>2, <2>1, <2>2 DEF Answered, Throwing, Paired, manager
    <2> QED BY <2>3, <2>4
<1> QED BY <1>3, <1>4, <1>5 DEF IInv

LEMMA StepKeeps == IInv /\ [Next]_vars => IInv'
<1> SUFFICES ASSUME IInv, [Next]_vars PROVE IInv'
    OBVIOUS
<1>0. /\ error_id_counter \in Nat /\ actual_error \in Nat /\ error_dump_holes \subseteq Holes
      /\ fault \in {"none", "arguments", "race"} /\ total \in [Callers -> Nat]
    BY DEF IInv, Types, TypeOK
<1>1. ASSUME Race PROVE IInv'
    BY <1>0, <1>1, StillKeeps DEF Race, manager, callers, history
<1>2. ASSUME NEW c \in Callers, NEW kind \in Kinds, Throw(c, kind) PROVE IInv'
    BY <1>2, ThrowKeeps
<1>3. ASSUME NEW c \in Callers, Count(c) PROVE IInv'
    <2>1. actual_error' \in Nat
        BY <1>0, <1>3 DEF Count, CountedTotal
    <2> QED BY <1>3, <2>1, GoesOnKeeps DEF Count
<1>4. ASSUME NEW c \in Callers, Number(c) PROVE IInv'
    BY <1>0, <1>4, GoesOnKeeps DEF Number, Numbered
<1>5. ASSUME NEW c \in Callers, NumberFails(c) PROVE IInv'
    BY <1>0, <1>5, StillKeeps DEF NumberFails, manager, callers, history
<1>6. ASSUME NEW c \in Callers, Emplace(c) PROVE IInv'
    BY <1>1, <1>6, EmplaceKeeps DEF Emplace
<1>7. ASSUME NEW c \in Callers, Return(c) PROVE IInv'
    BY <1>7, ReturnKeeps
<1>8. ASSUME NEW c \in Callers, NEW id, ErrorOut(c, id) PROVE IInv'
    <2>1. CASE Races(c)
        BY <1>1, <1>8, <2>1 DEF ErrorOut
    <2>2. CASE ~Races(c)
        BY <1>8, <2>2, TakenOutKeeps DEF ErrorOut, callers, Races
    <2> QED BY <2>1, <2>2
<1>9. ASSUME NEW c \in Callers, Dump(c) PROVE IInv'
    BY <1>9, DumpKeeps
<1>10. ASSUME NEW c \in Callers, Clear(c) PROVE IInv'
    <2>1. CASE Races(c)
        BY <1>1, <1>10, <2>1 DEF Clear
    <2>2. CASE ~Races(c)
        <3>1. Kept \subseteq dumped
            BY <1>10 DEF Clear, IInv, DumpsWhole
        <3> QED BY <1>10, <2>2, <3>1, TakenOutKeeps DEF Clear, Goes, history
    <2> QED BY <2>1, <2>2
<1>11. ASSUME NEW c \in Callers, NEW name \in Holes, Connect(c, name) \/ Disconnect(c, name)
       PROVE  IInv'
    BY <1>0, <1>1, <1>11, StillKeeps DEF Connect, Disconnect, callers, history
<1>12. CASE UNCHANGED vars
    BY <1>0, <1>12, StillKeeps DEF vars, manager, callers, history
<1> QED BY <1>2, <1>3, <1>4, <1>5, <1>6, <1>7, <1>8, <1>9, <1>10, <1>11, <1>12 DEF Next, Step

LEMMA Invariance == Spec => []IInv
BY InitHolds, StepKeeps, PTL DEF Spec

-----------------------------------------------------------------------------
(* What follows                                                              *)

\* The lock is held by the caller that is between emplace and return, and the
\* ids in the table are ones that were counted.
THEOREM ErrorTypes == Spec => []TypeOK
<1>1. IInv => TypeOK
    BY DEF IInv, Types
<1> QED BY <1>1, Invariance, PTL

\* Without overlapping throws no error gets lost, whoever withdraws and dumps
\* in between.
THEOREM NoErrorLost == Spec => []ErrorsKept
<1>1. IInv => ErrorsKept
    BY DEF IInv, ErrorsKept, Answered
<1> QED BY <1>1, Invariance, PTL

\* Without overlapping throws an id names the error it was returned for.
THEOREM OwnIds == Spec => []IdsAreTheirs
<1>1. IInv => IdsAreTheirs
    BY DEF IInv, IdsAreTheirs, Answered, Paired
<1> QED BY <1>1, Invariance, PTL

\* One caller, as in all of the repository, cannot overlap with itself.
Alone == \E c : Callers = {c}

InTurn == overlapped = FALSE

THEOREM AloneInTurn == ASSUME Alone PROVE Spec => []InTurn
<1>1. Init => InTurn
    BY DEF Init, InTurn
<1>2. IInv /\ InTurn /\ [Next]_vars => InTurn'
    <2> SUFFICES ASSUME IInv, InTurn, [Next]_vars PROVE InTurn'
        OBVIOUS
    <2>1. ASSUME NEW c \in Callers, NEW kind \in Kinds, Throw(c, kind) PROVE InTurn'
        <3>1. pc[c] = "idle" /\ \A d \in Callers : d = c
            BY <2>1 DEF Throw, Goes, Alone
        <3> QED BY <2>1, <3>1 DEF Throw, InTurn, Throwing
    <2>2. ASSUME UNCHANGED overlapped PROVE InTurn'
        BY <2>2 DEF InTurn
    <2>3. ASSUME NEW c \in Callers, Step(c), ~(\E kind \in Kinds : Throw(c, kind))
          PROVE  UNCHANGED overlapped
        BY <2>3 DEF Step, Count, Number, NumberFails, Emplace, Race, Return, ErrorOut, Dump,
                    Clear, Connect, Disconnect, history
    <2>4. CASE UNCHANGED vars
        BY <2>2, <2>4 DEF vars, history
    <2> QED BY <2>1, <2>2, <2>3, <2>4 DEF Next
<1> QED BY <1>1, <1>2, Invariance, PTL DEF Spec

-----------------------------------------------------------------------------
(* The total, and arguments                                                  *)

Severe == {n \in DOMAIN thrown : thrown[n].severe}

\* The total, in which the error that a caller is counting is missing.
Counts ==
    ~overlapped =>
        \/ /\ \A c \in Callers : pc[c] # "counting"
           /\ actual_error = Cardinality(Severe)
        \/ \E c \in Callers :
             /\ pc[c] = "counting" /\ total[c] = actual_error
             /\ Cardinality(Severe) = actual_error + 1

LEMMA OneMore ==
    ASSUME IInv, NEW c \in Callers, NEW kind \in Kinds, Throw(c, kind)
    PROVE  /\ Cardinality(Severe) \in Nat
           /\ Cardinality(Severe') = Cardinality(Severe) + (IF kind.severe THEN 1 ELSE 0)
<1> DEFINE n == Len(thrown) + 1
<1>1. /\ thrown \in Seq(Kinds) /\ Len(thrown) \in Nat
      /\ DOMAIN thrown = 1..Len(thrown) /\ DOMAIN thrown' = 1..(Len(thrown) + 1)
      /\ \A k \in 1..Len(thrown) : thrown'[k] = thrown[k]
      /\ thrown'[Len(thrown) + 1] = kind
    BY AppendProperties, LenProperties DEF IInv, Types, TypeOK, Throw
<1>2. IsFiniteSet(1..Len(thrown)) /\ Severe \in SUBSET (1..Len(thrown))
    BY <1>1, FS_Interval DEF Severe
<1>3. IsFiniteSet(Severe) /\ Cardinality(Severe) \in Nat
    BY <1>2, FS_Subset, FS_CardinalityType
<1>4. n \notin Severe
    BY <1>1, <1>2
<1>5. Severe' = IF kind.severe THEN Severe \cup {n} ELSE Severe
    <2>1. Severe' = {k \in 1..n : thrown'[k].severe}
        BY <1>1 DEF Severe
    <2>2. Severe = {k \in 1..Len(thrown) : thrown[k].severe}
        BY <1>1 DEF Severe
    <2>3. 1..n = (1..Len(thrown)) \cup {n} /\ n \notin 1..Len(thrown)
        BY <1>1
    <2> HIDE DEF n
    <2>4. thrown'[n] = kind
        BY <1>1 DEF n
    <2> QED BY <1>1, <2>1, <2>2, <2>3, <2>4
<1>6. CASE kind.severe
    <2>1. Cardinality(Severe \cup {n}) = Cardinality(Severe) + 1
        BY <1>3, <1>4, FS_AddElement
    <2> QED BY <1>3, <1>5, <1>6, <2>1
<1>7. CASE ~kind.severe
    BY <1>3, <1>5, <1>7
<1> QED BY <1>6, <1>7

\* A step that moves nobody into or out of counting, and changes no total.
LEMMA StillCounts ==
    ASSUME Counts, UNCHANGED <<actual_error, thrown, total, overlapped>>,
           \A c \in Callers : pc'[c] = "counting" <=> pc[c] = "counting"
    PROVE  Counts'
<1>1. Severe' = Severe
    BY DEF Severe
<1> QED BY <1>1 DEF Counts

LEMMA ThrowCounts ==
    ASSUME IInv, Counts, NEW c \in Callers, NEW kind \in Kinds, Throw(c, kind)
    PROVE  Counts'
<1> SUFFICES ASSUME ~overlapped' PROVE Counts'
    BY DEF Counts
<1>1. ~overlapped /\ \A d \in Callers : pc[d] # "counting"
    BY DEF Throw, Throwing
<1>2. actual_error = Cardinality(Severe) /\ actual_error' = actual_error
    BY <1>1 DEF Counts, Throw, manager
<1>3. /\ pc'[c] = IF kind.severe THEN "counting" ELSE "counted"
      /\ \A d \in Callers \ {c} : pc'[d] = pc[d]
      /\ total'[c] = actual_error
    BY DEF Throw, Goes, IInv, Types, TypeOK
<1>4. CASE kind.severe
    BY <1>2, <1>3, <1>4, OneMore DEF Counts
<1>5. CASE ~kind.severe
    BY <1>1, <1>2, <1>3, <1>5, OneMore DEF Counts
<1> QED BY <1>4, <1>5

LEMMA CountCounts ==
    ASSUME IInv, Counts, NEW c \in Callers, Count(c)
    PROVE  Counts'
<1> SUFFICES ASSUME ~overlapped' PROVE Counts'
    BY DEF Counts
<1>1. /\ pc[c] = "counting" /\ ~overlapped /\ pc'[c] = "counted"
      /\ \A d \in Callers \ {c} : pc'[d] = pc[d]
    BY DEF Count, Goes, history, IInv, Types, TypeOK
<1>2. \A d \in Callers : pc[d] = "counting" => d = c
    BY <1>1 DEF IInv, OneThrow, Throwing
<1>3. total[c] = actual_error /\ Cardinality(Severe) = actual_error + 1
    BY <1>1, <1>2 DEF Counts
<1>4. actual_error' = Cardinality(Severe) /\ Severe' = Severe
    BY <1>3 DEF Count, CountedTotal, history, Severe
<1> QED BY <1>1, <1>2, <1>4 DEF Counts

LEMMA StepCounts == IInv /\ Counts /\ [Next]_vars => Counts'
<1> SUFFICES ASSUME IInv, Counts, [Next]_vars PROVE Counts'
    OBVIOUS
<1>1. ASSUME NEW c \in Callers, NEW kind \in Kinds, Throw(c, kind) PROVE Counts'
    BY <1>1, ThrowCounts
<1>2. ASSUME NEW c \in Callers, Count(c) PROVE Counts'
    BY <1>2, CountCounts
<1>3. ASSUME NEW c \in Callers, NEW from, NEW to, Goes(c, from, to),
             from # "counting", to # "counting"
      PROVE  \A d \in Callers : pc'[d] = "counting" <=> pc[d] = "counting"
    BY <1>3 DEF Goes, IInv, Types, TypeOK
<1>4. ASSUME NEW c \in Callers, Number(c) \/ Return(c) \/ Dump(c) PROVE Counts'
    BY <1>3, <1>4, StillCounts DEF Number, Return, Dump, manager, history
<1>5. ASSUME NEW c \in Callers, Emplace(c) \/ Clear(c) PROVE Counts'
    BY <1>3, <1>5, StillCounts DEF Emplace, Clear, Race, manager, callers, history
<1>6. ASSUME NEW c \in Callers,
             \/ NumberFails(c)
             \/ \E a \in answers : ErrorOut(c, a.id)
             \/ \E name \in Holes : Connect(c, name) \/ Disconnect(c, name)
      PROVE  Counts'
    BY <1>6, StillCounts DEF NumberFails, ErrorOut, Connect, Disconnect, Race, manager, callers, history
<1>7. CASE UNCHANGED vars
    BY <1>7, StillCounts DEF vars, manager, callers, history
<1> QED BY <1>1, <1>2, <1>4, <1>5, <1>6, <1>7 DEF Next, Step

\* The total is that of the errors thrown, whatever was withdrawn or dumped.
THEOREM TotalRight == Spec => []TotalCounts
<1>1. Init => Counts
    <2> SUFFICES ASSUME Init PROVE Counts
        OBVIOUS
    <2>1. Severe = {}
        BY DEF Init, Severe
    <2> QED BY <2>1, FS_EmptySet DEF Init, Counts
<1>2. Counts => TotalCounts
    BY DEF Counts, TotalCounts, Severe
<1> QED BY <1>1, <1>2, StepCounts, Invariance, PTL DEF Spec

\* Every description has as many arguments as it has {}.
Enough == \A kind \in Kinds : kind.holes <= Len(kind.args)

LEMMA OutOfArguments ==
    ASSUME Enough, NEW kind \in Kinds, RunsOut(kind)
    PROVE  \E k \in DOMAIN kind.args : kind.args[k]
<1> SUFFICES ASSUME \A k \in DOMAIN kind.args : ~kind.args[k] PROVE FALSE
    OBVIOUS
<1> DEFINE n == Len(kind.args)
<1>1. kind.args \in Seq(BOOLEAN) /\ kind.holes \in Nat
    BY ErrorManagerAssumption DEF Kind
<1>2. n \in Nat /\ DOMAIN kind.args = 1..n
    BY <1>1, LenProperties
<1>3. {k \in 1..n : kind.args[k]} = {}
    BY <1>2
<1>4. kind.holes - n + Cardinality({k \in 1..n : kind.args[k]}) > 0
    BY <1>2 DEF RunsOut
<1>5. Cardinality({k \in 1..n : kind.args[k]}) = 0
    BY <1>3, FS_EmptySet
<1>6. kind.holes - n > 0
    BY <1>1, <1>2, <1>4, <1>5
<1> QED BY <1>1, <1>2, <1>6 DEF Enough

\* Reading past the arguments takes one with a {} in it.
THEOREM ArgumentsEnough == ASSUME Enough PROVE Spec => []ArgumentsSuffice
<1>1. Init => ArgumentsSuffice
    BY DEF Init, ArgumentsSuffice
<1>2. IInv /\ ArgumentsSuffice /\ [Next]_vars => ArgumentsSuffice'
    <2> SUFFICES ASSUME IInv, ArgumentsSuffice, [Next]_vars PROVE ArgumentsSuffice'
        OBVIOUS
    <2>1. ASSUME NEW c \in Callers, NEW kind \in Kinds, Throw(c, kind) PROVE ArgumentsSuffice'
        <3>1. fault' = "none"
            BY <2>1 DEF Throw, Goes, Alive
        <3> QED BY <3>1 DEF ArgumentsSuffice
    <2>2. ASSUME NEW c \in Callers, NumberFails(c) PROVE ArgumentsSuffice'
        <3>1. mine[c] \in DOMAIN thrown /\ Error(c) \in Kinds
            BY <2>2, LenProperties DEF NumberFails, Error, IInv, Types, TypeOK, Throwing
        <3>2. \E k \in DOMAIN Error(c).args : Error(c).args[k]
            BY <2>2, <3>1, OutOfArguments DEF NumberFails
        <3> QED BY <2>2, <3>1, <3>2 DEF ArgumentsSuffice, NumberFails, Error, history
    <2>3. ASSUME Race PROVE ArgumentsSuffice'
        BY <2>3 DEF Race, ArgumentsSuffice
    <2>4. ASSUME UNCHANGED <<fault, thrown>> PROVE ArgumentsSuffice'
        BY <2>4 DEF ArgumentsSuffice
    <2>5. ASSUME NEW c \in Callers, Step(c), ~NumberFails(c),
                 ~(\E kind \in Kinds : Throw(c, kind))
          PROVE  Race \/ UNCHANGED <<fault, thrown>>
        BY <2>5 DEF Step, Count, Number, Emplace, Return, ErrorOut, Dump, Clear, Connect,
                    Disconnect, history
    <2>6. CASE UNCHANGED vars
        BY <2>4, <2>6 DEF vars, history
    <2> QED BY <2>1, <2>2, <2>3, <2>4, <2>5, <2>6 DEF Next
<1> QED BY <1>1, <1>2, Invariance, PTL DEF Spec

=============================================================================
