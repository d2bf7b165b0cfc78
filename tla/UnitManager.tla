--------------------------- MODULE UnitManager ---------------------------
(* unit_manager: units by name, found in a table, or else in the files of    *)
(* the search paths. The compiler asks it for the units a source uses, and   *)
(* the interpreter asks again at every call into another unit; meanwhile     *)
(* files change, and the host registers units and search paths of its own.   *)
EXTENDS Integers, Sequences, FiniteSets

CONSTANTS
    Units,       \* names of units, ".snc" included
    Builtins,    \* those init_builtin registers
    Paths,       \* directories there can be
    Here,        \* ".", the first search path
    MaxWrites,   \* bound on changes of files
    MaxPaths     \* bound on search paths

ASSUME UnitManagerAssumption ==
    /\ Here \in Paths
    /\ Builtins \subseteq Units
    /\ MaxWrites \in Nat
    /\ MaxPaths \in Nat \ {0}

VARIABLES
    directories,      \* external: the paths that can be listed
    files,            \* external: files[p][n] is the file n of directory p
    writes,           \* external: changes of files so far
    suspects,         \* history: names that ever had a file with no magic of ours
    units,            \* the units by name
    unit_buffer_map,  \* the bytes of the units read from files
    search_paths,     \* sequence of directories
    answer,           \* what the last use_unit returned, and for which name
    fault             \* why the process is gone, "none" while it is not

manager == <<units, unit_buffer_map, search_paths>>
outside == <<directories, files, writes, suspects>>
vars    == <<outside, manager, answer, fault>>

-----------------------------------------------------------------------------
(* Files. What is in one is the number of the write that made it.            *)

\* The first four bytes, by what do_unit_check reads in them: its magic, the
\* one BINARY.md gives, or fewer than four and what the buffer held before.
Magics == {"SNL", "SIL", "short"}

Absent == [magic |-> "none", bytes |-> 0, opens |-> FALSE]

File == {Absent} \cup [magic : Magics, bytes : Nat, opens : BOOLEAN]

Entry(i, n) == files[search_paths[i]][n]

Listed(i) == search_paths[i] \in directories

-----------------------------------------------------------------------------
(* Units. An interpreted unit keeps a pointer to its bytes, and the functions *)
(* and references that query_entries read in them.                           *)

nullptr  == [kind |-> "nullptr", entries |-> 0]
external == [kind |-> "external", entries |-> 0]
interpreted(bytes) == [kind |-> "interpreted", entries |-> bytes]

\* MUTANT: the name is bound again.
Emplace_Assigns(table, n, unit) ==
    [m \in DOMAIN table \cup {n} |-> IF m = n THEN unit ELSE table[m]]

\* A name that is bound keeps what it is bound to.
Emplace(table, n, unit) ==
    [m \in DOMAIN table \cup {n} |-> IF m \in DOMAIN table THEN table[m] ELSE unit]

-----------------------------------------------------------------------------
(* use_unit                                                                  *)

Alive == fault = "none"

\* MUTANT: only units of the host are looked up first.
Cached_External(n) == n \in DOMAIN units /\ units[n] = external

Cached(n) == n \in DOMAIN units

\* The search for n comes to an end at the first path that has the file, or
\* cannot be listed.
Ends(i, n) == ~Listed(i) \/ Entry(i, n) # Absent

EndsAt(i, n) == Ends(i, n) /\ \A j \in 1..(i - 1) : ~Ends(j, n)

Answers(how, n, unit) == answer' = [how |-> how, name |-> n, unit |-> unit]

UseKnown(n) ==
    /\ Cached(n)
    /\ Answers("returned", n, units[n])
    /\ UNCHANGED <<outside, manager, fault>>

\* What do_unit_check makes of the magic of a file.
Recognised(file) ==
    CASE file.magic = "SNL"   -> {TRUE}
      [] file.magic = "short" -> BOOLEAN
      [] OTHER                -> {FALSE}

\* do_unit_check reads the file and adds a unit. The header of a file that
\* has no room for one is read all the same.
Load(n, file) ==
    /\ file.opens /\ TRUE \in Recognised(file)
    /\ IF file.magic = "short"
       THEN fault' = "short_binary" /\ UNCHANGED <<manager, answer>>
       ELSE /\ unit_buffer_map' = [m \in DOMAIN unit_buffer_map \cup {n} |->
                                    IF m = n THEN file.bytes ELSE unit_buffer_map[m]]
            /\ units' = Emplace(units, n, interpreted(file.bytes))
            /\ Answers("returned", n, units'[n])
            /\ UNCHANGED <<search_paths, fault>>
    /\ UNCHANGED outside

\* do_unit_check says true of a file with another magic too, and units[unit]
\* makes an entry for it: a null pointer.
Refuse(n, file) ==
    /\ file.opens /\ FALSE \in Recognised(file)
    /\ units' = Emplace(units, n, nullptr)
    /\ Answers("returned", n, units'[n])
    /\ UNCHANGED <<outside, unit_buffer_map, search_paths, fault>>

\* fclose of the null pointer that fopen returned.
NotOpened(n, file) ==
    /\ ~file.opens
    /\ fault' = "fclose_null"
    /\ UNCHANGED <<outside, manager, answer>>

\* directory_iterator throws.
NotListed(n) ==
    /\ Answers("thrown", n, nullptr)
    /\ UNCHANGED <<outside, manager, fault>>

UseFile(n, i) ==
    /\ ~Cached(n) /\ EndsAt(i, n)
    /\ \/ ~Listed(i) /\ NotListed(n)
       \/ Listed(i) /\ Load(n, Entry(i, n))
       \/ Listed(i) /\ Refuse(n, Entry(i, n))
       \/ Listed(i) /\ NotOpened(n, Entry(i, n))

\* MUTANT: the table is looked up with operator[], which binds the name.
AfterMiss_Bound(n) == Emplace(units, n, nullptr)

AfterMiss(n) == units

\* No path has the file: unit_not_found.
NotFound(n) ==
    /\ ~Cached(n)
    /\ \A i \in DOMAIN search_paths : ~Ends(i, n)
    /\ units' = AfterMiss(n)
    /\ Answers("reported", n, nullptr)
    /\ UNCHANGED <<outside, unit_buffer_map, search_paths, fault>>

UseUnit(n) ==
    /\ Alive
    /\ \/ UseKnown(n)
       \/ \E i \in DOMAIN search_paths : UseFile(n, i)
       \/ NotFound(n)

-----------------------------------------------------------------------------
(* The host, and the file system                                             *)

AddExternalUnit(n) ==
    /\ Alive
    /\ units' = Emplace(units, n, external)
    /\ UNCHANGED <<outside, unit_buffer_map, search_paths, answer, fault>>

AddSearchPath(p) ==
    /\ Alive /\ Len(search_paths) < MaxPaths
    /\ search_paths' = Append(search_paths, p)
    /\ UNCHANGED <<outside, units, unit_buffer_map, answer, fault>>

\* A file is written, replaced, or removed.
Contents == {Absent} \cup [magic : Magics, bytes : {writes + 1}, opens : BOOLEAN]

Change(p, n, file) ==
    /\ Alive /\ writes < MaxWrites
    /\ writes' = writes + 1
    /\ files' = [files EXCEPT ![p][n] = file]
    /\ suspects' = IF file.magic \in {"SNL", "none"} THEN suspects ELSE suspects \cup {n}
    /\ UNCHANGED <<directories, manager, answer, fault>>

-----------------------------------------------------------------------------
(* Behaviour                                                                 *)

\* The constructor may register the built-in units, and searches the current
\* directory.
Init ==
    /\ directories \in {d \in SUBSET Paths : Here \in d}
    /\ files = [p \in Paths |-> [n \in Units |-> Absent]]
    /\ writes = 0
    /\ suspects = {}
    /\ units \in {[n \in s |-> external] : s \in {{}, Builtins}}
    /\ unit_buffer_map = << >>
    /\ search_paths = <<Here>>
    /\ answer = [how |-> "reported", name |-> "none", unit |-> nullptr]
    /\ fault = "none"

Next ==
    \/ \E n \in Units : UseUnit(n) \/ AddExternalUnit(n)
    \/ \E p \in Paths : AddSearchPath(p)
    \/ \E p \in directories, n \in Units, file \in Contents : Change(p, n, file)
    \/ ~Alive /\ UNCHANGED vars

Spec == Init /\ [][Next]_vars

-----------------------------------------------------------------------------
(* Properties                                                                *)

\* A unit read from a file still has the bytes its functions were found in,
\* whatever became of the file: the pointers it was handed into the buffer
\* never see another binary.
EntriesMatchBytes ==
    \A n \in DOMAIN units : units[n].kind = "interpreted" =>
        n \in DOMAIN unit_buffer_map /\ unit_buffer_map[n] = units[n].entries

\* What is in the table stays there.
UnitsKept == \A n \in DOMAIN units : n \in DOMAIN units' /\ units'[n] = units[n]

\* A name means one unit from the first time it means any: neither a file that
\* changes, nor a path added, nor a unit the host registers replaces it. The
\* index of a function that the compiler found by name is good at every call.
OneUnitForever == [][UnitsKept]_vars

\* use_unit fails in silence only for a name that once had a file it refused.
\* A name that was merely not found is reported every time, however often it
\* is asked for and whatever is registered in between.
SilentOnlyIfSuspect ==
    answer.how = "returned" /\ answer.unit = nullptr => answer.name \in suspects

=============================================================================
